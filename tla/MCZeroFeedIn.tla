----------------------------- MODULE MCZeroFeedIn -----------------------------
(* A block of the one point that the loop writes too.                        *)
EXTENDS ZeroFeedIn

MCSteps == <<"outWRte">>
===============================================================================
