---- MODULE MCControlGate ----
EXTENDS ControlGate
\* -3 is a sale, -1 the buffer.
MCValues == {-3, -1, 0}
MCForcedExport == -3
MCDefault == -1
MCCommands == {[value |-> -3, persistent |-> TRUE]}
Normal == [rule |-> None, soc |-> "fit", price |-> "fair", charge |-> TRUE, discharge |-> TRUE,
           share |-> None, peak |-> None, limit |-> None]
MCEnvs == {Normal, [Normal EXCEPT !.rule = [value |-> -3, source |-> "rule"], !.price = "negative"]}
====
