---------------------------- MODULE RequestService ----------------------------
(***************************************************************************)
(* What the rest of DVhub relies on when it sends a request to a device:   *)
(* the promise of the transport is settled once; it is fulfilled only when *)
(* the device has carried the request out, and in the order of the calls;  *)
(* a request that is rejected may have been carried out all the same, or   *)
(* will be.  Modules DvControl and FeedInLimitArbiter are built on these   *)
(* outcomes; module ModbusTransport is shown to have no others.            *)
(***************************************************************************)
EXTENDS Integers

CONSTANT Calls   \* requests, numbered in the order of the calls

VARIABLES
  status,        \* of each request: "new", "waiting", "ok" or "failed"
  executed,      \* requests the device has carried out
  misled         \* the device has answered without being asked

vars == <<status, executed, misled>>

Waiting == {id \in Calls : status[id] = "waiting"}

Init ==
  /\ status = [id \in Calls |-> "new"]
  /\ executed = {}
  /\ misled = FALSE

(* A request is made, or refused before it is sent (a write in read-only    *)
(* mode).                                                                   *)
Call(id) ==
  /\ status[id] = "new"
  /\ status' \in {[status EXCEPT ![id] = "waiting"], [status EXCEPT ![id] = "failed"]}
  /\ UNCHANGED <<executed, misled>>

Execute(id) ==
  /\ status[id] # "new"
  /\ executed' = executed \union {id}
  /\ UNCHANGED <<status, misled>>

Mislead == misled' = TRUE /\ UNCHANGED <<status, executed>>

(* Requests are settled: those of done are fulfilled, those of lost are     *)
(* rejected, and none that was called before one of done goes on waiting.   *)
Settle(done, lost) ==
  /\ done \subseteq Waiting /\ lost \subseteq Waiting
  /\ done \subseteq executed \/ misled
  /\ \A id \in done, other \in Waiting : other < id => other \in done \union lost
  /\ status' = [id \in Calls |-> IF id \in done THEN "ok"
                                 ELSE IF id \in lost THEN "failed" ELSE status[id]]
  /\ UNCHANGED <<executed, misled>>

Next ==
  \/ \E id \in Calls : Call(id) \/ Execute(id)
  \/ Mislead
  \/ \E done, lost \in SUBSET Calls : Settle(done, lost)

Spec == Init /\ [][Next]_vars

=============================================================================
