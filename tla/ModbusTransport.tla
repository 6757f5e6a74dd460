--------------------------- MODULE ModbusTransport ---------------------------
(***************************************************************************)
(* The pooled Modbus/TCP connection to one device                          *)
(* (src/dvhub/transport-modbus.js): requests are queued and sent one after *)
(* another, each with a timer of its own; a request that runs out of time  *)
(* takes its socket with it.                                               *)
(*                                                                         *)
(* A socket that was destroyed still emits 'close', and its listener acts  *)
(* on whatever the connection has become by then.  Node emits it before    *)
(* the event loop comes back to timers and data, so only calls, and the    *)
(* 'connect' of a new socket, may come in between.                         *)
(*                                                                         *)
(* Requests are numbered in the order of the calls, those on the other     *)
(* connections of the process with them: one counter is for all.  The      *)
(* transaction number on the wire has 16 bit, and 0 is sent as 1.  Frames  *)
(* are whole: a part of one in the buffer changes nothing until the rest   *)
(* has come.                                                               *)
(***************************************************************************)
EXTENDS Integers, Sequences, FiniteSets, Functions

CONSTANTS
  MaxCalls,   \* bound: requests made
  MaxFrames,  \* bound: frames that come although nobody asked for them
  TidMod,     \* 2^16
  None        \* no request, no answer

ASSUME BoundsAssumption == MaxCalls \in Nat /\ MaxFrames \in Nat
ASSUME TidAssumption == TidMod \in Nat /\ TidMod > 1
ASSUME NoneAssumption == None \notin Int

VARIABLES
  issued,    \* requests the process has made so far
  status,    \* of each request: "new", "waiting", "ok" or "failed"
  answer,    \* history: the request to which the frame belonged that settled one
  queue,     \* requests not sent yet
  pending,   \* the request that was sent and is not settled, or None
  buf,       \* frames received and not taken yet
  sock,      \* the socket: "none", "connecting", "open", "ending" (half closed)
  closing,   \* a socket that is gone has not emitted 'close' yet
  wire,      \* requests on their way on this socket
  late,      \* requests on their way on sockets that are gone
  answers,   \* frames on their way back
  executed,  \* requests the device has carried out
  strayed    \* history: the device has sent a frame nobody asked for

vars == <<issued, status, answer, queue, pending, buf, sock, closing,
          wire, late, answers, executed, strayed>>

Calls == 1 .. MaxCalls

(* The requests the connection knows of, in the order of the calls.         *)
Held == IF pending = None THEN queue ELSE <<pending>> \o queue

(* (tidCounter++ & 0xffff) || 1                                             *)
Tid(id) == IF id % TidMod = 0 THEN 1 ELSE id % TidMod

(* Mutant: the transaction number of the answer is not looked at.           *)
FulfilsUnchecked(id, f) == f.good

(* mbRequest and the writes: the answer carries the transaction number of   *)
(* the request and is no exception.                                         *)
Fulfils(id, f) == Tid(f.to) = Tid(id) /\ f.good

Settled(ids, result) ==
  [id \in Calls |-> IF id \in ids THEN result ELSE status[id]]

-----------------------------------------------------------------------------
(* Mutant: the last request of the queue goes first.                        *)
ShiftLast(q, w) ==
  /\ pending' = q[Len(q)] /\ queue' = SubSeq(q, 1, Len(q) - 1)
  /\ wire' = Append(w, q[Len(q)])

Shift(q, w) == pending' = Head(q) /\ queue' = Tail(q) /\ wire' = Append(w, Head(q))

Keep(q, w) == pending' = None /\ queue' = q /\ wire' = w

(* _next(), while nothing is pending: connect first, send the next request, *)
(* or leave it to the 'close' of a socket that can not be written any more. *)
(* One that is still connecting can be written.                             *)
Advance(q, s, w) ==
  \/ q = <<>> /\ Keep(q, w) /\ sock' = s
  \/ q # <<>> /\ s = "none" /\ Keep(q, w) /\ sock' = "connecting"
  \/ q # <<>> /\ s = "ending" /\ Keep(q, w) /\ sock' = s
  \/ q # <<>> /\ s \in {"connecting", "open"} /\ Shift(q, w) /\ sock' = s

(* What a destroyed socket has sent may still arrive.                       *)
Sent == IF sock = "connecting" THEN {} ELSE Range(wire)

(* Mutant: the queue is emptied without a word to its requests.             *)
GivenUpPending == Settled({pending}, "failed")

GivenUp == Settled(Range(Held), "failed")

(* Mutant: the socket is destroyed but stays in its place.                  *)
NoSocketKept == "destroyed"

NoSocket == "none"

(* _fail() and destroy(): every request the connection knows of is          *)
(* rejected, buffer and socket are given up.                                *)
Fail(sent) ==
  /\ status' = GivenUp
  /\ queue' = <<>> /\ pending' = None /\ buf' = <<>>
  /\ sock' = NoSocket
  /\ wire' = <<>> /\ answers' = <<>>
  /\ late' = late \union sent
  /\ UNCHANGED <<issued, answer, executed, strayed>>

-----------------------------------------------------------------------------
(* send(): queued, and sent at once if it can be.                           *)
Send ==
  /\ issued < MaxCalls
  /\ issued' = issued + 1
  /\ status' = Settled({issued'}, "waiting")
  /\ \/ pending = None /\ Advance(Append(queue, issued'), sock, wire)
     \/ /\ pending # None
        /\ queue' = Append(queue, issued')
        /\ UNCHANGED <<pending, sock, wire>>
  /\ UNCHANGED <<answer, buf, closing, late, answers, executed, strayed>>

(* A write in read-only mode is refused before it is queued.  A request on  *)
(* another connection takes a number as well, and nothing else happens      *)
(* here.                                                                    *)
Refused ==
  /\ issued < MaxCalls
  /\ issued' = issued + 1
  /\ status' = Settled({issued'}, "failed")
  /\ UNCHANGED <<answer, queue, pending, buf, sock, closing,
                 wire, late, answers, executed, strayed>>

(* Mutant: nothing is sent when the socket has connected.                   *)
ConnectedSilently ==
  /\ sock = "connecting"
  /\ sock' = "open"
  /\ UNCHANGED <<issued, status, answer, queue, pending, buf, closing,
                 wire, late, answers, executed, strayed>>

Connected ==
  /\ sock = "connecting"
  /\ \/ pending = None /\ Advance(queue, "open", wire)
     \/ pending # None /\ sock' = "open" /\ UNCHANGED <<queue, pending, wire>>
  /\ UNCHANGED <<issued, status, answer, buf, closing, late, answers, executed, strayed>>

(* An error of the socket; it can not connect, or not in time.              *)
SocketError ==
  /\ sock # "none" /\ ~closing
  /\ Fail(Sent)
  /\ closing' = TRUE

(* 'close' of a socket that is gone, also when there is a new one.          *)
Closed ==
  /\ closing
  /\ Fail(Sent)
  /\ closing' = (sock # "none")

(* The device ends the connection: everything it has sent comes before.     *)
PeerEnds ==
  /\ sock = "open" /\ ~closing
  /\ answers = <<>>
  /\ sock' = "ending"
  /\ wire' = <<>>
  /\ late' = late \union Range(wire)
  /\ UNCHANGED <<issued, status, answer, queue, pending, buf, closing,
                 answers, executed, strayed>>

Ended ==
  /\ sock = "ending" /\ ~closing
  /\ sock' = "none"
  /\ closing' = TRUE
  /\ UNCHANGED <<issued, status, answer, queue, pending, buf,
                 wire, late, answers, executed, strayed>>

(* The pending request runs out of time: the socket goes with it, what is   *)
(* in the buffer stays, and the next request connects anew.                 *)
Timeout ==
  /\ pending # None /\ ~closing
  /\ status' = Settled({pending}, "failed")
  /\ Advance(queue, "none", <<>>)
  /\ closing' = (sock # "none")
  /\ late' = late \union Sent
  /\ answers' = <<>>
  /\ UNCHANGED <<issued, answer, buf, executed, strayed>>

(* destroy(): 30 s after the last answer, whatever is waiting by then; by   *)
(* the watchdog for frozen telemetry (dropConnections); at shutdown.  The   *)
(* next request gets a new connection, which no old socket knows of.        *)
Drop ==
  /\ Fail(Range(wire))
  /\ closing' = FALSE

(* _drain(), while a request is pending: the frames in the buffer are taken *)
(* one after another, each for the request that is pending by then; the     *)
(* next request is sent as soon as one is settled.                          *)
Drain(frames, taken) ==
  /\ status' = [id \in Calls |->
       IF \E i \in 1 .. taken : Held[i] = id /\ Fulfils(id, frames[i]) THEN "ok"
       ELSE IF \E i \in 1 .. taken : Held[i] = id THEN "failed" ELSE status[id]]
  /\ answer' = [id \in Calls |->
       IF \E i \in 1 .. taken : Held[i] = id
       THEN frames[CHOOSE i \in 1 .. taken : Held[i] = id].to ELSE answer[id]]
  /\ buf' = SubSeq(frames, taken + 1, Len(frames))
  /\ \/ /\ taken < Len(Held)
        /\ pending' = Held[taken + 1]
        /\ queue' = SubSeq(Held, taken + 2, Len(Held))
        /\ wire' = wire \o SubSeq(Held, 2, taken + 1)
     \/ /\ taken = Len(Held)
        /\ pending' = None
        /\ queue' = <<>>
        /\ wire' = wire \o SubSeq(Held, 2, taken)

(* 'data': frames that come while nothing is pending stay in the buffer.    *)
Data ==
  /\ sock = "open" /\ ~closing
  /\ answers # <<>>
  /\ answers' = Tail(answers)
  /\ LET frames == Append(buf, Head(answers))
     IN \/ /\ pending = None
           /\ buf' = frames
           /\ UNCHANGED <<status, answer, pending, queue, wire>>
        \/ /\ pending # None
           /\ Drain(frames, IF Len(Held) < Len(frames) THEN Len(Held) ELSE Len(frames))
  /\ UNCHANGED <<issued, sock, closing, late, executed, strayed>>

-----------------------------------------------------------------------------
(* The device carries out the next request and answers, or does not answer, *)
(* or answers with an exception.                                            *)
DeviceReads ==
  /\ sock = "open"
  /\ wire # <<>>
  /\ wire' = Tail(wire)
  /\ \/ /\ executed' = executed \union {Head(wire)}
        /\ answers' \in {answers, Append(answers, [to |-> Head(wire), good |-> TRUE])}
     \/ /\ executed' = executed
        /\ answers' = Append(answers, [to |-> Head(wire), good |-> FALSE])
  /\ UNCHANGED <<issued, status, answer, queue, pending, buf, sock, closing, late, strayed>>

(* It carries out a request that came on a socket that is gone.             *)
DeviceReadsLate(id) ==
  /\ id \in late
  /\ late' = late \ {id}
  /\ executed' = executed \union {id}
  /\ UNCHANGED <<issued, status, answer, queue, pending, buf, sock, closing,
                 wire, answers, strayed>>

(* It sends a frame nobody asked for, with the number of an earlier request.*)
Stray(id) ==
  /\ sock = "open"
  /\ id <= issued
  /\ Len(buf) + Len(answers) < MaxFrames
  /\ answers' = Append(answers, [to |-> id, good |-> TRUE])
  /\ strayed' = TRUE
  /\ UNCHANGED <<issued, status, answer, queue, pending, buf, sock, closing,
                 wire, late, executed>>

Init ==
  /\ issued = 0
  /\ status = [id \in Calls |-> "new"]
  /\ answer = [id \in Calls |-> None]
  /\ queue = <<>> /\ pending = None /\ buf = <<>>
  /\ sock = "none" /\ closing = FALSE
  /\ wire = <<>> /\ late = {} /\ answers = <<>>
  /\ executed = {} /\ strayed = FALSE

Next ==
  \/ Send \/ Refused
  \/ Connected \/ SocketError \/ Closed \/ PeerEnds \/ Ended
  \/ Timeout \/ Drop \/ Data
  \/ DeviceReads
  \/ \E id \in Calls : DeviceReadsLate(id) \/ Stray(id)

Spec == Init /\ [][Next]_vars

(* Timers run out; a socket connects or fails, at last by the timer of the  *)
(* connection; one that is gone emits 'close'.                              *)
Fairness ==
  /\ WF_vars(Timeout)
  /\ WF_vars(sock = "connecting" /\ (Connected \/ SocketError))
  /\ WF_vars(Ended)
  /\ WF_vars(Closed)

FairSpec == Spec /\ Fairness

-----------------------------------------------------------------------------
TypeOK ==
  /\ issued \in 0 .. MaxCalls
  /\ status \in [Calls -> {"new", "waiting", "ok", "failed"}]
  /\ answer \in [Calls -> Calls \union {None}]
  /\ queue \in Seq(Calls)
  /\ pending \in Calls \union {None}
  /\ buf \in Seq([to : Calls, good : BOOLEAN])
  /\ sock \in {"none", "connecting", "open", "ending"}
  /\ closing \in BOOLEAN
  /\ wire \in Seq(Calls)
  /\ late \subseteq Calls
  /\ answers \in Seq([to : Calls, good : BOOLEAN])
  /\ executed \subseteq Calls
  /\ strayed \in BOOLEAN

(* No promise is forgotten: a request that is not settled is one the        *)
(* connection still knows of, and no other is; through errors, timeouts,    *)
(* sockets that close late and connections that are dropped.                *)
NoneForgotten == {id \in Calls : status[id] = "waiting"} = Range(Held)

(* And something will happen to it: it has a socket that connects or is     *)
(* written, a timer, or the 'close' of a socket ahead of it.                *)
Attended ==
  /\ pending # None => sock # "none" \/ closing
  /\ pending = None /\ queue # <<>> => sock \in {"connecting", "ending"} \/ closing

(* "The acknowledgement must fit the request": a request is fulfilled with  *)
(* the answer to another one only when the device has sent a frame nobody   *)
(* asked for, and the transaction numbers of the process have begun to      *)
(* repeat.                                                                  *)
OwnAnswer ==
  \A id \in Calls : status[id] = "ok" =>
     answer[id] = id \/ (strayed /\ issued >= TidMod)

(* What the callers rely on: settled once, fulfilled only when carried out, *)
(* and in the order of the calls.                                           *)
Service == INSTANCE RequestService WITH misled <- strayed

Served == Service!Spec

(* No caller waits for ever, whatever the device and the network do.        *)
EverySettles == \A id \in Calls : (status[id] = "waiting") ~> (status[id] # "waiting")

=============================================================================
