------------------------ MODULE ModbusTransport_proofs ------------------------
(***************************************************************************)
(* Proofs about ModbusTransport, for any number of requests, stray frames  *)
(* and transaction numbers.  RequestInv is what keeps promises and queue   *)
(* together, SerialInv why the answer that comes is that of the pending    *)
(* request as long as the device sends nothing unasked: one request at a   *)
(* time is on the wire, and what was on its way dies with the socket.      *)
(***************************************************************************)
EXTENDS ModbusTransport, SequenceTheorems, TLAPS

Frame == [to : Calls, good : BOOLEAN]

LEMMA HeadTail ==
  ASSUME NEW S, NEW s \in Seq(S), s # <<>>
  PROVE  <<Head(s)>> \o Tail(s) = s
  <1>1. /\ Head(s) \in S /\ Tail(s) \in Seq(S) /\ Len(Tail(s)) = Len(s) - 1
        /\ \A i \in 1 .. Len(Tail(s)) : Tail(s)[i] = s[i + 1]
        /\ Head(s) = s[1] /\ Len(s) \in Nat \ {0}
    BY HeadTailProperties, EmptySeq
  <1>2. <<Head(s)>> \in Seq(S) /\ Len(<<Head(s)>>) = 1 /\ <<Head(s)>>[1] = s[1]
    BY <1>1
  <1>3. /\ <<Head(s)>> \o Tail(s) \in Seq(S)
        /\ Len(<<Head(s)>> \o Tail(s)) = Len(s)
        /\ \A i \in 1 .. Len(s) : (<<Head(s)>> \o Tail(s))[i] = s[i]
    BY <1>1, <1>2, ConcatProperties
  <1> QED BY <1>3, SeqEqual

LEMMA NoneNoCall == None \notin Calls
  BY NoneAssumption, BoundsAssumption DEF Calls

LEMMA AdvanceHeld ==
  ASSUME NEW q \in Seq(Calls), NEW s, NEW w \in Seq(Calls), Advance(q, s, w)
  PROVE  /\ Held' = q
         /\ queue' \in Seq(Calls) /\ pending' \in Calls \union {None}
         /\ wire' \in Seq(Calls)
         /\ sock' \in {s, "connecting"}
         /\ pending' = None => wire' = w
         /\ pending' # None => wire' = Append(w, pending') /\ sock' = s /\ s \in {"connecting", "open"}
         /\ pending' = None /\ queue' # <<>> => sock' \in {"connecting", "ending"}
  <1>1. CASE pending' = None /\ queue' = q /\ wire' = w
    BY <1>1 DEF Advance, Keep, Held, Shift
  <1>2. CASE q # <<>> /\ Shift(q, w) /\ sock' = s /\ s \in {"connecting", "open"}
    <2>1. Head(q) \in Calls /\ Tail(q) \in Seq(Calls)
      BY <1>2, HeadTailProperties
    <2>3. Head(q) # None
      BY <2>1, NoneNoCall
    <2>2. Held' = <<Head(q)>> \o Tail(q)
      BY <1>2, <2>1, <2>3 DEF Held, Shift
    <2> QED BY <1>2, <2>1, <2>2, <2>3, HeadTail, AppendProperties DEF Shift
  <1> QED BY <1>1, <1>2 DEF Advance, Keep

LEMMA HeldSeq == TypeOK => Held \in Seq(Calls)
  <1> SUFFICES ASSUME TypeOK PROVE Held \in Seq(Calls)
    OBVIOUS
  <1>1. CASE pending = None
    BY <1>1 DEF TypeOK, Held
  <1>2. CASE pending # None
    <2>1. <<pending>> \in Seq(Calls) /\ queue \in Seq(Calls)
      BY <1>2 DEF TypeOK
    <2> QED BY <1>2, <2>1, ConcatProperties DEF Held
  <1> QED BY <1>1, <1>2

LEMMA SettledType ==
  ASSUME TypeOK, NEW ids, NEW result \in {"new", "waiting", "ok", "failed"}
  PROVE  Settled(ids, result) \in [Calls -> {"new", "waiting", "ok", "failed"}]
  BY DEF TypeOK, Settled

(* What happens to the connection in a step that takes requests from it.    *)
LEMMA DrainType ==
  ASSUME TypeOK, NEW frames \in Seq(Frame), NEW taken \in 1 .. Len(frames),
         taken <= Len(Held), pending # None, Drain(frames, taken)
  PROVE  /\ status' \in [Calls -> {"new", "waiting", "ok", "failed"}]
         /\ answer' \in [Calls -> Calls \union {None}]
         /\ buf' \in Seq(Frame)
         /\ pending' \in Calls \union {None}
         /\ queue' \in Seq(Calls) /\ wire' \in Seq(Calls)
  <1> DEFINE h == Held
  <1>0. h \in Seq(Calls) /\ wire \in Seq(Calls)
    BY HeldSeq DEF TypeOK
  <1>1. status' \in [Calls -> {"new", "waiting", "ok", "failed"}]
    BY DEF Drain, TypeOK
  <1>2. answer' \in [Calls -> Calls \union {None}]
    <2> SUFFICES ASSUME NEW id \in Calls, \E i \in 1 .. taken : h[i] = id
                 PROVE  frames[CHOOSE i \in 1 .. taken : h[i] = id].to \in Calls
      BY DEF Drain, TypeOK
    <2>1. (CHOOSE i \in 1 .. taken : h[i] = id) \in 1 .. taken
      OBVIOUS
    <2>2. \A i \in 1 .. taken : frames[i] \in Frame
      OBVIOUS
    <2> QED BY <2>1, <2>2 DEF Frame
  <1>3. buf' \in Seq(Frame)
    BY SubSeqProperties DEF Drain
  <1>4. \A m, n \in Int : m > 0 /\ n <= Len(h) => SubSeq(h, m, n) \in Seq(Calls)
    <2> SUFFICES ASSUME NEW m \in Int, NEW n \in Int, m > 0, n <= Len(h)
                 PROVE  SubSeq(h, m, n) \in Seq(Calls)
      OBVIOUS
    <2>1. \A i \in m .. n : h[i] \in Calls
      BY <1>0
    <2> QED BY <2>1, SubSeqProperties
  <1>8. ASSUME NEW n \in Int, n <= Len(h) PROVE SubSeq(h, 2, n) \in Seq(Calls)
    <2>1. \A i \in 2 .. n : h[i] \in Calls
      BY <1>0, <1>8
    <2> QED BY <2>1, SubSeqProperties
  <1>5. taken \in Nat /\ Len(h) \in Nat
    BY <1>0
  <1>6. CASE /\ taken < Len(h) /\ pending' = h[taken + 1]
             /\ queue' = SubSeq(h, taken + 2, Len(h))
             /\ wire' = wire \o SubSeq(h, 2, taken + 1)
    <2> HIDE DEF h
    <2>1. h[taken + 1] \in Calls
      BY <1>0, <1>5, <1>6
    <2>2. SubSeq(h, taken + 2, Len(h)) \in Seq(Calls)
      BY <1>4, <1>5
    <2>3. SubSeq(h, 2, taken + 1) \in Seq(Calls)
      BY <1>8, <1>5, <1>6
    <2> QED BY <1>0, <1>1, <1>2, <1>3, <1>6, <2>1, <2>2, <2>3, ConcatProperties
  <1>7. CASE /\ taken = Len(h) /\ pending' = None /\ queue' = <<>>
             /\ wire' = wire \o SubSeq(h, 2, taken)
    <2> HIDE DEF h
    <2>1. SubSeq(h, 2, taken) \in Seq(Calls)
      BY <1>8, <1>5, <1>7
    <2> QED BY <1>0, <1>1, <1>2, <1>3, <1>7, <2>1, ConcatProperties
  <1> QED BY <1>6, <1>7 DEF Drain

LEMMA FailType ==
  ASSUME TypeOK, NEW sent \in SUBSET Calls, Fail(sent), closing' \in BOOLEAN
  PROVE  TypeOK'
  <1>1. status' \in [Calls -> {"new", "waiting", "ok", "failed"}]
    BY SettledType DEF Fail, GivenUp
  <1> QED BY <1>1 DEF Fail, NoSocket, TypeOK

LEMMA SentType == TypeOK => Range(wire) \subseteq Calls /\ Sent \subseteq Calls
  BY RangeOfSeq DEF TypeOK, Sent

LEMMA TypeStep ==
  ASSUME TypeOK, [Next]_vars
  PROVE  TypeOK'
  <1> USE DEF Frame
  <1>0. /\ Held \in Seq(Calls) /\ Sent \subseteq Calls /\ Range(wire) \subseteq Calls
        /\ <<>> \in Seq(Calls) /\ <<>> \in Seq(Frame)
    BY HeldSeq, SentType, EmptySeq
  <1>1. CASE Send
    <2>1. issued' \in Calls /\ issued' \in 0 .. MaxCalls
      BY <1>1, BoundsAssumption DEF Send, Calls, TypeOK
    <2>2. status' \in [Calls -> {"new", "waiting", "ok", "failed"}]
      BY <1>1, SettledType DEF Send
    <2>3. Append(queue, issued') \in Seq(Calls)
      BY <2>1, AppendProperties DEF TypeOK
    <2>4. CASE pending = None /\ Advance(Append(queue, issued'), sock, wire)
      <3>1. wire' \in Seq(Calls) /\ queue' \in Seq(Calls) /\ pending' \in Calls \union {None}
            /\ sock' \in {sock, "connecting"}
        BY <2>3, <2>4, AdvanceHeld DEF TypeOK
      <3> QED BY <1>1, <2>1, <2>2, <3>1 DEF Send, TypeOK
    <2>5. CASE queue' = Append(queue, issued') /\ UNCHANGED <<pending, sock, wire>>
      BY <1>1, <2>1, <2>2, <2>3, <2>5 DEF Send, TypeOK
    <2> QED BY <1>1, <2>4, <2>5 DEF Send
  <1>2. CASE Refused
    <2>1. issued' \in 0 .. MaxCalls
      BY <1>2, BoundsAssumption DEF Refused, TypeOK
    <2>2. status' \in [Calls -> {"new", "waiting", "ok", "failed"}]
      BY <1>2, SettledType DEF Refused
    <2> QED BY <1>2, <2>1, <2>2 DEF Refused, TypeOK
  <1>3. CASE Connected
    <2>1. CASE Advance(queue, "open", wire)
      <3>1. wire' \in Seq(Calls) /\ queue' \in Seq(Calls) /\ pending' \in Calls \union {None}
            /\ sock' \in {"open", "connecting"}
        BY <2>1, AdvanceHeld DEF TypeOK
      <3> QED BY <1>3, <3>1 DEF Connected, TypeOK
    <2>2. CASE sock' = "open" /\ UNCHANGED <<queue, pending, wire>>
      BY <1>3, <2>2 DEF Connected, TypeOK
    <2> QED BY <1>3, <2>1, <2>2 DEF Connected
  <1>4. CASE SocketError \/ Closed \/ Drop
    <2>1. closing' \in BOOLEAN /\ \E sent \in SUBSET Calls : Fail(sent)
      BY <1>0, <1>4 DEF SocketError, Closed, Drop
    <2> QED BY <2>1, FailType
  <1>5. CASE PeerEnds \/ Ended
    BY <1>0, <1>5 DEF PeerEnds, Ended, TypeOK
  <1>6. CASE Timeout
    <2>1. status' \in [Calls -> {"new", "waiting", "ok", "failed"}]
      BY <1>6, SettledType DEF Timeout
    <2>2. wire' \in Seq(Calls) /\ queue' \in Seq(Calls) /\ pending' \in Calls \union {None}
          /\ sock' \in {"none", "connecting"}
      BY <1>0, <1>6, AdvanceHeld DEF Timeout, TypeOK
    <2> QED BY <1>0, <1>6, <2>1, <2>2 DEF Timeout, TypeOK
  <1>7. CASE Data
    <2>1. Head(answers) \in Frame /\ Tail(answers) \in Seq(Frame)
      BY <1>7, HeadTailProperties DEF Data, TypeOK
    <2> DEFINE frames == Append(buf, Head(answers))
               taken == IF Len(Held) < Len(frames) THEN Len(Held) ELSE Len(frames)
    <2>2. frames \in Seq(Frame) /\ Len(frames) \in Nat \ {0}
      BY <2>1, AppendProperties DEF TypeOK
    <2>3. CASE pending = None
      BY <1>7, <2>1, <2>2, <2>3 DEF Data, TypeOK
    <2>4. CASE pending # None
      <3>1. Len(Held) \in Nat \ {0}
        <4>1. <<pending>> \in Seq(Calls) /\ queue \in Seq(Calls) /\ Len(<<pending>>) = 1
          BY <2>4 DEF TypeOK
        <4> QED BY <2>4, <4>1, ConcatProperties DEF Held
      <3>2. taken \in 1 .. Len(frames) /\ taken <= Len(Held)
        BY <2>2, <3>1
      <3>3. Drain(frames, taken)
        BY <1>7, <2>4 DEF Data
      <3> HIDE DEF frames, taken
      <3>4. /\ status' \in [Calls -> {"new", "waiting", "ok", "failed"}]
            /\ answer' \in [Calls -> Calls \union {None}]
            /\ buf' \in Seq(Frame)
            /\ pending' \in Calls \union {None}
            /\ queue' \in Seq(Calls) /\ wire' \in Seq(Calls)
        BY <2>2, <2>4, <3>2, <3>3, DrainType
      <3> QED BY <1>7, <2>1, <3>4 DEF Data, TypeOK
    <2> QED BY <2>3, <2>4
  <1>8. CASE DeviceReads
    <2>1. Head(wire) \in Calls /\ Tail(wire) \in Seq(Calls)
      BY <1>8, HeadTailProperties DEF DeviceReads, TypeOK
    <2>2. \A good \in BOOLEAN : Append(answers, [to |-> Head(wire), good |-> good]) \in Seq(Frame)
      BY <2>1, AppendProperties DEF TypeOK
    <2> QED BY <1>8, <2>1, <2>2 DEF DeviceReads, TypeOK
  <1>9. CASE \E id \in Calls : DeviceReadsLate(id)
    BY <1>9 DEF DeviceReadsLate, TypeOK
  <1>10. CASE \E id \in Calls : Stray(id)
    <2>1. PICK id \in Calls : Stray(id)
      BY <1>10
    <2>2. Append(answers, [to |-> id, good |-> TRUE]) \in Seq(Frame)
      BY AppendProperties DEF TypeOK
    <2> QED BY <2>1, <2>2 DEF Stray, TypeOK
  <1>11. CASE UNCHANGED vars
    BY <1>11 DEF vars, TypeOK
  <1> QED BY <1>1, <1>2, <1>3, <1>4, <1>5, <1>6, <1>7, <1>8, <1>9, <1>10, <1>11 DEF Next

LEMMA InitType == Init => TypeOK
  <1>1. <<>> \in Seq(Calls) /\ <<>> \in Seq(Frame) /\ 0 \in 0 .. MaxCalls
    BY EmptySeq, BoundsAssumption
  <1> QED BY <1>1 DEF Init, TypeOK, Frame

(* Type correctness of the connection: no step of it, of the socket or of   *)
(* the device leaves a variable outside its range.                          *)
THEOREM TypeCorrect == Spec => []TypeOK
  BY InitType, TypeStep, PTL DEF Spec

-----------------------------------------------------------------------------
Sorted(h) == \A i, j \in 1 .. Len(h) : i < j => h[i] < h[j]

(* A request is new until it has been made, and the waiting ones are those  *)
(* the connection holds, each once and in the order of the calls.           *)
RequestInv ==
  /\ \A id \in Calls : status[id] = "new" <=> id > issued
  /\ NoneForgotten
  /\ Sorted(Held)

(* What the device and the network hold belongs to requests that were made. *)
DeviceInv ==
  /\ \A id \in Range(wire) \union late : id <= issued
  /\ \A f \in Range(buf) \union Range(answers) : f.to <= issued

(* One request at a time is with the device, and it is the pending one.     *)
Asked ==
  \/ wire = <<pending>> /\ answers = <<>>
  \/ wire = <<>> /\ answers = <<>>
  \/ /\ wire = <<>>
     /\ Len(answers) = 1 /\ answers[1].to = pending
     /\ answers[1].good => pending \in executed

SerialInv ==
  ~strayed => /\ buf = <<>>
              /\ pending = None => wire = <<>> /\ answers = <<>>
              /\ pending # None => Asked

LEMMA InRange ==
  ASSUME NEW S, NEW s \in Seq(S), NEW x
  PROVE  x \in Range(s) <=> \E i \in 1 .. Len(s) : s[i] = x
  BY DEF Range

LEMMA RangeAppend ==
  ASSUME NEW S, NEW s \in Seq(S), NEW x \in S
  PROVE  Range(Append(s, x)) = Range(s) \union {x}
  <1>1. /\ Append(s, x) \in Seq(S) /\ Len(Append(s, x)) = Len(s) + 1 /\ Len(s) \in Nat
        /\ \A i \in 1 .. Len(s) : Append(s, x)[i] = s[i]
        /\ Append(s, x)[Len(s) + 1] = x
    BY AppendProperties
  <1>2. ASSUME NEW y PROVE y \in Range(Append(s, x)) <=> y \in Range(s) \/ y = x
    <2> DEFINE a == Append(s, x)
    <2>0. a \in Seq(S) /\ Len(a) = Len(s) + 1
      BY <1>1
    <2> HIDE DEF a
    <2>7. y \in Range(a) <=> \E i \in 1 .. Len(s) + 1 : a[i] = y
      BY <2>0, InRange
    <2>1. y \in Range(Append(s, x)) <=> \E i \in 1 .. Len(s) + 1 : Append(s, x)[i] = y
      BY <2>7 DEF a
    <2>2. y \in Range(s) <=> \E i \in 1 .. Len(s) : s[i] = y
      BY InRange
    <2>3. ASSUME y \in Range(Append(s, x)), y # x PROVE y \in Range(s)
      <3>1. PICK i \in 1 .. Len(s) + 1 : Append(s, x)[i] = y
        BY <2>1, <2>3
      <3>2. i \in 1 .. Len(s)
        BY <1>1, <2>3, <3>1
      <3> QED BY <1>1, <2>2, <3>1, <3>2
    <2>4. ASSUME y \in Range(s) PROVE y \in Range(Append(s, x))
      <3>1. PICK i \in 1 .. Len(s) : s[i] = y
        BY <2>2, <2>4
      <3>2. i \in 1 .. Len(s) + 1
        BY <1>1, <3>1
      <3> QED BY <1>1, <2>1, <3>1, <3>2
    <2>5. Len(s) + 1 \in 1 .. Len(s) + 1
      BY <1>1
    <2>6. x \in Range(Append(s, x))
      BY <1>1, <2>5, InRange
    <2> QED BY <2>3, <2>4, <2>6
  <1> QED BY <1>2

(* What is left of a sorted sequence without its first n elements.          *)
LEMMA TakeFront ==
  ASSUME NEW h \in Seq(Calls), Sorted(h), NEW n \in 0 .. Len(h),
         NEW r \in Seq(Calls), Len(r) = Len(h) - n,
         \A i \in 1 .. Len(r) : r[i] = h[i + n]
  PROVE  /\ Sorted(r)
         /\ \A x : x \in Range(r) <=> x \in Range(h) /\ ~ \E i \in 1 .. n : h[i] = x
  <1>0. Len(h) \in Nat /\ \A i \in 1 .. Len(h) : h[i] \in Int
    BY BoundsAssumption DEF Calls
  <1>1. Sorted(r)
    <2>. SUFFICES ASSUME NEW i \in 1 .. Len(r), NEW j \in 1 .. Len(r), i < j
                  PROVE  r[i] < r[j]
      BY DEF Sorted
    <2>1. i + n \in 1 .. Len(h) /\ j + n \in 1 .. Len(h) /\ i + n < j + n
      BY <1>0
    <2>2. h[i + n] < h[j + n]
      BY <2>1 DEF Sorted
    <2> QED BY <2>2
  <1>2. ASSUME NEW x PROVE x \in Range(r) <=> x \in Range(h) /\ ~ \E i \in 1 .. n : h[i] = x
    <2>1. x \in Range(r) <=> \E i \in 1 .. Len(r) : r[i] = x
      BY InRange
    <2>2. x \in Range(h) <=> \E i \in 1 .. Len(h) : h[i] = x
      BY InRange
    <2>3. ASSUME x \in Range(r) PROVE x \in Range(h) /\ ~ \E i \in 1 .. n : h[i] = x
      <3>1. PICK i \in 1 .. Len(r) : h[i + n] = x
        BY <2>1, <2>3
      <3>2. i + n \in 1 .. Len(h)
        BY <1>0
      <3>3. \A j \in 1 .. n : h[j] < h[i + n]
        BY <1>0, <3>2 DEF Sorted
      <3>4. \A j \in 1 .. n : h[j] # x
        BY <1>0, <3>1, <3>2, <3>3
      <3> QED BY <2>2, <3>1, <3>2, <3>4
    <2>4. ASSUME x \in Range(h), ~ \E i \in 1 .. n : h[i] = x PROVE x \in Range(r)
      <3>1. PICK i \in 1 .. Len(h) : h[i] = x
        BY <2>2, <2>4
      <3>2. i > n
        BY <1>0, <2>4, <3>1
      <3>3. i - n \in 1 .. Len(r) /\ r[i - n] = h[(i - n) + n] /\ (i - n) + n = i
        BY <1>0, <3>2
      <3> QED BY <2>1, <3>1, <3>3
    <2> QED BY <2>3, <2>4
  <1> QED BY <1>1, <1>2

(* The three ways in which requests are taken from the front.               *)
LEMMA Taken ==
  ASSUME TypeOK, RequestInv, NEW n \in 0 .. Len(Held),
         NEW rest \in Seq(Calls), Held' = rest,
         Len(rest) = Len(Held) - n, \A i \in 1 .. Len(rest) : rest[i] = Held[i + n],
         issued' = issued, NEW result \in [Calls -> {"ok", "failed"}],
         status' = [id \in Calls |-> IF \E i \in 1 .. n : Held[i] = id
                                     THEN result[id] ELSE status[id]]
  PROVE  RequestInv'
  <1>1. Held \in Seq(Calls)
    BY HeldSeq
  <1>2. /\ Sorted(rest)
        /\ \A x : x \in Range(rest) <=> x \in Range(Held) /\ ~ \E i \in 1 .. n : Held[i] = x
    <2> DEFINE h == Held
    <2>1. h \in Seq(Calls) /\ Sorted(h) /\ n \in 0 .. Len(h) /\ Len(rest) = Len(h) - n
          /\ \A i \in 1 .. Len(rest) : rest[i] = h[i + n]
      BY <1>1 DEF RequestInv
    <2> HIDE DEF h
    <2>2. /\ Sorted(rest)
          /\ \A x : x \in Range(rest) <=> x \in Range(h) /\ ~ \E i \in 1 .. n : h[i] = x
      BY <2>1, TakeFront
    <2> QED BY <2>2 DEF h
  <1>3. \A i \in 1 .. n : Held[i] \in Range(Held)
    BY <1>1, InRange
  <1> QED BY <1>1, <1>2, <1>3 DEF RequestInv, NoneForgotten

LEMMA SubSeqCalls ==
  ASSUME NEW h \in Seq(Calls), NEW m \in Int, NEW n \in Int, m > 0, n <= Len(h)
  PROVE  /\ SubSeq(h, m, n) \in Seq(Calls)
         /\ Len(SubSeq(h, m, n)) = (IF m <= n THEN n - m + 1 ELSE 0)
         /\ \A i \in 1 .. (n - m + 1) : SubSeq(h, m, n)[i] = h[m + i - 1]
  <1>1. \A i \in m .. n : h[i] \in Calls
    OBVIOUS
  <1> QED BY <1>1, SubSeqProperties

LEMMA ConsProperties ==
  ASSUME NEW S, NEW x \in S, NEW q \in Seq(S)
  PROVE  /\ <<x>> \o q \in Seq(S) /\ Len(<<x>> \o q) = 1 + Len(q)
         /\ (<<x>> \o q)[1] = x
         /\ \A i \in 2 .. 1 + Len(q) : (<<x>> \o q)[i] = q[i - 1]
  <1>1. <<x>> \in Seq(S) /\ Len(<<x>>) = 1 /\ <<x>>[1] = x
    OBVIOUS
  <1>2. <<x>> \o q \in Seq(S) /\ Len(<<x>> \o q) = 1 + Len(q)
    BY <1>1, ConcatProperties
  <1>3. Len(q) \in Nat
    OBVIOUS
  <1>4. (<<x>> \o q)[1] = x
    BY <1>1, <1>3, ConcatProperties
  <1>5. ASSUME NEW i \in 2 .. 1 + Len(q) PROVE (<<x>> \o q)[i] = q[i - 1]
    BY <1>1, <1>3, ConcatProperties
  <1> QED BY <1>2, <1>4, <1>5

LEMMA AppendCons ==
  ASSUME NEW S, NEW x \in S, NEW q \in Seq(S), NEW y \in S
  PROVE  <<x>> \o Append(q, y) = Append(<<x>> \o q, y)
  <1> DEFINE a == Append(q, y)
             c == <<x>> \o q
             l == <<x>> \o a
             r == Append(c, y)
  <1>1. /\ a \in Seq(S) /\ Len(a) = Len(q) + 1 /\ Len(q) \in Nat
        /\ \A i \in 1 .. Len(q) : a[i] = q[i]
        /\ a[Len(q) + 1] = y
    BY AppendProperties
  <1>2. /\ c \in Seq(S) /\ Len(c) = 1 + Len(q) /\ c[1] = x
        /\ \A i \in 2 .. 1 + Len(q) : c[i] = q[i - 1]
    BY ConsProperties
  <1> HIDE DEF a, c
  <1>3. /\ l \in Seq(S) /\ Len(l) = 1 + Len(a) /\ l[1] = x
        /\ \A i \in 2 .. 1 + Len(a) : l[i] = a[i - 1]
    BY <1>1, ConsProperties
  <1>4. /\ r \in Seq(S) /\ Len(r) = Len(c) + 1
        /\ \A i \in 1 .. Len(c) : r[i] = c[i]
        /\ r[Len(c) + 1] = y
    BY <1>2, AppendProperties
  <1> HIDE DEF l, r
  <1>5. ASSUME NEW i \in 1 .. Len(l) PROVE l[i] = r[i]
    <2>1. CASE i = 1
      BY <1>1, <1>2, <1>3, <1>4, <2>1
    <2>2. CASE i \in 2 .. 1 + Len(q)
      <3>1. i - 1 \in 1 .. Len(q) /\ i \in 1 .. Len(c) /\ i \in 2 .. 1 + Len(a)
        BY <1>1, <1>2, <2>2
      <3> QED BY <1>1, <1>2, <1>3, <1>4, <2>2, <3>1
    <2>3. CASE i = Len(q) + 2
      <3>1. i - 1 = Len(q) + 1 /\ i = Len(c) + 1 /\ i \in 2 .. 1 + Len(a)
        BY <1>1, <1>2, <2>3
      <3> QED BY <1>1, <1>3, <1>4, <3>1
    <2> QED BY <1>1, <1>3, <2>1, <2>2, <2>3
  <1>6. l = r
    BY <1>1, <1>2, <1>3, <1>4, <1>5, SeqEqual
  <1> QED BY <1>6 DEF l, r, a, c

LEMMA DrainHeld ==
  ASSUME TypeOK, NEW frames, NEW taken \in 1 .. Len(Held), Drain(frames, taken)
  PROVE  /\ Held' = SubSeq(Held, taken + 1, Len(Held))
         /\ Held' \in Seq(Calls) /\ Len(Held') = Len(Held) - taken
         /\ \A i \in 1 .. Len(Held') : Held'[i] = Held[i + taken]
  <1> DEFINE h == Held
             rest == SubSeq(h, taken + 1, Len(h))
  <1>1. h \in Seq(Calls) /\ Len(h) \in Nat /\ taken \in 1 .. Len(h)
    BY HeldSeq
  <1>2. \/ /\ taken < Len(h) /\ pending' = h[taken + 1]
           /\ queue' = SubSeq(h, taken + 2, Len(h))
        \/ taken = Len(h) /\ pending' = None /\ queue' = <<>>
    BY DEF Drain
  <1> HIDE DEF h
  <1>3. /\ rest \in Seq(Calls) /\ Len(rest) = Len(h) - taken
        /\ \A i \in 1 .. Len(rest) : rest[i] = h[i + taken]
    BY <1>1, SubSeqCalls
  <1>4. Held' = rest
    <2> HIDE DEF rest
    <2>1. CASE taken < Len(h)
      <3> DEFINE x == h[taken + 1]
                 q == SubSeq(h, taken + 2, Len(h))
      <3>1. x \in Calls /\ x # None
        BY <1>1, <2>1, NoneNoCall
      <3>2. /\ q \in Seq(Calls) /\ Len(q) = Len(h) - taken - 1
            /\ \A i \in 1 .. Len(q) : q[i] = h[i + taken + 1]
        BY <1>1, <2>1, SubSeqCalls
      <3>3. Held' = <<x>> \o q
        BY <1>2, <2>1, <3>1 DEF Held
      <3> HIDE DEF x, q
      <3>5. /\ <<x>> \o q \in Seq(Calls) /\ Len(<<x>> \o q) = Len(rest)
            /\ (<<x>> \o q)[1] = x
            /\ \A i \in 2 .. Len(rest) : (<<x>> \o q)[i] = q[i - 1]
        <4>1. /\ <<x>> \o q \in Seq(Calls) /\ Len(<<x>> \o q) = 1 + Len(q)
              /\ (<<x>> \o q)[1] = x
              /\ \A i \in 2 .. 1 + Len(q) : (<<x>> \o q)[i] = q[i - 1]
          BY <3>1, <3>2, ConsProperties
        <4>2. Len(rest) = 1 + Len(q)
          BY <1>1, <1>3, <2>1, <3>2
        <4> QED BY <4>1, <4>2
      <3>6. rest[1] = x
        BY <1>1, <1>3, <2>1 DEF x
      <3>7. ASSUME NEW i \in 2 .. Len(rest) PROVE rest[i] = q[i - 1]
        <4>1. rest[i] = h[i + taken] /\ i - 1 \in 1 .. Len(q) /\ (i - 1) + taken + 1 = i + taken
          BY <1>1, <1>3, <2>1, <3>2
        <4> QED BY <3>2, <4>1
      <3>8. \A i \in 1 .. Len(rest) : (<<x>> \o q)[i] = rest[i]
        BY <1>1, <1>3, <3>5, <3>6, <3>7
      <3> QED BY <1>3, <3>3, <3>5, <3>8, SeqEqual
    <2>2. CASE taken = Len(h)
      <3>1. rest = <<>>
        BY <1>1, <1>3, <2>2, EmptySeq
      <3> QED BY <1>1, <1>2, <2>2, <3>1 DEF Held
    <2> QED BY <1>1, <2>1, <2>2
  <1>5. Held' = SubSeq(h, taken + 1, Len(h)) /\ Held' \in Seq(Calls) /\ Len(Held') = Len(h) - taken
        /\ \A i \in 1 .. Len(Held') : Held'[i] = h[i + taken]
    BY <1>3, <1>4
  <1> QED BY <1>5 DEF h

LEMMA HeldPending ==
  ASSUME TypeOK, pending # None
  PROVE  /\ Len(Held) = 1 + Len(queue) /\ Len(queue) \in Nat
         /\ Held[1] = pending
         /\ \A i \in 1 .. Len(queue) : queue[i] = Held[i + 1]
  <1>1. pending \in Calls /\ queue \in Seq(Calls) /\ Held = <<pending>> \o queue
    BY DEF TypeOK, Held
  <1>2. /\ Len(Held) = 1 + Len(queue) /\ Held[1] = pending
        /\ \A i \in 2 .. 1 + Len(queue) : Held[i] = queue[i - 1]
    BY <1>1, ConsProperties
  <1>3. Len(queue) \in Nat
    BY <1>1
  <1>4. ASSUME NEW i \in 1 .. Len(queue) PROVE queue[i] = Held[i + 1]
    <2>1. i + 1 \in 2 .. 1 + Len(queue) /\ (i + 1) - 1 = i
      BY <1>3
    <2> QED BY <1>2, <2>1
  <1> QED BY <1>2, <1>3, <1>4

(* send() and the queue: what is held grows at its end.                     *)
LEMMA SendHeld ==
  ASSUME TypeOK, Send
  PROVE  issued' \in Calls /\ Held' = Append(Held, issued')
  <1>1. issued' \in Calls /\ issued' # None
    BY NoneNoCall, BoundsAssumption DEF Send, Calls, TypeOK
  <1>2. queue \in Seq(Calls) /\ wire \in Seq(Calls)
    BY DEF TypeOK
  <1>3. CASE pending = None /\ Advance(Append(queue, issued'), sock, wire)
    <2>1. Append(queue, issued') \in Seq(Calls)
      BY <1>1, <1>2, AppendProperties
    <2> DEFINE q == Append(queue, issued')
    <2> HIDE DEF q
    <2>2. Held' = q
      BY <1>2, <1>3, <2>1, AdvanceHeld DEF q
    <2> QED BY <1>1, <1>3, <2>2 DEF q, Held
  <1>4. CASE pending # None /\ queue' = Append(queue, issued') /\ pending' = pending
    <2>1. Held = <<pending>> \o queue /\ Held' = <<pending>> \o Append(queue, issued')
      BY <1>4 DEF Held
    <2>2. pending \in Calls
      BY <1>4 DEF TypeOK
    <2>3. <<pending>> \o Append(queue, issued') = Append(<<pending>> \o queue, issued')
      BY <1>1, <1>2, <2>2, AppendCons
    <2> QED BY <1>1, <2>1, <2>3
  <1> QED BY <1>3, <1>4 DEF Send

LEMMA RequestStep ==
  ASSUME TypeOK, RequestInv, [Next]_vars
  PROVE  RequestInv'
  <1>0. Held \in Seq(Calls) /\ Len(Held) \in Nat
    BY HeldSeq
  <1>1. CASE Send
    <2>1. issued' \in Calls /\ Held' = Append(Held, issued')
      BY <1>1, SendHeld
    <2>2. issued' = issued + 1 /\ issued \in Nat /\ status' = Settled({issued'}, "waiting")
      BY <1>1, BoundsAssumption DEF Send, TypeOK
    <2>3. \A i \in 1 .. Len(Held) : Held[i] <= issued
      <3>1. \A i \in 1 .. Len(Held) : Held[i] \in Calls /\ Held[i] \in Range(Held)
        BY <1>0, InRange
      <3> QED BY <2>2, <3>1 DEF RequestInv, NoneForgotten, Calls
    <2>4. /\ Len(Held') = Len(Held) + 1 /\ Held'[Len(Held) + 1] = issued'
          /\ \A i \in 1 .. Len(Held) : Held'[i] = Held[i]
      BY <1>0, <2>1, AppendProperties
    <2>5. Sorted(Held')
      <3>1. \A i, j \in 1 .. Len(Held) : i < j => Held[i] < Held[j]
        BY DEF RequestInv, Sorted
      <3>2. \A i \in 1 .. Len(Held) : Held[i] \in Int
        BY <1>0, BoundsAssumption DEF Calls
      <3> SUFFICES ASSUME NEW i \in 1 .. Len(Held'), NEW j \in 1 .. Len(Held'), i < j
                   PROVE  Held'[i] < Held'[j]
        BY DEF Sorted
      <3>3. i \in 1 .. Len(Held) /\ (j \in 1 .. Len(Held) \/ j = Len(Held) + 1)
        BY <1>0, <2>4
      <3>4. CASE j \in 1 .. Len(Held)
        BY <2>4, <3>1, <3>3, <3>4
      <3>5. CASE j = Len(Held) + 1
        BY <2>2, <2>3, <2>4, <3>2, <3>3, <3>5
      <3> QED BY <3>3, <3>4, <3>5
    <2>6. Range(Held') = Range(Held) \union {issued'}
      BY <1>0, <2>1, RangeAppend
    <2> QED BY <2>1, <2>2, <2>5, <2>6 DEF RequestInv, NoneForgotten, Settled, Calls
  <1>2. CASE Refused
    <2>1. Held' = Held
      BY <1>2 DEF Refused, Held
    <2>2. issued' = issued + 1 /\ issued \in Nat /\ status' = Settled({issued'}, "failed")
      BY <1>2, BoundsAssumption DEF Refused, TypeOK
    <2>3. issued' \in Calls /\ issued' \notin Range(Held)
      BY <1>2, <2>2, BoundsAssumption DEF Refused, Calls, RequestInv, NoneForgotten
    <2> QED BY <2>1, <2>2, <2>3 DEF RequestInv, NoneForgotten, Settled, Calls
  <1>3. CASE Connected
    <2>1. Held' = Held
      <3>1. CASE pending = None /\ Advance(queue, "open", wire)
        BY <3>1, AdvanceHeld DEF TypeOK, Held
      <3>2. CASE UNCHANGED <<queue, pending>>
        BY <3>2 DEF Held
      <3> QED BY <1>3, <3>1, <3>2 DEF Connected
    <2> QED BY <1>3, <2>1 DEF Connected, RequestInv, NoneForgotten
  <1>4. CASE SocketError \/ Closed \/ Drop
    <2>1. PICK sent : Fail(sent)
      BY <1>4 DEF SocketError, Closed, Drop
    <2>2. Held' = <<>> /\ issued' = issued
      BY <2>1 DEF Fail, Held
    <2>3. \A id \in Calls : id \in Range(Held) <=> \E i \in 1 .. Len(Held) : Held[i] = id
      BY <1>0, InRange
    <2>4. status' = [id \in Calls |-> IF \E i \in 1 .. Len(Held) : Held[i] = id
                                      THEN "failed" ELSE status[id]]
      BY <2>1, <2>3 DEF Fail, GivenUp, Settled
    <2> DEFINE result == [id \in Calls |-> "failed"]
    <2>5. result \in [Calls -> {"ok", "failed"}]
          /\ status' = [id \in Calls |-> IF \E i \in 1 .. Len(Held) : Held[i] = id
                                         THEN result[id] ELSE status[id]]
      BY <2>4
    <2> DEFINE n == Len(Held)
               rest == <<>>
    <2>6. /\ n \in 0 .. Len(Held) /\ Held' = rest /\ rest \in Seq(Calls) /\ Len(rest) = Len(Held) - n
          /\ \A i \in 1 .. Len(rest) : rest[i] = Held[i + n]
      <3>1. rest = <<>> /\ rest \in Seq(Calls) /\ Len(rest) = 0
        BY EmptySeq
      <3> HIDE DEF rest
      <3> QED BY <1>0, <2>2, <3>1
    <2>7. status' = [id \in Calls |-> IF \E i \in 1 .. n : Held[i] = id THEN result[id] ELSE status[id]]
      BY <2>5
    <2> HIDE DEF result, n, rest
    <2> QED BY <2>2, <2>5, <2>6, <2>7, Taken
  <1>5. CASE Timeout
    <2>1. Held' = queue /\ queue \in Seq(Calls) /\ pending # None /\ issued' = issued
      BY <1>5, EmptySeq, AdvanceHeld DEF Timeout, TypeOK
    <2>2. /\ Len(Held) = 1 + Len(queue) /\ Len(queue) \in Nat /\ Held[1] = pending
          /\ \A i \in 1 .. Len(queue) : queue[i] = Held[i + 1]
      BY <2>1, HeldPending
    <2>3. status' = [id \in Calls |-> IF \E i \in 1 .. 1 : Held[i] = id
                                      THEN "failed" ELSE status[id]]
      BY <1>5, <2>2 DEF Timeout, Settled
    <2> DEFINE result == [id \in Calls |-> "failed"]
    <2>4. result \in [Calls -> {"ok", "failed"}]
          /\ status' = [id \in Calls |-> IF \E i \in 1 .. 1 : Held[i] = id
                                         THEN result[id] ELSE status[id]]
      BY <2>3
    <2>5. 1 \in 0 .. Len(Held) /\ Len(queue) = Len(Held) - 1
      BY <2>2
    <2> HIDE DEF result
    <2> QED BY <2>1, <2>2, <2>4, <2>5, Taken
  <1>6. CASE Data
    <2> DEFINE frames == Append(buf, Head(answers))
               taken == IF Len(Held) < Len(frames) THEN Len(Held) ELSE Len(frames)
    <2>1. CASE pending = None
      <3>1. Held' = Held
        BY <1>6, <2>1 DEF Data, Held
      <3> QED BY <1>6, <2>1, <3>1 DEF Data, RequestInv, NoneForgotten
    <2>2. CASE pending # None
      <3>1. Drain(frames, taken) /\ issued' = issued
        BY <1>6, <2>2 DEF Data
      <3>2. Len(frames) \in Nat \ {0}
        <4>1. Head(answers) \in Frame
          BY <1>6, HeadTailProperties DEF Data, TypeOK, Frame
        <4> QED BY <4>1, AppendProperties DEF TypeOK, Frame
      <3>3. taken \in 1 .. Len(Held)
        BY <2>2, <3>2, HeldPending
      <3> HIDE DEF frames, taken
      <3> DEFINE result == [id \in Calls |-> IF \E i \in 1 .. taken : Held[i] = id /\ Fulfils(id, frames[i])
                                             THEN "ok" ELSE "failed"]
      <3>5. result \in [Calls -> {"ok", "failed"}]
            /\ status' = [id \in Calls |-> IF \E i \in 1 .. taken : Held[i] = id
                                           THEN result[id] ELSE status[id]]
        BY <3>1 DEF Drain
      <3>6. taken \in 0 .. Len(Held)
        BY <3>3
      <3> HIDE DEF result
      <3> DEFINE rest == SubSeq(Held, taken + 1, Len(Held))
      <3>7. /\ Held' = rest /\ rest \in Seq(Calls) /\ Len(rest) = Len(Held) - taken
            /\ \A i \in 1 .. Len(rest) : rest[i] = Held[i + taken]
        BY <3>1, <3>3, DrainHeld
      <3> HIDE DEF rest
      <3> QED BY <3>1, <3>5, <3>6, <3>7, Taken
    <2> QED BY <2>1, <2>2
  <1>7. CASE UNCHANGED <<issued, status, queue, pending>>
    BY <1>7 DEF RequestInv, NoneForgotten, Held
  <1>8. CASE PeerEnds \/ Ended \/ DeviceReads \/ (\E id \in Calls : DeviceReadsLate(id) \/ Stray(id))
             \/ UNCHANGED vars
    BY <1>7, <1>8 DEF PeerEnds, Ended, DeviceReads, DeviceReadsLate, Stray, vars
  <1> QED BY <1>1, <1>2, <1>3, <1>4, <1>5, <1>6, <1>8 DEF Next

-----------------------------------------------------------------------------
LEMMA TimeoutKeeps ==
  ASSUME Timeout
  PROVE  /\ pending' = None /\ wire' = <<>> /\ queue' = queue
         /\ queue' # <<>> => sock' = "connecting"
  BY DEF Timeout, Advance, Keep

LEMMA AttendedStep ==
  ASSUME TypeOK, Attended, [Next]_vars
  PROVE  Attended'
  <1>0. queue \in Seq(Calls) /\ wire \in Seq(Calls) /\ <<>> \in Seq(Calls)
    BY EmptySeq DEF TypeOK
  <1>1. CASE Send
    <2>1. Append(queue, issued') \in Seq(Calls)
      <3>1. issued' \in Calls
        BY <1>1, SendHeld
      <3> QED BY <1>0, <3>1, AppendProperties
    <2>2. CASE pending = None /\ Advance(Append(queue, issued'), sock, wire)
      <3>1. /\ pending' # None => sock' \in {"connecting", "open"}
            /\ pending' = None /\ queue' # <<>> => sock' \in {"connecting", "ending"}
        BY <1>0, <2>1, <2>2, AdvanceHeld
      <3> QED BY <3>1 DEF Attended
    <2>3. CASE pending # None /\ UNCHANGED <<pending, sock, wire>>
      BY <1>1, <2>3 DEF Send, Attended
    <2> QED BY <1>1, <2>2, <2>3 DEF Send
  <1>2. CASE Connected
    <2>1. CASE Advance(queue, "open", wire)
      <3>1. /\ pending' # None => sock' \in {"connecting", "open"}
            /\ pending' = None /\ queue' # <<>> => sock' \in {"connecting", "ending"}
        BY <1>0, <2>1, AdvanceHeld
      <3> QED BY <3>1 DEF Attended
    <2>2. CASE pending # None /\ sock' = "open" /\ UNCHANGED <<queue, pending, wire>>
      BY <2>2 DEF Attended
    <2> QED BY <1>2, <2>1, <2>2 DEF Connected
  <1>3. CASE SocketError \/ Closed \/ Drop
    BY <1>3 DEF SocketError, Closed, Drop, Fail, Attended
  <1>4. CASE PeerEnds \/ Ended
    BY <1>4 DEF PeerEnds, Ended, Attended
  <1>5. CASE Timeout
    <2>1. pending' = None /\ (queue' # <<>> => sock' \in {"connecting", "ending"})
      BY <1>5, TimeoutKeeps
    <2> QED BY <2>1 DEF Attended
  <1>6. CASE Data
    <2>1. sock' = "open" /\ sock = "open" /\ closing' = closing
      BY <1>6 DEF Data
    <2>2. \/ UNCHANGED <<pending, queue>>
          \/ pending # None /\ (pending' = None => queue' = <<>>)
      <3>1. ASSUME NEW frames, NEW taken \in Nat, Drain(frames, taken), taken <= Len(Held)
            PROVE  pending' = None => queue' = <<>>
        <4>1. \A i \in 1 .. Len(Held) : Held[i] # None
          BY HeldSeq, NoneNoCall
        <4>2. Len(Held) \in Nat
          BY HeldSeq
        <4>3. taken < Len(Held) => taken + 1 \in 1 .. Len(Held)
          BY <4>2, <3>1
        <4> QED BY <3>1, <4>1, <4>3 DEF Drain
      <3> DEFINE frames == Append(buf, Head(answers))
                 taken == IF Len(Held) < Len(frames) THEN Len(Held) ELSE Len(frames)
      <3>2. taken \in Nat /\ taken <= Len(Held)
        <4>1. Head(answers) \in Frame
          BY <1>6, HeadTailProperties DEF Data, TypeOK, Frame
        <4>2. Len(frames) \in Nat
          BY <4>1, AppendProperties DEF TypeOK, Frame
        <4> QED BY <4>2, HeldSeq
      <3>3. CASE pending # None
        <4>1. Drain(frames, taken)
          BY <1>6, <3>3 DEF Data
        <4> HIDE DEF frames, taken
        <4> QED BY <3>1, <3>2, <3>3, <4>1
      <3> QED BY <1>6, <3>3 DEF Data
    <2>3. pending' = None /\ queue' # <<>> => closing'
      BY <2>1, <2>2 DEF Attended
    <2> QED BY <2>1, <2>3 DEF Attended
  <1>7. CASE UNCHANGED <<queue, pending, sock, closing>>
    BY <1>7 DEF Attended
  <1>8. CASE Refused \/ DeviceReads \/ (\E id \in Calls : DeviceReadsLate(id) \/ Stray(id))
             \/ UNCHANGED vars
    BY <1>7, <1>8 DEF Refused, DeviceReads, DeviceReadsLate, Stray, vars
  <1> QED BY <1>1, <1>2, <1>3, <1>4, <1>5, <1>6, <1>8 DEF Next

LEMMA HeldMade ==
  ASSUME TypeOK, RequestInv
  PROVE  \A i \in 1 .. Len(Held) : Held[i] \in Calls /\ Held[i] <= issued /\ status[Held[i]] = "waiting"
  <1>1. \A i \in 1 .. Len(Held) : Held[i] \in Calls /\ Held[i] \in Range(Held)
    BY HeldSeq, InRange
  <1>2. issued \in Int /\ \A id \in Calls : id \in Int
    BY BoundsAssumption DEF TypeOK, Calls
  <1> QED BY <1>1, <1>2 DEF RequestInv, NoneForgotten

(* What a step may put on the wire is held.                                 *)
LEMMA WireStep ==
  ASSUME TypeOK, RequestInv, [Next]_vars
  PROVE  \A id \in Range(wire') : id \in Range(wire) \/ id <= issued'
  <1>0. /\ queue \in Seq(Calls) /\ wire \in Seq(Calls) /\ <<>> \in Seq(Calls)
        /\ issued \in Nat /\ Held \in Seq(Calls) /\ Len(Held) \in Nat
    BY EmptySeq, HeldSeq, BoundsAssumption DEF TypeOK
  <1>1. ASSUME NEW q \in Seq(Calls), NEW s, Advance(q, s, wire), NEW n \in Nat,
               \A i \in 1 .. Len(q) : q[i] <= n
        PROVE  \A id \in Range(wire') : id \in Range(wire) \/ id <= n
    <2>1. CASE wire' = wire
      BY <2>1
    <2>2. CASE q # <<>> /\ wire' = Append(wire, Head(q))
      <3>1. Head(q) \in Calls /\ Head(q) = q[1] /\ Len(q) \in Nat \ {0}
        BY <2>2, HeadTailProperties, EmptySeq
      <3>2. Range(wire') = Range(wire) \union {Head(q)}
        BY <1>0, <2>2, <3>1, RangeAppend
      <3>3. Head(q) <= n
        BY <1>1, <3>1
      <3> QED BY <3>2, <3>3
    <2> QED BY <1>1, <2>1, <2>2 DEF Advance, Keep, Shift
  <1>2. pending = None => \A i \in 1 .. Len(queue) : queue[i] <= issued
    BY HeldMade DEF Held
  <1>3. CASE Send
    <2>1. CASE pending = None /\ Advance(Append(queue, issued'), sock, wire)
      <3> DEFINE q == Append(queue, issued')
      <3>1. issued' \in Calls /\ issued' = issued + 1 /\ issued' \in Nat
        BY <1>0, <1>3, SendHeld DEF Send
      <3>2. q \in Seq(Calls) /\ Len(q) = Len(queue) + 1 /\ q[Len(queue) + 1] = issued'
            /\ Len(queue) \in Nat /\ \A i \in 1 .. Len(queue) : q[i] = queue[i]
        BY <1>0, <3>1, AppendProperties
      <3> HIDE DEF q
      <3>3. ASSUME NEW i \in 1 .. Len(q) PROVE q[i] <= issued'
        <4>1. i \in 1 .. Len(queue) \/ i = Len(queue) + 1
          BY <3>2
        <4>2. \A k \in 1 .. Len(queue) : queue[k] \in Int
          BY <1>0, BoundsAssumption DEF Calls
        <4> QED BY <1>0, <1>2, <2>1, <3>1, <3>2, <4>1, <4>2
      <3>4. Advance(q, sock, wire)
        BY <2>1 DEF q
      <3> QED BY <1>1, <3>1, <3>2, <3>3, <3>4
    <2>2. CASE UNCHANGED wire
      BY <2>2
    <2> QED BY <1>3, <2>1, <2>2 DEF Send
  <1>4. CASE Connected
    <2>1. CASE pending = None /\ Advance(queue, "open", wire)
      <3>1. issued' = issued
        BY <1>4 DEF Connected
      <3> QED BY <1>0, <1>1, <1>2, <2>1, <3>1
    <2> QED BY <1>4, <2>1 DEF Connected
  <1>5. CASE SocketError \/ Closed \/ Drop \/ PeerEnds
    <2>1. wire' = <<>>
      BY <1>5 DEF SocketError, Closed, Drop, PeerEnds, Fail
    <2> QED BY <2>1 DEF Range
  <1>6. CASE Timeout
    <2>1. wire' = <<>>
      BY <1>6, TimeoutKeeps
    <2> QED BY <2>1 DEF Range
  <1>7. CASE Data
    <2>1. CASE wire' = wire
      BY <2>1
    <2>2. CASE \E n \in Int : n <= Len(Held) /\ wire' = wire \o SubSeq(Held, 2, n)
      <3>1. PICK n \in Int : n <= Len(Held) /\ wire' = wire \o SubSeq(Held, 2, n)
        BY <2>2
      <3> DEFINE h == Held
                 sent == SubSeq(h, 2, n)
      <3>2. h \in Seq(Calls) /\ n <= Len(h) /\ issued' = issued
            /\ \A i \in 1 .. Len(h) : h[i] <= issued
        BY <1>0, <1>7, <3>1, HeldMade DEF Data
      <3> HIDE DEF h
      <3>3. /\ sent \in Seq(Calls) /\ Len(sent) = (IF 2 <= n THEN n - 1 ELSE 0)
            /\ \A i \in 1 .. (n - 1) : sent[i] = h[2 + i - 1]
        BY <3>2, SubSeqCalls
      <3>4. ASSUME NEW id \in Range(sent) PROVE id <= issued
        <4>1. PICK i \in 1 .. Len(sent) : sent[i] = id
          BY <3>3, InRange
        <4>2. i \in 1 .. (n - 1) /\ 2 + i - 1 \in 1 .. Len(h)
          BY <3>2, <3>3
        <4> QED BY <3>2, <3>3, <4>1, <4>2
      <3>5. wire' = wire \o sent
        BY <3>1 DEF h
      <3> HIDE DEF sent
      <3>6. Range(wire') = Range(wire) \union Range(sent)
        BY <1>0, <3>3, <3>5, RangeConcatenation
      <3> QED BY <3>2, <3>4, <3>6
    <2>3. CASE pending # None
      <3> DEFINE frames == Append(buf, Head(answers))
                 taken == IF Len(Held) < Len(frames) THEN Len(Held) ELSE Len(frames)
      <3>1. Drain(frames, taken)
        BY <1>7, <2>3 DEF Data
      <3>2. Len(frames) \in Nat
        <4>1. Head(answers) \in Frame
          BY <1>7, HeadTailProperties DEF Data, TypeOK, Frame
        <4> QED BY <4>1, AppendProperties DEF TypeOK, Frame
      <3>3. taken \in Nat /\ taken <= Len(Held)
        BY <1>0, <3>2
      <3> HIDE DEF frames, taken
      <3>4. CASE taken < Len(Held) /\ wire' = wire \o SubSeq(Held, 2, taken + 1)
        <4>1. taken + 1 \in Int /\ taken + 1 <= Len(Held)
          BY <1>0, <3>3, <3>4
        <4> QED BY <2>2, <3>4, <4>1
      <3>5. CASE wire' = wire \o SubSeq(Held, 2, taken)
        BY <2>2, <3>3, <3>5
      <3> QED BY <3>1, <3>4, <3>5 DEF Drain
    <2> QED BY <1>7, <2>1, <2>3 DEF Data
  <1>8. CASE DeviceReads
    <2>1. Tail(wire) \in Seq(Calls) /\ Len(Tail(wire)) = Len(wire) - 1 /\ Len(wire) \in Nat
          /\ \A i \in 1 .. Len(Tail(wire)) : Tail(wire)[i] = wire[i + 1]
      BY <1>0, <1>8, HeadTailProperties DEF DeviceReads
    <2> DEFINE t == Tail(wire)
    <2> HIDE DEF t
    <2>2. t \in Seq(Calls) /\ Len(t) = Len(wire) - 1 /\ \A i \in 1 .. Len(t) : t[i] = wire[i + 1]
      BY <2>1 DEF t
    <2>3. ASSUME NEW id \in Range(t) PROVE id \in Range(wire)
      <3>1. PICK i \in 1 .. Len(t) : t[i] = id
        BY <2>2, InRange
      <3>2. i + 1 \in 1 .. Len(wire) /\ wire[i + 1] = id
        BY <2>1, <2>2, <3>1
      <3> QED BY <1>0, <3>2, InRange
    <2>4. wire' = t
      BY <1>8 DEF DeviceReads, t
    <2> QED BY <2>3, <2>4
  <1>9. CASE Refused \/ Ended \/ (\E id \in Calls : DeviceReadsLate(id) \/ Stray(id)) \/ UNCHANGED vars
    BY <1>9 DEF Refused, Ended, DeviceReadsLate, Stray, vars
  <1> QED BY <1>3, <1>4, <1>5, <1>6, <1>7, <1>8, <1>9 DEF Next

LEMMA DataDrains ==
  ASSUME TypeOK, Data, pending # None
  PROVE  \E frames \in Seq(Frame), taken \in 1 .. Len(Held) :
           /\ frames = Append(buf, Head(answers))
           /\ taken <= Len(frames) /\ Len(frames) = Len(buf) + 1
           /\ Drain(frames, taken)
  <1> DEFINE frames == Append(buf, Head(answers))
             taken == IF Len(Held) < Len(frames) THEN Len(Held) ELSE Len(frames)
  <1>1. Head(answers) \in Frame
    BY HeadTailProperties DEF Data, TypeOK, Frame
  <1>2. frames \in Seq(Frame) /\ Len(frames) = Len(buf) + 1 /\ Len(buf) \in Nat
    <2>1. buf \in Seq(Frame)
      BY DEF TypeOK, Frame
    <2> DEFINE f == Head(answers)
    <2>2. f \in Frame
      BY <1>1
    <2> HIDE DEF f
    <2>3. Append(buf, f) \in Seq(Frame) /\ Len(Append(buf, f)) = Len(buf) + 1 /\ Len(buf) \in Nat
      BY <2>1, <2>2, AppendProperties
    <2> QED BY <2>3 DEF f
  <1>3. Len(Held) \in Nat \ {0}
    BY HeldPending
  <1>4. taken \in 1 .. Len(Held) /\ taken <= Len(frames)
    BY <1>2, <1>3
  <1>5. Drain(frames, taken)
    BY DEF Data
  <1> QED BY <1>2, <1>4, <1>5

LEMMA TailRange ==
  ASSUME NEW S, NEW s \in Seq(S), s # <<>>
  PROVE  Head(s) \in Range(s) /\ Range(Tail(s)) \subseteq Range(s)
  <1> DEFINE t == Tail(s)
  <1>1. /\ t \in Seq(S) /\ Len(t) = Len(s) - 1 /\ Len(s) \in Nat \ {0}
        /\ \A i \in 1 .. Len(t) : t[i] = s[i + 1]
        /\ Head(s) = s[1]
    BY HeadTailProperties, EmptySeq
  <1> HIDE DEF t
  <1>2. ASSUME NEW x \in Range(t) PROVE x \in Range(s)
    <2>1. PICK i \in 1 .. Len(t) : t[i] = x
      BY <1>1, InRange
    <2>2. i + 1 \in 1 .. Len(s) /\ s[i + 1] = x
      BY <1>1, <2>1
    <2> QED BY <2>2, InRange
  <1>3. Head(s) \in Range(s)
    <2>1. 1 \in 1 .. Len(s) /\ s[1] = Head(s)
      BY <1>1
    <2> QED BY <2>1, InRange
  <1> QED BY <1>2, <1>3 DEF t

LEMMA DeviceStep ==
  ASSUME TypeOK, RequestInv, DeviceInv, [Next]_vars
  PROVE  DeviceInv'
  <1>0. /\ wire \in Seq(Calls) /\ buf \in Seq(Frame) /\ answers \in Seq(Frame)
        /\ issued \in Int /\ late \subseteq Calls
    BY DEF TypeOK, Frame
  <1>1. issued' \in Int /\ issued <= issued'
    <2>1. issued' = issued \/ issued' = issued + 1
      BY DEF Next, vars, Send, Refused, Connected, SocketError, Closed, Drop, Fail, PeerEnds,
                  Ended, Timeout, Data, DeviceReads, DeviceReadsLate, Stray
    <2> QED BY <1>0, <2>1
  <1>2. late' \subseteq late \union Range(wire)
    <2>1. Sent \subseteq Range(wire)
      BY DEF Sent
    <2> QED BY <2>1 DEF Next, vars, Send, Refused, Connected, SocketError, Closed, Drop, Fail, PeerEnds,
                        Ended, Timeout, Data, DeviceReads, DeviceReadsLate, Stray
  <1>3. ASSUME NEW id \in Range(wire') \union late' PROVE id <= issued'
    <2>1. id \in Range(wire) \union late \/ id <= issued'
      BY <1>2, WireStep
    <2>2. \A call \in Range(wire) \union late : call \in Int
      <3>1. Calls \subseteq Int
        BY BoundsAssumption DEF Calls
      <3> QED BY <1>0, <3>1, SentType
    <2> QED BY <1>0, <1>1, <2>1, <2>2 DEF DeviceInv
  <1>4. \A f \in Range(buf') \union Range(answers') :
          f \in Range(buf) \union Range(answers) \/ f.to \in Range(wire) \/ f.to <= issued
    <2>1. CASE UNCHANGED <<buf, answers>>
      BY <2>1
    <2>2. CASE (buf' = buf \/ buf' = <<>>) /\ (answers' = answers \/ answers' = <<>>)
      <3>1. Range(<<>>) = {}
        BY DEF Range
      <3> QED BY <2>2, <3>1
    <2>3. CASE Data
      <3>1. /\ Head(answers) \in Range(answers) /\ Head(answers) \in Frame
            /\ Range(answers') \subseteq Range(answers)
        BY <1>0, <2>3, TailRange, HeadTailProperties DEF Data
      <3>2. Range(Append(buf, Head(answers))) = Range(buf) \union {Head(answers)}
        BY <1>0, <3>1, RangeAppend
      <3>3. CASE pending = None
        <4>1. buf' = Append(buf, Head(answers))
          BY <2>3, <3>3 DEF Data
        <4> QED BY <3>1, <3>2, <4>1
      <3>4. CASE pending # None
        <4>1. PICK frames \in Seq(Frame), taken \in 1 .. Len(Held) :
                 /\ frames = Append(buf, Head(answers)) /\ taken <= Len(frames)
                 /\ buf' = SubSeq(frames, taken + 1, Len(frames))
          BY <2>3, <3>4, DataDrains DEF Drain
        <4> DEFINE b == SubSeq(frames, taken + 1, Len(frames))
        <4>2. /\ b \in Seq(Frame)
              /\ \A i \in 1 .. Len(b) : i + taken \in 1 .. Len(frames) /\ b[i] = frames[i + taken]
          <5>1. Len(frames) \in Nat /\ taken \in Nat /\ \A i \in taken + 1 .. Len(frames) : frames[i] \in Frame
            BY <4>1, HeldSeq
          <5>2. /\ b \in Seq(Frame) /\ Len(b) = (IF taken + 1 <= Len(frames) THEN Len(frames) - (taken + 1) + 1 ELSE 0)
                /\ \A i \in 1 .. Len(frames) - (taken + 1) + 1 : b[i] = frames[taken + 1 + i - 1]
            BY <5>1, SubSeqProperties
          <5> HIDE DEF b
          <5> QED BY <5>1, <5>2
        <4> HIDE DEF b
        <4>3. ASSUME NEW f \in Range(b) PROVE f \in Range(frames)
          <5>1. PICK i \in 1 .. Len(b) : b[i] = f
            BY <4>2, InRange
          <5>2. i + taken \in 1 .. Len(frames) /\ frames[i + taken] = f
            BY <4>2, <5>1
          <5> QED BY <5>2, InRange
        <4>4. buf' = b
          BY <4>1 DEF b
        <4> QED BY <3>1, <3>2, <4>1, <4>3, <4>4
      <3> QED BY <3>3, <3>4
    <2>4. CASE DeviceReads
      <3>1. Head(wire) \in Range(wire) /\ Head(wire) \in Calls
        BY <1>0, <2>4, TailRange, HeadTailProperties DEF DeviceReads
      <3>2. answers' = answers \/ \E good \in BOOLEAN : answers' = Append(answers, [to |-> Head(wire), good |-> good])
        BY <2>4 DEF DeviceReads
      <3>3. ASSUME NEW good \in BOOLEAN, answers' = Append(answers, [to |-> Head(wire), good |-> good])
            PROVE  \A f \in Range(answers') : f \in Range(answers) \/ f.to \in Range(wire)
        <4> DEFINE g == [to |-> Head(wire), good |-> good]
        <4>1. g \in Frame /\ g.to \in Range(wire) /\ answers' = Append(answers, g)
          BY <3>1, <3>3 DEF Frame
        <4> HIDE DEF g
        <4>2. Range(answers') = Range(answers) \union {g}
          BY <1>0, <4>1, RangeAppend
        <4> QED BY <4>1, <4>2
      <3>4. buf' = buf
        BY <2>4 DEF DeviceReads
      <3> QED BY <3>2, <3>3, <3>4
    <2>5. CASE \E id \in Calls : Stray(id)
      <3>1. PICK id \in Calls : Stray(id)
        BY <2>5
      <3> DEFINE g == [to |-> id, good |-> TRUE]
      <3>2. g \in Frame /\ g.to <= issued /\ answers' = Append(answers, g) /\ buf' = buf
        BY <3>1 DEF Frame, Stray
      <3> HIDE DEF g
      <3>3. Range(answers') = Range(answers) \union {g}
        BY <1>0, <3>2, RangeAppend
      <3> QED BY <3>2, <3>3
    <2>6. CASE Send \/ Refused \/ Connected \/ SocketError \/ Closed \/ PeerEnds \/ Ended \/ Timeout \/ Drop
               \/ (\E id \in Calls : DeviceReadsLate(id)) \/ UNCHANGED vars
      <3>1. (buf' = buf \/ buf' = <<>>) /\ (answers' = answers \/ answers' = <<>>)
        BY <2>6 DEF Send, Refused, Connected, SocketError, Closed, Drop, Fail, PeerEnds,
                    Ended, Timeout, DeviceReadsLate, vars
      <3> QED BY <2>2, <3>1
    <2> QED BY <2>3, <2>4, <2>5, <2>6 DEF Next
  <1>5. ASSUME NEW f \in Range(buf') \union Range(answers') PROVE f.to <= issued'
    <2>1. CASE f \in Range(buf) \union Range(answers)
      <3>1. f \in Frame
        BY <1>0, <2>1, RangeOfSeq
      <3>2. f.to \in Int /\ f.to <= issued
        BY <2>1, <3>1, BoundsAssumption DEF DeviceInv, Frame, Calls
      <3> QED BY <1>0, <1>1, <3>2
    <2>2. CASE f.to \in Range(wire)
      <3>1. f.to \in Int /\ f.to <= issued
        BY <1>0, <2>2, SentType, BoundsAssumption DEF DeviceInv, Calls
      <3> QED BY <1>0, <1>1, <3>1
    <2>3. CASE f.to <= issued
      <3>1. f.to \in Int
        <4>1. TypeOK'
          BY TypeStep
        <4>2. f \in Frame
          BY <4>1, RangeOfSeq DEF TypeOK, Frame
        <4> QED BY <4>2, BoundsAssumption DEF Frame, Calls
      <3> QED BY <1>0, <1>1, <2>3, <3>1
    <2> QED BY <1>4, <2>1, <2>2, <2>3
  <1> QED BY <1>3, <1>5 DEF DeviceInv

LEMMA AdvanceAsks ==
  ASSUME NEW q \in Seq(Calls), NEW s, Advance(q, s, <<>>)
  PROVE  \/ pending' = None /\ wire' = <<>>
         \/ pending' \in Calls /\ wire' = <<pending'>>
  <1>1. CASE Keep(q, <<>>)
    BY <1>1 DEF Keep
  <1>2. CASE q # <<>> /\ Shift(q, <<>>)
    <2>1. Head(q) \in Calls
      BY <1>2, HeadTailProperties
    <2>2. Append(<<>>, Head(q)) = <<Head(q)>>
      OBVIOUS
    <2> QED BY <1>2, <2>1, <2>2 DEF Shift
  <1> QED BY <1>1, <1>2 DEF Advance

LEMMA SerialStep ==
  ASSUME TypeOK, SerialInv, [Next]_vars
  PROVE  SerialInv'
  <1> SUFFICES ASSUME ~strayed'
               PROVE  /\ buf' = <<>>
                      /\ pending' = None => wire' = <<>> /\ answers' = <<>>
                      /\ pending' # None => Asked'
    BY DEF SerialInv
  <1>0. queue \in Seq(Calls) /\ answers \in Seq(Frame) /\ wire \in Seq(Calls)
    BY DEF TypeOK, Frame
  <1>1. ~strayed
    BY DEF Next, vars, Send, Refused, Connected, SocketError, Closed, Drop, Fail, PeerEnds,
           Ended, Timeout, Data, DeviceReads, DeviceReadsLate, Stray
  <1>2. /\ buf = <<>>
        /\ pending = None => wire = <<>> /\ answers = <<>>
        /\ pending # None => Asked
    BY <1>1 DEF SerialInv
  <1>3. CASE UNCHANGED <<buf, pending, wire, answers>> /\ executed \subseteq executed'
    BY <1>2, <1>3 DEF Asked
  <1>4. ASSUME NEW q \in Seq(Calls), NEW s, pending = None, Advance(q, s, wire), UNCHANGED <<buf, answers>>
        PROVE  /\ buf' = <<>>
               /\ pending' = None => wire' = <<>> /\ answers' = <<>>
               /\ pending' # None => Asked'
    <2>1. Advance(q, s, <<>>)
      BY <1>2, <1>4
    <2>2. \/ pending' = None /\ wire' = <<>>
          \/ pending' \in Calls /\ wire' = <<pending'>>
      BY <2>1, AdvanceAsks
    <2>3. CASE pending' = None /\ wire' = <<>>
      BY <1>2, <1>4, <2>3
    <2>4. CASE pending' \in Calls /\ wire' = <<pending'>>
      <3>1. Asked'
        BY <1>2, <1>4, <2>4 DEF Asked
      <3> QED BY <1>2, <1>4, <2>4, <3>1, NoneNoCall
    <2> QED BY <2>2, <2>3, <2>4
  <1>5. CASE Send
    <2>1. CASE pending = None
      <3>1. Append(queue, issued') \in Seq(Calls)
        BY <1>0, <1>5, SendHeld, AppendProperties
      <3>2. Advance(Append(queue, issued'), sock, wire) /\ UNCHANGED <<buf, answers>>
        BY <1>5, <2>1 DEF Send
      <3> DEFINE q == Append(queue, issued')
      <3>3. q \in Seq(Calls) /\ Advance(q, sock, wire)
        BY <3>1, <3>2
      <3> HIDE DEF q
      <3> QED BY <1>4, <2>1, <3>2, <3>3
    <2>2. CASE pending # None
      BY <1>3, <1>5, <2>2 DEF Send
    <2> QED BY <2>1, <2>2
  <1>6. CASE Connected
    <2>1. CASE pending = None
      <3>1. Advance(queue, "open", wire) /\ UNCHANGED <<buf, answers>>
        BY <1>6, <2>1 DEF Connected
      <3> QED BY <1>0, <1>4, <2>1, <3>1
    <2>2. CASE pending # None
      BY <1>3, <1>6, <2>2 DEF Connected
    <2> QED BY <2>1, <2>2
  <1>7. CASE SocketError \/ Closed \/ Drop
    BY <1>7 DEF SocketError, Closed, Drop, Fail
  <1>8. CASE PeerEnds
    BY <1>2, <1>8 DEF PeerEnds, Asked
  <1>9. CASE Timeout
    BY <1>2, <1>9, TimeoutKeeps DEF Timeout
  <1>10. CASE Data
    <2>1. pending # None /\ wire = <<>> /\ Len(answers) = 1
      <3>1. answers # <<>> /\ pending # None
        BY <1>2, <1>10 DEF Data
      <3> QED BY <1>2, <3>1 DEF Asked
    <2>2. answers' = <<>>
      <3>1. Len(Tail(answers)) = 0 /\ Tail(answers) \in Seq(Frame)
        BY <1>0, <1>10, <2>1, HeadTailProperties DEF Data
      <3> QED BY <1>10, <3>1, EmptySeq DEF Data
    <2>3. PICK frames \in Seq(Frame), taken \in 1 .. Len(Held) :
             taken <= Len(frames) /\ Len(frames) = Len(buf) + 1 /\ Drain(frames, taken)
      BY <1>10, <2>1, DataDrains
    <2>4. taken = 1 /\ Len(frames) = 1 /\ Held \in Seq(Calls)
      BY <1>2, <2>3, HeldSeq
    <2>5. buf' = <<>>
      <3>1. SubSeq(frames, 2, 1) = <<>>
        BY <2>4
      <3> QED BY <2>3, <2>4, <3>1 DEF Drain
    <2>6. CASE taken < Len(Held) /\ pending' = Held[2] /\ wire' = wire \o SubSeq(Held, 2, 2)
      <3> DEFINE h == Held
      <3>1. h \in Seq(Calls) /\ 2 <= Len(h) /\ Len(h) \in Nat
        BY <2>4, <2>6
      <3> HIDE DEF h
      <3>2. /\ SubSeq(h, 2, 2) \in Seq(Calls) /\ Len(SubSeq(h, 2, 2)) = 1
            /\ SubSeq(h, 2, 2)[1] = h[2]
        BY <3>1, SubSeqCalls
      <3>3. h[2] \in Calls
        BY <3>1
      <3>4. SubSeq(h, 2, 2) = <<h[2]>>
        <4> DEFINE l == SubSeq(h, 2, 2)
                   y == <<h[2]>>
        <4>1. y \in Seq(Calls) /\ Len(y) = 1 /\ y[1] = h[2]
          BY <3>3
        <4>2. l \in Seq(Calls) /\ Len(l) = 1 /\ l[1] = h[2]
          BY <3>2
        <4> HIDE DEF l, y
        <4>3. \A i \in 1 .. Len(l) : l[i] = y[i]
          BY <4>1, <4>2
        <4>4. l = y
          BY <4>1, <4>2, <4>3, SeqEqual
        <4> QED BY <4>4 DEF l, y
      <3>5. wire' = SubSeq(h, 2, 2)
        BY <2>1, <2>6, <3>2, ConcatEmptySeq DEF h
      <3> QED BY <2>2, <2>5, <2>6, <3>4, <3>5, <3>3, NoneNoCall DEF Asked, h
    <2>7. CASE pending' = None /\ wire' = wire \o SubSeq(Held, 2, 1)
      <3>1. SubSeq(Held, 2, 1) = <<>>
        BY <2>4
      <3>2. wire' = <<>>
        BY <2>1, <2>7, <3>1
      <3> QED BY <2>2, <2>5, <2>7, <3>2
    <2> QED BY <2>3, <2>4, <2>6, <2>7 DEF Drain
  <1>11. CASE DeviceReads
    <2>1. pending # None /\ wire = <<pending>> /\ answers = <<>>
      BY <1>2, <1>11 DEF DeviceReads, Asked
    <2>2. wire' = <<>> /\ Head(wire) = pending
      BY <1>11, <2>1 DEF DeviceReads
    <2>3. /\ pending' = pending /\ buf' = <<>>
          /\ \/ answers' = <<>>
             \/ /\ answers' = Append(<<>>, [to |-> pending, good |-> TRUE])
                /\ pending \in executed'
             \/ answers' = Append(<<>>, [to |-> pending, good |-> FALSE])
      BY <1>2, <1>11, <2>1, <2>2 DEF DeviceReads
    <2>4. ASSUME NEW f, answers' = Append(<<>>, f)
          PROVE  Len(answers') = 1 /\ answers'[1] = f
      <3>1. Append(<<>>, f) = <<f>> /\ Len(<<f>>) = 1 /\ <<f>>[1] = f
        OBVIOUS
      <3> QED BY <2>4, <3>1
    <2>5. CASE answers' = <<>>
      BY <2>1, <2>2, <2>3, <2>5 DEF Asked
    <2>6. CASE answers' = Append(<<>>, [to |-> pending, good |-> TRUE]) /\ pending \in executed'
      <3>1. Len(answers') = 1 /\ answers'[1] = [to |-> pending, good |-> TRUE]
        BY <2>4, <2>6
      <3>2. answers'[1].to = pending
        BY <3>1
      <3> QED BY <2>1, <2>2, <2>3, <2>6, <3>1, <3>2 DEF Asked
    <2>7. CASE answers' = Append(<<>>, [to |-> pending, good |-> FALSE])
      <3>1. Len(answers') = 1 /\ answers'[1] = [to |-> pending, good |-> FALSE]
        BY <2>4, <2>7
      <3>2. answers'[1].to = pending /\ ~answers'[1].good
        BY <3>1
      <3> QED BY <2>1, <2>2, <2>3, <3>1, <3>2 DEF Asked
    <2> QED BY <2>3, <2>5, <2>6, <2>7
  <1>12. CASE Refused \/ Ended \/ (\E id \in Calls : DeviceReadsLate(id)) \/ UNCHANGED vars
    BY <1>3, <1>12 DEF Refused, Ended, DeviceReadsLate, vars
  <1>13. CASE \E id \in Calls : Stray(id)
    BY <1>13 DEF Stray
  <1> QED BY <1>5, <1>6, <1>7, <1>8, <1>9, <1>10, <1>11, <1>12, <1>13 DEF Next

(* Transaction numbers differ until they begin to repeat.                   *)
LEMMA TidDistinct ==
  ASSUME NEW a \in Calls, NEW b \in Calls, a < TidMod, b < TidMod, Tid(a) = Tid(b)
  PROVE  a = b
  <1>1. ASSUME NEW c \in Calls, c < TidMod PROVE Tid(c) = c
    <2>1. c \in Nat /\ c > 0
      BY BoundsAssumption DEF Calls
    <2>2. c % TidMod = c
      BY <1>1, <2>1, TidAssumption
    <2> QED BY <2>1, <2>2 DEF Tid
  <1> QED BY <1>1

(* The frames a step takes belong to requests that were made, and to the    *)
(* pending one as long as the device has sent nothing unasked.              *)
LEMMA FramesTaken ==
  ASSUME TypeOK, DeviceInv, SerialInv, Data, pending # None,
         NEW frames \in Seq(Frame), frames = Append(buf, Head(answers)),
         NEW i \in 1 .. Len(frames)
  PROVE  /\ frames[i] \in Frame /\ frames[i].to <= issued
         /\ ~strayed => /\ i = 1 /\ frames[i].to = Held[1]
                        /\ frames[i].good => Held[1] \in executed
  <1>0. /\ buf \in Seq(Frame) /\ answers \in Seq(Frame) /\ answers # <<>>
        /\ Head(answers) = answers[1] /\ Head(answers) \in Frame /\ Head(answers) \in Range(answers)
    BY HeadTailProperties, TailRange DEF TypeOK, Frame, Data
  <1>1. frames[i] \in Frame /\ frames[i] \in Range(frames)
    <2> DEFINE f == frames[i]
    <2>1. f \in Frame /\ \E j \in 1 .. Len(frames) : frames[j] = f
      OBVIOUS
    <2> HIDE DEF f
    <2>2. f \in Range(frames)
      BY <2>1, InRange
    <2> QED BY <2>1, <2>2 DEF f
  <1>2. Range(frames) = Range(buf) \union {Head(answers)}
    BY <1>0, RangeAppend
  <1>3. frames[i].to <= issued
    BY <1>0, <1>1, <1>2 DEF DeviceInv
  <1>4. ASSUME ~strayed
        PROVE  i = 1 /\ frames[i].to = Held[1] /\ (frames[i].good => Held[1] \in executed)
    <2>1. buf = <<>> /\ Asked
      BY <1>4 DEF SerialInv
    <2>2. answers[1].to = pending /\ (answers[1].good => pending \in executed)
      BY <1>0, <2>1 DEF Asked
    <2> DEFINE f == answers[1]
    <2>3. frames = Append(<<>>, f)
      BY <1>0, <2>1
    <2> HIDE DEF f
    <2>4. Append(<<>>, f) = <<f>> /\ Len(<<f>>) = 1 /\ <<f>>[1] = f
      OBVIOUS
    <2>5. Len(frames) = 1 /\ frames[1] = f
      BY <2>3, <2>4
    <2>6. i = 1
      BY <2>5
    <2>7. Held[1] = pending
      BY HeldPending
    <2> QED BY <2>2, <2>5, <2>6, <2>7 DEF f
  <1> QED BY <1>1, <1>3, <1>4

LEMMA OwnStep ==
  ASSUME TypeOK, RequestInv, DeviceInv, SerialInv, OwnAnswer, [Next]_vars
  PROVE  OwnAnswer'
  <1>0. issued \in Int /\ TidMod \in Int /\ Held \in Seq(Calls) /\ Len(Held) \in Nat
    BY TidAssumption, HeldSeq DEF TypeOK
  <1>1. (issued' = issued \/ issued' = issued + 1) /\ (strayed => strayed')
    <2>1. CASE Send \/ Refused \/ Connected \/ PeerEnds \/ Ended \/ Timeout \/ Data \/ DeviceReads
               \/ (\E id \in Calls : DeviceReadsLate(id)) \/ UNCHANGED vars
      BY <2>1 DEF vars, Send, Refused, Connected, PeerEnds, Ended, Timeout, Data, DeviceReads, DeviceReadsLate
    <2>2. CASE SocketError \/ Closed \/ Drop
      BY <2>2 DEF SocketError, Closed, Drop, Fail
    <2>3. CASE \E id \in Calls : Stray(id)
      BY <2>3 DEF Stray
    <2> QED BY <2>1, <2>2, <2>3 DEF Next
  <1>2. strayed /\ issued >= TidMod => strayed' /\ issued' >= TidMod
    BY <1>0, <1>1
  <1> SUFFICES ASSUME NEW id \in Calls, status'[id] = "ok"
               PROVE  answer'[id] = id \/ (strayed' /\ issued' >= TidMod)
    BY DEF OwnAnswer
  <1>3. CASE status[id] = "ok" /\ answer'[id] = answer[id]
    BY <1>2, <1>3 DEF OwnAnswer
  <1>4. CASE Data /\ pending # None
    <2>1. PICK frames \in Seq(Frame), taken \in 1 .. Len(Held) :
             /\ frames = Append(buf, Head(answers))
             /\ taken <= Len(frames) /\ Drain(frames, taken)
      BY <1>4, DataDrains
    <2>2. CASE ~ \E i \in 1 .. taken : Held[i] = id
      BY <1>3, <2>1, <2>2 DEF Drain
    <2>3. CASE \E i \in 1 .. taken : Held[i] = id
      <3>1. PICK i \in 1 .. taken : Held[i] = id /\ Fulfils(id, frames[i])
        BY <2>1, <2>3 DEF Drain
      <3>2. \A k \in 1 .. taken : Held[k] = id => k = i
        <4>1. \A k \in 1 .. Len(Held) : Held[k] \in Int
          BY <1>0, BoundsAssumption DEF Calls
        <4>2. \A k, l \in 1 .. Len(Held) : k < l => Held[k] < Held[l]
          BY DEF RequestInv, Sorted
        <4> SUFFICES ASSUME NEW k \in 1 .. taken, Held[k] = id PROVE k = i
          OBVIOUS
        <4>3. k \in 1 .. Len(Held) /\ i \in 1 .. Len(Held)
          BY <1>0, <2>1
        <4>4. ~(k < i) /\ ~(i < k)
          BY <3>1, <4>1, <4>2, <4>3
        <4> QED BY <4>3, <4>4
      <3>3. answer'[id] = frames[i].to
        <4>1. answer'[id] = frames[CHOOSE k \in 1 .. taken : Held[k] = id].to
          BY <2>1, <2>3 DEF Drain
        <4>2. (CHOOSE k \in 1 .. taken : Held[k] = id) = i
          BY <3>1, <3>2
        <4> QED BY <4>1, <4>2
      <3>4. i \in 1 .. Len(frames) /\ i \in 1 .. Len(Held)
        BY <1>0, <2>1
      <3>5. /\ frames[i] \in Frame /\ frames[i].to <= issued
            /\ ~strayed => i = 1 /\ frames[i].to = Held[1]
        BY <1>4, <2>1, <3>4, FramesTaken
      <3>6. CASE ~strayed
        BY <3>1, <3>3, <3>5, <3>6
      <3>7. CASE strayed /\ issued < TidMod
        <4>1. id <= issued
          BY <3>1, <3>4, HeldMade
        <4>2. frames[i].to \in Calls /\ Tid(frames[i].to) = Tid(id)
          BY <3>1, <3>5 DEF Frame, Fulfils
        <4>3. id \in Int /\ frames[i].to \in Int
          BY <4>2, BoundsAssumption DEF Calls
        <4>4. id < TidMod /\ frames[i].to < TidMod
          BY <1>0, <3>5, <3>7, <4>1, <4>3
        <4> QED BY <3>3, <4>2, <4>4, TidDistinct
      <3>8. CASE strayed /\ issued >= TidMod
        BY <1>2, <3>8
      <3> QED BY <1>0, <3>6, <3>7, <3>8
    <2> QED BY <2>2, <2>3
  <1>5. CASE ~ (Data /\ pending # None)
    <2>1. answer' = answer /\ status[id] = "ok"
      <3>1. CASE Send
        BY <3>1 DEF Send, Settled
      <3>2. CASE Refused \/ SocketError \/ Closed \/ Drop \/ Timeout
        BY <3>2 DEF Refused, SocketError, Closed, Drop, Timeout, Fail, GivenUp, Settled
      <3>3. CASE Data
        BY <1>5, <3>3 DEF Data
      <3>4. CASE Connected \/ PeerEnds \/ Ended \/ DeviceReads
                 \/ (\E call \in Calls : DeviceReadsLate(call) \/ Stray(call)) \/ UNCHANGED vars
        BY <3>4 DEF Connected, PeerEnds, Ended, DeviceReads, DeviceReadsLate, Stray, vars
      <3> QED BY <3>1, <3>2, <3>3, <3>4 DEF Next
    <2> QED BY <1>3, <2>1
  <1> QED BY <1>4, <1>5

IInv == TypeOK /\ RequestInv /\ Attended /\ DeviceInv /\ SerialInv /\ OwnAnswer

(* The inductive invariant of the connection.                               *)
THEOREM Invariant == Spec => []IInv
  <1>1. Init => IInv
    <2> SUFFICES ASSUME Init PROVE IInv
      OBVIOUS
    <2>1. TypeOK
      BY InitType
    <2>2. Held = <<>> /\ Range(<<>>) = {}
      BY DEF Init, Held, Range
    <2>3. RequestInv
      BY <2>2, BoundsAssumption DEF Init, RequestInv, NoneForgotten, Sorted, Calls
    <2>4. Attended /\ DeviceInv /\ SerialInv /\ OwnAnswer
      BY <2>2 DEF Init, Attended, DeviceInv, SerialInv, OwnAnswer
    <2> QED BY <2>1, <2>3, <2>4 DEF IInv
  <1>2. IInv /\ [Next]_vars => IInv'
    BY TypeStep, RequestStep, AttendedStep, DeviceStep, SerialStep, OwnStep DEF IInv
  <1> QED BY <1>1, <1>2, PTL DEF Spec

(* No promise is forgotten: what waits is what the connection holds.        *)
THEOREM NoneIsForgotten == Spec => []NoneForgotten
  <1>1. IInv => NoneForgotten
    BY DEF IInv, RequestInv
  <1> QED BY <1>1, Invariant, PTL

(* Every request that waits has something ahead of it that will happen.     *)
THEOREM AllAttended == Spec => []Attended
  <1>1. IInv => Attended
    BY DEF IInv
  <1> QED BY <1>1, Invariant, PTL

(* Until transaction numbers repeat, and as long as the device answers only *)
(* what it was asked, a request is fulfilled with its own answer.           *)
THEOREM AnswerIsOwn == Spec => []OwnAnswer
  <1>1. IInv => OwnAnswer
    BY DEF IInv
  <1> QED BY <1>1, Invariant, PTL

-----------------------------------------------------------------------------
(* One step of Settle, from the front of what is held.                      *)
LEMMA FrontSettles ==
  ASSUME TypeOK, RequestInv, NEW n \in 0 .. Len(Held), NEW ok \in SUBSET (1 .. n),
         \A i \in ok : Held[i] \in executed \/ strayed,
         status' = [id \in Calls |-> IF \E i \in ok : Held[i] = id THEN "ok"
                                     ELSE IF \E i \in 1 .. n : Held[i] = id THEN "failed"
                                     ELSE status[id]],
         UNCHANGED <<executed, strayed>>
  PROVE  Service!Next
  <1> DEFINE done == {id \in Calls : \E i \in ok : Held[i] = id}
             lost == {id \in Calls : \E i \in 1 .. n : Held[i] = id}
  <1>0. Held \in Seq(Calls) /\ Len(Held) \in Nat /\ Calls \subseteq Int
    BY HeldSeq, BoundsAssumption DEF Calls
  <1>1. Service!Waiting = Range(Held)
    BY DEF Service!Waiting, RequestInv, NoneForgotten
  <1>2. \A id : id \in Range(Held) <=> \E i \in 1 .. Len(Held) : Held[i] = id
    BY <1>0, InRange
  <1>3. done \subseteq Service!Waiting /\ lost \subseteq Service!Waiting
    <2>1. 1 .. n \subseteq 1 .. Len(Held)
      BY <1>0
    <2> QED BY <1>1, <1>2, <2>1
  <1>4. done \subseteq executed \/ strayed
    OBVIOUS
  <1>5. ASSUME NEW id \in done, NEW other \in Service!Waiting, other < id
        PROVE  other \in done \union lost
    <2>1. PICK i \in 1 .. n : Held[i] = id
      OBVIOUS
    <2>2. PICK j \in 1 .. Len(Held) : Held[j] = other
      BY <1>1, <1>2
    <2>3. i \in 1 .. Len(Held) /\ Held[i] \in Int /\ Held[j] \in Int /\ other \in Calls
      <3>1. \A k \in 1 .. Len(Held) : Held[k] \in Int /\ Held[k] \in Calls
        BY <1>0
      <3>2. i \in 1 .. Len(Held)
        BY <1>0
      <3> QED BY <2>2, <3>1, <3>2
    <2>4. ~(i < j) /\ i # j
      BY <1>0, <1>5, <2>1, <2>2, <2>3 DEF RequestInv, Sorted
    <2>5. j \in 1 .. n
      BY <1>0, <2>4
    <2> QED BY <2>2, <2>3, <2>5
  <1>6. status' = [id \in Calls |-> IF id \in done THEN "ok"
                                    ELSE IF id \in lost THEN "failed" ELSE status[id]]
    OBVIOUS
  <1>7. done \in SUBSET Calls /\ lost \in SUBSET Calls
    OBVIOUS
  <1> HIDE DEF done, lost
  <1>8. Service!Settle(done, lost)
    BY <1>3, <1>4, <1>5, <1>6 DEF Service!Settle
  <1> QED BY <1>7, <1>8 DEF Service!Next

LEMMA ServiceStep ==
  ASSUME IInv, [Next]_vars
  PROVE  Service!Next \/ UNCHANGED Service!vars
  <1> USE DEF Service!vars
  <1>0. /\ TypeOK /\ RequestInv /\ DeviceInv /\ SerialInv
        /\ Held \in Seq(Calls) /\ Len(Held) \in Nat /\ wire \in Seq(Calls)
    BY HeldSeq DEF IInv, TypeOK
  <1>1. ASSUME NEW id \in Calls, id \in Range(wire) \union late, executed' = executed \union {id},
               UNCHANGED <<status, strayed>>
        PROVE  Service!Next
    <2>1. status[id] # "new"
      <3>1. id <= issued /\ id \in Int /\ issued \in Int
        BY <1>0, <1>1, BoundsAssumption DEF DeviceInv, TypeOK, Calls
      <3> QED BY <1>0, <3>1 DEF RequestInv
    <2> QED BY <1>1, <2>1 DEF Service!Execute, Service!Next
  <1>2. CASE Send \/ Refused
    <2>1. issued' \in Calls /\ issued' > issued
          /\ status' \in {Settled({issued'}, "waiting"), Settled({issued'}, "failed")}
          /\ UNCHANGED <<executed, strayed>>
      BY <1>0, <1>2, BoundsAssumption DEF Send, Refused, TypeOK, Calls
    <2>2. status[issued'] = "new"
      BY <1>0, <2>1 DEF RequestInv
    <2>3. \A result : Settled({issued'}, result) = [status EXCEPT ![issued'] = result]
      BY <1>0 DEF Settled, TypeOK
    <2>4. Service!Call(issued')
      BY <2>1, <2>2, <2>3 DEF Service!Call
    <2> QED BY <2>1, <2>4 DEF Service!Next
  <1>3. CASE Connected \/ PeerEnds \/ Ended \/ UNCHANGED vars
    BY <1>3 DEF Connected, PeerEnds, Ended, vars
  <1>4. ASSUME NEW n \in 0 .. Len(Held), UNCHANGED <<executed, strayed>>,
               status' = Settled({Held[i] : i \in 1 .. n}, "failed")
        PROVE  Service!Next
    <2>1. status' = [id \in Calls |-> IF \E i \in {} : Held[i] = id THEN "ok"
                                      ELSE IF \E i \in 1 .. n : Held[i] = id THEN "failed"
                                      ELSE status[id]]
      BY <1>4 DEF Settled
    <2> DEFINE ok == {}
    <2>2. ok \in SUBSET (1 .. n) /\ \A i \in ok : Held[i] \in executed \/ strayed
      OBVIOUS
    <2>3. status' = [id \in Calls |-> IF \E i \in ok : Held[i] = id THEN "ok"
                                      ELSE IF \E i \in 1 .. n : Held[i] = id THEN "failed"
                                      ELSE status[id]]
      BY <2>1
    <2> HIDE DEF ok
    <2> QED BY <1>0, <1>4, <2>2, <2>3, FrontSettles
  <1>5. CASE SocketError \/ Closed \/ Drop
    <2>1. status' = Settled(Range(Held), "failed") /\ UNCHANGED <<executed, strayed>>
      BY <1>5 DEF SocketError, Closed, Drop, Fail, GivenUp
    <2>2. Range(Held) = {Held[i] : i \in 1 .. Len(Held)}
      BY <1>0, RangeEquality
    <2>3. Len(Held) \in 0 .. Len(Held)
      BY <1>0
    <2> QED BY <1>4, <2>1, <2>2, <2>3
  <1>6. CASE Timeout
    <2>1. pending # None /\ status' = Settled({pending}, "failed") /\ UNCHANGED <<executed, strayed>>
      BY <1>6 DEF Timeout
    <2>2. Held[1] = pending /\ 1 \in 0 .. Len(Held)
      BY <1>0, <2>1, HeldPending
    <2>3. {Held[i] : i \in 1 .. 1} = {pending}
      BY <2>2
    <2> QED BY <1>4, <2>1, <2>2, <2>3
  <1>7. CASE Data
    <2>1. CASE pending = None
      BY <1>7, <2>1 DEF Data
    <2>2. CASE pending # None
      <3>1. PICK frames \in Seq(Frame), taken \in 1 .. Len(Held) :
               /\ frames = Append(buf, Head(answers))
               /\ taken <= Len(frames) /\ Drain(frames, taken)
        BY <1>0, <1>7, <2>2, DataDrains
      <3> DEFINE ok == {i \in 1 .. taken : Fulfils(Held[i], frames[i])}
      <3>2. ASSUME NEW i \in ok PROVE Held[i] \in executed \/ strayed
        <4>1. i \in 1 .. Len(frames)
          BY <1>0, <3>1
        <4>2. ~strayed => i = 1 /\ (frames[i].good => Held[1] \in executed)
          BY <1>0, <1>7, <2>2, <3>1, <4>1, FramesTaken
        <4> QED BY <4>2 DEF Fulfils
      <3>3. status' = [id \in Calls |-> IF \E i \in ok : Held[i] = id THEN "ok"
                                        ELSE IF \E i \in 1 .. taken : Held[i] = id THEN "failed"
                                        ELSE status[id]]
        <4>1. \A id : (\E i \in 1 .. taken : Held[i] = id /\ Fulfils(id, frames[i]))
                      <=> \E i \in ok : Held[i] = id
          OBVIOUS
        <4> QED BY <3>1, <4>1 DEF Drain
      <3>4. ok \in SUBSET (1 .. taken) /\ taken \in 0 .. Len(Held) /\ UNCHANGED <<executed, strayed>>
        BY <1>0, <1>7 DEF Data
      <3> HIDE DEF ok
      <3> QED BY <1>0, <3>2, <3>3, <3>4, FrontSettles
    <2> QED BY <2>1, <2>2
  <1>8. CASE DeviceReads
    <2>1. Head(wire) \in Calls /\ Head(wire) \in Range(wire)
      BY <1>0, <1>8, HeadTailProperties, TailRange DEF DeviceReads
    <2>2. CASE executed' = executed \union {Head(wire)} /\ UNCHANGED <<status, strayed>>
      BY <1>1, <2>1, <2>2
    <2> QED BY <1>8, <2>2 DEF DeviceReads
  <1>9. CASE \E id \in Calls : DeviceReadsLate(id)
    BY <1>1, <1>9 DEF DeviceReadsLate
  <1>10. CASE \E id \in Calls : Stray(id)
    BY <1>10 DEF Stray, Service!Mislead, Service!Next
  <1> QED BY <1>2, <1>3, <1>5, <1>6, <1>7, <1>8, <1>9, <1>10 DEF Next

(* The transport implements what the callers rely on: a promise is settled  *)
(* once, fulfilled only when the device has carried the request out (unless *)
(* it sends frames nobody asked for), and in the order of the calls.        *)
THEOREM ServiceIsServed == Spec => Served
  <1>1. Init => Service!Init
    BY DEF Init, Service!Init
  <1>2. IInv /\ [Next]_vars => [Service!Next]_(Service!vars)
    BY ServiceStep
  <1> QED BY <1>1, <1>2, Invariant, PTL DEF Spec, Served, Service!Spec

=============================================================================
