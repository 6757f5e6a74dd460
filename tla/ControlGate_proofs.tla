-------------------------- MODULE ControlGate_proofs --------------------------
(***************************************************************************)
(* Proofs about ControlGate, for any setpoints, situations, operators and  *)
(* number of requests in flight.  LastWriteTrue is inductive.  For the     *)
(* emergency stop QueueInv says what the requests in flight may do to the  *)
(* register: those behind the write of the stop come from mandatory        *)
(* sources, and these ask for neutral values only.                         *)
(***************************************************************************)
EXTENDS ControlGate, SequenceTheorems, TLAPS

-------------------------------------------------------------------------------
(* Values and types.                                                        *)

LEMMA SafeValues == Safe \subseteq Values /\ NppLimit \in Values
  BY ValuesAssumption DEF Safe, NppLimit, Lower, Higher

(* What the gates let through is a setpoint, and of a mandatory source a    *)
(* neutral one.                                                             *)
LEMMA GateFacts ==
  ASSUME TypeOK, NEW v \in Values, NEW source
  PROVE  /\ Gate(v, source) \in Values \union {Refused}
         /\ Mandatory(source) /\ v \in Safe /\ Gate(v, source) # Refused
              => Gate(v, source) \in Safe
         /\ paused /\ Gate(v, source) # Refused => Mandatory(source)
  <1> DEFINE buffered == Buffered(v, source)
             shared == ShareCapped(buffered, source)
             peaked == PeakCapped(shared, source)
  <1>1. env \in EnvType /\ (env.share # None => -env.share \in Values)
    BY CallersAssumption DEF TypeOK
  <1>2. buffered \in Values /\ (Mandatory(source) => buffered = v)
    BY ValuesAssumption DEF Buffered
  <1>3. shared \in Values /\ (Mandatory(source) => shared = buffered)
    BY <1>1, <1>2 DEF ShareCapped
  <1>4. peaked \in Values /\ (Mandatory(source) => peaked = shared)
    BY <1>1, <1>3 DEF PeakCapped, EnvType
  <1>5. Held(peaked) \in {peaked, 0}
    BY DEF Held
  <1>6. 0 \in Values /\ 0 \in Safe
    BY ValuesAssumption DEF Safe
  <1>7. Gate(v, source) = IF (paused /\ ~Mandatory(source)) \/ Illegal(buffered, source)
                          THEN Refused ELSE Held(peaked)
    BY DEF Gate
  <1> HIDE DEF buffered, shared, peaked
  <1> QED BY <1>2, <1>3, <1>4, <1>5, <1>6, <1>7

LEMMA EffectiveFacts ==
  ASSUME TypeOK
  PROVE  /\ Effective \in Wishes
         /\ Effective.value \in Values /\ ~Mandatory(Effective.source)
  <1>1. CASE env.rule # None
    <2>1. env.rule \in [value : Values, source : RuleSources]
      BY <1>1, CallersAssumption DEF TypeOK, EnvType
    <2>2. Effective = env.rule
      BY <1>1 DEF Effective
    <2> QED BY <2>1, <2>2 DEF Mandatory, RuleSources, Wishes
  <1>2. CASE env.rule = None /\ override # None
    <2>1. override \in [value : Values, persistent : BOOLEAN]
      BY <1>2, CallersAssumption DEF TypeOK
    <2> QED BY <1>2, <2>1 DEF Effective, Mandatory, Wishes
  <1>3. CASE env.rule = None /\ override = None
    BY <1>3, ValuesAssumption DEF Effective, Mandatory, Wishes
  <1> QED BY <1>1, <1>2, <1>3

LEMMA WishFacts ==
  ASSUME TypeOK
  PROVE  Wish \in Wishes /\ (Mandatory(Wish.source) => Wish.value \in Safe)
  <1> DEFINE v == Effective.value
             source == Effective.source
             hold == Lower(0, Default)
             floor == source = "manual_override_persistent" /\ v < 0 /\ env.soc \in {"low", "floor", "unknown"}
             limited == env.limit # None /\ v > 0 /\ v > Higher(hold, env.limit)
             negative == env.price = "negative" /\ v <= 0
             cheap == env.price = "cheap" /\ v <= ForcedExport
                        /\ source \notin {"rule:eos", "dc_export_mode"}
  <1>1. /\ v \in Values /\ ~Mandatory(source)
        /\ [value |-> v, source |-> source] \in Wishes
        /\ 0 \in Values /\ 0 \in Safe /\ Default \in Values
        /\ NppLimit \in Values /\ NppLimit \in Safe
    BY EffectiveFacts, SafeValues, ValuesAssumption DEF Safe, Wishes
  <1>2. limited => Higher(hold, env.limit) \in Values
    BY CallersAssumption, ValuesAssumption DEF TypeOK, EnvType, Higher, Lower
  <1>3. Wish = CASE floor -> [value |-> 0, source |-> "manual_override_soc_floor"]
                 [] limited -> [value |-> Higher(hold, env.limit), source |-> "paragraph14a_limit"]
                 [] negative -> [value |-> NppLimit, source |-> "negative_price_protection"]
                 [] cheap -> [value |-> Default, source |-> "sell_price_floor"]
                 [] OTHER -> [value |-> v, source |-> source]
    BY DEF Wish
  <1> HIDE DEF v, source, hold, floor, limited, negative, cheap
  <1>4. \/ Wish = [value |-> 0, source |-> "manual_override_soc_floor"]
        \/ limited /\ Wish = [value |-> Higher(hold, env.limit), source |-> "paragraph14a_limit"]
        \/ Wish = [value |-> NppLimit, source |-> "negative_price_protection"]
        \/ Wish = [value |-> Default, source |-> "sell_price_floor"]
        \/ Wish = [value |-> v, source |-> source]
    BY <1>3
  <1>5. /\ \A x \in Values : /\ [value |-> x, source |-> "manual_override_soc_floor"] \in Wishes
                             /\ [value |-> x, source |-> "paragraph14a_limit"] \in Wishes
                             /\ [value |-> x, source |-> "negative_price_protection"] \in Wishes
                             /\ [value |-> x, source |-> "sell_price_floor"] \in Wishes
    BY DEF Wishes
  <1>6. Wish \in Wishes
    BY <1>1, <1>2, <1>4, <1>5
  <1>7. Mandatory(Wish.source) => Wish.value \in Safe
    BY <1>1, <1>4 DEF Mandatory
  <1> QED BY <1>6, <1>7

LEMMA RequestType ==
  ASSUME TypeOK, NEW c \in Writers, NEW w \in Values, NEW source,
         NEW m \in Commands \union {None}
  PROVE  /\ Request(c, w, source, m) \in Requests
         /\ Request(c, w, source, m).by = c /\ Request(c, w, source, m).value = w
         /\ Request(c, w, source, m).mandatory = Mandatory(source)
         /\ Request(c, w, source, m).command = m
         /\ Request(c, w, source, m).before = override
  BY DEF Request, Requests, TypeOK, Mandatory

(* What the two steps of an evaluation do to the rest: at most one request  *)
(* more, for what it wishes now or has wished before.                       *)
LEMMA EvalFacts ==
  ASSUME TypeOK, NEW c \in Evaluations, EvalAsk(c) \/ EvalGoesOn(c)
  PROVE  /\ UNCHANGED <<gate, memory, plant, history>> /\ override' \in {None, override}
         /\ first' \in BOOLEAN /\ asked' \in [Evaluations -> Wishes \union {None}]
         /\ \/ UNCHANGED chain
            \/ \E w \in Values, wish \in Wishes :
                 /\ chain' = Append(chain, Request(c, w, wish.source, None))
                 /\ wish = Wish \/ (asked[c] # None /\ wish = asked[c])
                 /\ Mandatory(wish.source) /\ wish.value \in Safe => w \in Safe
                 /\ paused => Mandatory(wish.source)
  <1>1. PICK wish \in Wishes :
          /\ wish = Wish \/ (asked[c] # None /\ wish = asked[c])
          /\ UNCHANGED chain \/ AskFor(c, wish)
    <2>1. CASE EvalAsk(c)
      BY <2>1, WishFacts DEF EvalAsk
    <2>2. CASE EvalGoesOn(c)
      BY <2>2 DEF EvalGoesOn, TypeOK
    <2> QED BY <2>1, <2>2
  <1>2. /\ UNCHANGED <<gate, memory, plant, history>> /\ override' \in {None, override}
        /\ first' \in BOOLEAN /\ asked' \in [Evaluations -> Wishes \union {None}]
    <2>1. CASE EvalAsk(c)
      BY <2>1, WishFacts DEF EvalAsk, TypeOK
    <2>2. CASE EvalGoesOn(c)
      BY <2>2 DEF EvalGoesOn, TypeOK
    <2> QED BY <2>1, <2>2
  <1>3. CASE AskFor(c, wish)
    <2> DEFINE w == Gate(wish.value, wish.source)
    <2>1. /\ w \in Values \union {Refused}
          /\ Mandatory(wish.source) /\ wish.value \in Safe /\ w # Refused => w \in Safe
          /\ paused /\ w # Refused => Mandatory(wish.source)
      BY GateFacts DEF Wishes
    <2>2. UNCHANGED chain \/ (w # Refused /\ chain' = Append(chain, Request(c, w, wish.source, None)))
      BY <1>3 DEF AskFor, Send
    <2> HIDE DEF w
    <2> QED BY <1>1, <1>2, <2>1, <2>2
  <1> QED BY <1>1, <1>2, <1>3

LEMMA NotVerify == "verify" \notin Writers /\ Writers \union {"verify"} # {}
  BY CallersAssumption DEF Writers, Evaluations

-------------------------------------------------------------------------------
(* What a step does to the requests in flight.                              *)

LEMMA Appended ==
  ASSUME chain \in Seq(Requests), NEW r \in Requests, chain' = Append(chain, r)
  PROVE  /\ chain' \in Seq(Requests)
         /\ \A i \in DOMAIN chain' :
              \/ i \in DOMAIN chain /\ chain'[i] = chain[i]
              \/ i \notin DOMAIN chain /\ i = Len(chain) + 1 /\ chain'[i] = r
         /\ \A i \in DOMAIN chain : i < Len(chain) + 1
  BY AppendProperties

LEMMA Removed ==
  ASSUME chain \in Seq(Requests), chain # <<>>, chain' = Tail(chain)
  PROVE  /\ chain' \in Seq(Requests)
         /\ Head(chain) \in Requests /\ Head(chain) = chain[1] /\ 1 \in DOMAIN chain
         /\ \A i \in DOMAIN chain' :
              i \in Int /\ i + 1 \in DOMAIN chain /\ i + 1 > 1 /\ chain'[i] = chain[i + 1]
  BY HeadTailProperties

-------------------------------------------------------------------------------
(* Type correctness.                                                        *)

LEMMA TypeInit == Init => TypeOK
  <1>1. <<>> \in Seq(Requests)
    BY EmptySeq
  <1> QED BY <1>1, ValuesAssumption DEF Init, TypeOK

LEMMA TypeStep == TypeOK /\ [Next]_vars => TypeOK'
  <1> SUFFICES ASSUME TypeOK, [Next]_vars PROVE TypeOK'
    OBVIOUS
  <1> USE DEF TypeOK, gate, memory, plant, evals, history
  <1>1. ASSUME NEW c \in Evaluations, EvalAsk(c) \/ EvalGoesOn(c) PROVE TypeOK'
    <2>1. chain' \in Seq(Requests)
      <3>1. CASE UNCHANGED chain
        BY <3>1
      <3>2. ASSUME NEW w \in Values, NEW wish \in Wishes,
                   chain' = Append(chain, Request(c, w, wish.source, None))
            PROVE  chain' \in Seq(Requests)
        <4>1. Request(c, w, wish.source, None) \in Requests
          BY RequestType DEF Writers
        <4> QED BY <3>2, <4>1, Appended
      <3> QED BY <1>1, <3>1, <3>2, EvalFacts
    <2> QED BY <1>1, <2>1, EvalFacts
  <1>2. ASSUME NEW c \in Operators, NEW m \in Commands, Command(c, m) PROVE TypeOK'
    <2> DEFINE w == Gate(m.value, "api_manual_write")
    <2>1. c \in Writers /\ m.value \in Values
      BY CallersAssumption DEF Writers
    <2>2. w \in Values
      BY <1>2, <2>1, GateFacts DEF Command
    <2>3. CASE UNCHANGED chain
      BY <1>2, <2>3 DEF Command
    <2>4. CASE Send(Request(c, w, "api_manual_write", m)) /\ UNCHANGED granted
      <3>1. Request(c, w, "api_manual_write", m) \in Requests
        BY <2>1, <2>2, RequestType
      <3>2. chain' \in Seq(Requests)
        BY <2>4, <3>1, Appended DEF Send
      <3> QED BY <1>2, <2>4, <3>2 DEF Command
    <2> QED BY <1>2, <2>3, <2>4 DEF Command
  <1>3. CASE OverrideEnds
    BY <1>3 DEF OverrideEnds
  <1>4. CASE Stop
    <2>1. "stop" \in Writers /\ None \in Commands \union {None} /\ 0 \in Values
      BY ValuesAssumption DEF Writers
    <2>2. CASE UNCHANGED chain
      BY <1>4, <2>2 DEF Stop, persistControlState
    <2>3. CASE stop' = "asked" /\ Send(Request("stop", 0, "emergency_stop", None))
      <3>1. Request("stop", 0, "emergency_stop", None) \in Requests
        BY <2>1, RequestType
      <3>2. chain' \in Seq(Requests)
        BY <2>3, <3>1, Appended DEF Send
      <3> QED BY <1>4, <2>3, <3>2 DEF Stop, persistControlState
    <2> QED BY <1>4, <2>2, <2>3 DEF Stop
  <1>5. CASE Resume
    BY <1>5 DEF Resume, persistControlState
  <1>6. CASE WriteOk
    <2>1. chain' \in Seq(Requests) /\ Head(chain) \in Requests
      BY <1>6, Removed DEF WriteOk
    <2>2. Head(chain).value \in Values /\ Head(chain).command \in Commands \union {None}
      BY <2>1 DEF Requests
    <2>3. (timer \/ (Verify /\ ~Head(chain).again)) \in BOOLEAN
          /\ (moved \/ InFlight("verify")) \in BOOLEAN
      OBVIOUS
    <2> QED BY <1>6, <2>1, <2>2, <2>3 DEF WriteOk, Record
  <1>7. CASE WriteFail
    <2>1. chain' \in Seq(Requests) /\ Head(chain) \in Requests
      BY <1>7, Removed DEF WriteFail
    <2>2. Head(chain).value \in Values /\ Head(chain).before \in Commands \union {None}
      BY <2>1 DEF Requests
    <2> QED BY <1>7, <2>1, <2>2 DEF WriteFail, Restore
  <1>8. CASE KeepaliveDue
    BY <1>8 DEF KeepaliveDue
  <1>9. CASE VerifyFires
    <2>0. /\ UNCHANGED <<gate, override, lastWrite, due, plant, evals, history>>
          /\ timer' \in BOOLEAN /\ moved' \in BOOLEAN
      BY <1>9 DEF VerifyFires
    <2>1. CASE UNCHANGED chain
      BY <2>0, <2>1
    <2>2. CASE lastWrite # None /\ Send([by |-> "verify", value |-> lastWrite, mandatory |-> FALSE,
                   again |-> FALSE, command |-> None, before |-> None])
      <3>1. [by |-> "verify", value |-> lastWrite, mandatory |-> FALSE,
             again |-> FALSE, command |-> None, before |-> None] \in Requests
        BY <2>2 DEF Requests
      <3>2. chain' \in Seq(Requests)
        BY <2>2, <3>1, Appended DEF Send
      <3> QED BY <2>0, <3>2
    <2> QED BY <1>9, <2>1, <2>2 DEF VerifyFires
  <1>10. CASE VerifyReads
    <2>1. chain' \in Seq(Requests)
      BY <1>10, Removed DEF VerifyReads
    <2>2. lastWrite' \in Values \union {None} /\ due' \in BOOLEAN /\ moved' \in BOOLEAN
      BY <1>10 DEF VerifyReads
    <2> QED BY <1>10, <2>1, <2>2 DEF VerifyReads
  <1>11. CASE VerifyFails
    <2>1. chain' \in Seq(Requests)
      BY <1>11, Removed DEF VerifyFails
    <2>2. UNCHANGED <<gate, override, lastWrite, due, timer, plant, evals, history>> /\ moved' \in BOOLEAN
      BY <1>11 DEF VerifyFails
    <2> QED BY <2>1, <2>2
  <1>12. CASE LateLands
    BY <1>12 DEF LateLands
  <1>13. CASE Drift
    BY <1>13, ValuesAssumption DEF Drift
  <1>14. CASE WorldChanges
    BY <1>14 DEF WorldChanges
  <1>15. CASE Restart
    <2>1. chain # <<>> => Head(chain) \in Requests
      BY HeadTailProperties
    <2>2. dev' \in Values
      BY <1>15, <2>1 DEF Restart, Requests
    <2>3. chain' \in Seq(Requests)
      BY <1>15, EmptySeq DEF Restart
    <2>4. asked' \in [Evaluations -> Wishes \union {None}]
      BY <1>15 DEF Restart
    <2> QED BY <1>15, <2>2, <2>3, <2>4 DEF Restart, loadControlState
  <1>16. CASE UNCHANGED vars
    BY <1>16 DEF vars
  <1> QED BY <1>1, <1>2, <1>3, <1>4, <1>5, <1>6, <1>7, <1>8, <1>9, <1>10, <1>11, <1>12,
             <1>13, <1>14, <1>15, <1>16 DEF Next

(* The variables stay what they are: setpoints, flags, requests in flight.  *)
THEOREM TypeCorrect == Spec => []TypeOK
  BY TypeInit, TypeStep, PTL DEF Spec

-------------------------------------------------------------------------------
(* The memory of the last write.                                            *)

LEMMA LastWriteStep == TypeOK /\ LastWriteTrue /\ [Next]_vars => LastWriteTrue'
  <1> SUFFICES ASSUME TypeOK, LastWriteTrue, [Next]_vars PROVE LastWriteTrue'
    OBVIOUS
  <1> USE DEF LastWriteTrue, gate, memory, plant, history
  <1>1. ASSUME UNCHANGED <<lastWrite, dev, doubt>> PROVE LastWriteTrue'
    BY <1>1
  <1>2. CASE WriteOk
    BY <1>2 DEF WriteOk, Record
  <1>3. CASE WriteFail
    BY <1>3 DEF WriteFail
  <1>4. CASE VerifyReads
    BY <1>4 DEF VerifyReads
  <1>5. CASE LateLands \/ Drift
    BY <1>5 DEF LateLands, Drift
  <1>6. CASE Restart
    BY <1>6 DEF Restart
  <1>7. ASSUME \/ \E c \in Evaluations : EvalAsk(c) \/ EvalGoesOn(c)
               \/ \E c \in Operators, m \in Commands : Command(c, m)
               \/ OverrideEnds \/ Stop \/ Resume
        PROVE LastWriteTrue'
    BY <1>1, <1>7 DEF EvalAsk, EvalGoesOn, Command, OverrideEnds, Stop, Resume
  <1>8. ASSUME KeepaliveDue \/ VerifyFires \/ VerifyFails \/ WorldChanges \/ UNCHANGED vars
        PROVE LastWriteTrue'
    BY <1>1, <1>8 DEF KeepaliveDue, VerifyFires, VerifyFails, WorldChanges, vars
  <1> QED BY <1>2, <1>3, <1>4, <1>5, <1>6, <1>7, <1>8 DEF Next

(* What is compared with before a write is skipped is what the device holds *)
(* (LastWriteTrue): in every order in which calls that overlap are settled. *)
THEOREM LastWriteIsTrue == Spec => []LastWriteTrue
  <1>1. Init => LastWriteTrue
    BY DEF Init, LastWriteTrue
  <1> QED BY <1>1, LastWriteStep, TypeCorrect, PTL DEF Spec

-------------------------------------------------------------------------------
(* The emergency stop.                                                      *)

(* Requests of mandatory sources are neutral, and the stop is one of them.  *)
QueueInv ==
  \A i \in DOMAIN chain :
    /\ chain[i].mandatory => Write(chain[i]) /\ chain[i].value \in Safe
    /\ chain[i].by = "stop" => chain[i].mandatory

(* The write of the last stop in flight.                                    *)
LastStop(k) ==
  k \in DOMAIN chain /\ chain[k].by = "stop" /\ \A j \in DOMAIN chain : chain[j].by = "stop" => j <= k

(* What an evaluation waits with is neutral if it is mandatory.             *)
AskedSafe ==
  \A c \in Evaluations :
    asked[c] # None /\ Mandatory(asked[c].source) => asked[c].value \in Safe

(* While the stop is in force nothing else is behind its own write, and     *)
(* nothing else is in flight at all once that is done.                      *)
StopInv ==
  /\ disk = paused
  /\ stop # "none" => paused
  /\ stop = "done" => \A i \in DOMAIN chain : Write(chain[i]) => chain[i].mandatory
  /\ stop = "asked" => \A k, i \in DOMAIN chain :
       LastStop(k) /\ k < i /\ Write(chain[i]) => chain[i].mandatory

GateInv == TypeOK /\ LastWriteTrue /\ AskedSafe /\ QueueInv /\ StopInv /\ StopNeutral

LEMMA AskedStep == TypeOK /\ AskedSafe /\ [Next]_vars => AskedSafe'
  <1> SUFFICES ASSUME TypeOK, AskedSafe, [Next]_vars PROVE AskedSafe'
    OBVIOUS
  <1>1. CASE UNCHANGED asked
    BY <1>1 DEF AskedSafe
  <1>2. ASSUME NEW c \in Evaluations, EvalAsk(c) PROVE AskedSafe'
    <2>1. UNCHANGED asked \/ asked' = [asked EXCEPT ![c] = Wish]
      BY <1>2 DEF EvalAsk
    <2> QED BY <1>1, <2>1, WishFacts DEF AskedSafe, TypeOK
  <1>3. ASSUME NEW c \in Evaluations, EvalGoesOn(c) PROVE AskedSafe'
    BY <1>3 DEF EvalGoesOn, AskedSafe, TypeOK
  <1>4. CASE Restart
    BY <1>4 DEF Restart, AskedSafe
  <1>5. CASE \/ \E c \in Operators, m \in Commands : Command(c, m)
             \/ OverrideEnds \/ Stop \/ Resume \/ WriteOk \/ WriteFail \/ KeepaliveDue
             \/ VerifyFires \/ VerifyReads \/ VerifyFails
             \/ LateLands \/ Drift \/ WorldChanges \/ UNCHANGED vars
    BY <1>1, <1>5 DEF Command, OverrideEnds, Stop, Resume, WriteOk, WriteFail, KeepaliveDue,
                      VerifyFires, VerifyReads, VerifyFails, LateLands, Drift, WorldChanges,
                      evals, vars
  <1> QED BY <1>2, <1>3, <1>4, <1>5 DEF Next

(* A new request: neutral if it is mandatory, and mandatory in a stop.      *)
LEMMA QueueSend ==
  ASSUME TypeOK, QueueInv, StopInv, NEW c \in Writers, NEW w \in Values, NEW source,
         NEW m \in Commands \union {None},
         chain' = Append(chain, Request(c, w, source, m)),
         Mandatory(source) => w \in Safe, c = "stop" => Mandatory(source)
  PROVE  /\ QueueInv'
         /\ Mandatory(source) /\ UNCHANGED <<stop, paused, disk>> => StopInv'
         /\ c = "stop" => \A k : LastStop(k)' => k = Len(chain) + 1
  <1> DEFINE r == Request(c, w, source, m)
  <1>1. /\ r \in Requests /\ r.by = c /\ r.value = w /\ r.mandatory = Mandatory(source)
        /\ r.by # "verify"
    BY RequestType, NotVerify
  <1> HIDE DEF r
  <1>2. chain \in Seq(Requests) /\ chain' = Append(chain, r)
    BY DEF r, TypeOK
  <1>3. \A i \in DOMAIN chain' :
          \/ i \in DOMAIN chain /\ chain'[i] = chain[i]
          \/ i \notin DOMAIN chain /\ i = Len(chain) + 1 /\ chain'[i] = r
    BY <1>1, <1>2, Appended
  <1>4. Len(chain) \in Nat /\ DOMAIN chain = 1 .. Len(chain)
    BY <1>2, LenProperties
  <1>8. \A i \in DOMAIN chain : i \in DOMAIN chain' /\ chain'[i] = chain[i]
    BY <1>1, <1>2, AppendProperties
  <1>9. Len(chain) + 1 \in DOMAIN chain' /\ chain'[Len(chain) + 1] = r
    BY <1>1, <1>2, AppendProperties
  <1>5. QueueInv'
    BY <1>1, <1>3 DEF QueueInv, Write
  <1>6. Mandatory(source) /\ UNCHANGED <<stop, paused, disk>> => StopInv'
    <2> SUFFICES ASSUME Mandatory(source), UNCHANGED <<stop, paused, disk>> PROVE StopInv'
      OBVIOUS
    <2>1. disk' = paused' /\ (stop' # "none" => paused')
      BY DEF StopInv
    <2>2. ASSUME stop' = "done", NEW i \in DOMAIN chain', Write(chain'[i])
          PROVE  chain'[i].mandatory
      BY <1>1, <1>3, <2>2 DEF StopInv, Write
    <2>3. ASSUME stop' = "asked", NEW k \in DOMAIN chain', NEW i \in DOMAIN chain',
                 LastStop(k)', k < i, Write(chain'[i])
          PROVE  chain'[i].mandatory
      <3>1. CASE i \notin DOMAIN chain
        BY <1>1, <1>3, <3>1
      <3>2. CASE i \in DOMAIN chain
        <4>1. k \in DOMAIN chain
          BY <1>3, <1>4, <2>3, <3>2
        <4>2. LastStop(k)
          BY <1>2, <1>3, <1>8, <2>3, <4>1 DEF LastStop
        <4> QED BY <1>3, <2>3, <3>2, <4>1, <4>2 DEF StopInv, Write
      <3> QED BY <3>1, <3>2
    <2> QED BY <2>1, <2>2, <2>3 DEF StopInv, Write
  <1>7. c = "stop" => \A k : LastStop(k)' => k = Len(chain) + 1
    <2> SUFFICES ASSUME c = "stop", NEW k, LastStop(k)' PROVE k = Len(chain) + 1
      OBVIOUS
    <2>1. k \in DOMAIN chain' /\ Len(chain) + 1 <= k
      BY <1>1, <1>9 DEF LastStop
    <2> QED BY <1>3, <1>4, <2>1
  <1> QED BY <1>5, <1>6, <1>7

(* A request that is taken from the chain leaves the others in their order. *)
LEMMA QueueTake ==
  ASSUME TypeOK, QueueInv, StopInv, chain # <<>>, chain' = Tail(chain),
         UNCHANGED <<paused, disk>>,
         \/ UNCHANGED stop
         \/ stop = "asked" /\ stop' = "failed"
         \/ stop = "asked" /\ OfTheStop(Head(chain)) /\ stop' = "done"
  PROVE  QueueInv' /\ StopInv'
  <1>1. /\ Head(chain) = chain[1] /\ 1 \in DOMAIN chain
        /\ \A i \in DOMAIN chain' :
             i \in Int /\ i + 1 \in DOMAIN chain /\ i + 1 > 1 /\ chain'[i] = chain[i + 1]
    BY Removed DEF TypeOK
  <1>2. QueueInv'
    BY <1>1 DEF QueueInv, Write
  <1>3. ASSUME stop' = "asked", NEW k \in DOMAIN chain', NEW i \in DOMAIN chain',
               LastStop(k)', k < i, Write(chain'[i])
        PROVE  chain'[i].mandatory
    <2>1. k + 1 < i + 1 /\ stop = "asked"
      BY <1>1, <1>3
    <2>2. ASSUME NEW j \in DOMAIN chain, chain[j].by = "stop", j # 1 PROVE j <= k + 1
      <3>1. j \in Int /\ j - 1 \in DOMAIN chain' /\ chain'[j - 1] = chain[j]
        BY <2>2, HeadTailProperties DEF TypeOK
      <3>2. j - 1 <= k
        BY <1>3, <2>2, <3>1 DEF LastStop
      <3> QED BY <1>1, <3>1, <3>2
    <2>3. LastStop(k + 1)
      BY <1>1, <1>3, <2>2 DEF LastStop
    <2> QED BY <1>1, <1>3, <2>1, <2>3 DEF StopInv, Write
  <1>4. ASSUME stop' = "done", NEW i \in DOMAIN chain', Write(chain'[i])
        PROVE  chain'[i].mandatory
    <2>1. CASE stop = "done"
      BY <1>1, <1>4, <2>1 DEF StopInv, Write
    <2>2. CASE stop = "asked" /\ OfTheStop(Head(chain))
      <3>1. 1 < i + 1 /\ LastStop(1) /\ Write(chain[i + 1])
        <4>1. \A j \in DOMAIN chain : j \in Int /\ j >= 1
          BY LenProperties DEF TypeOK
        <4> QED BY <1>1, <1>4, <2>2, <4>1 DEF Write, LastStop, OfTheStop
      <3> QED BY <1>1, <2>2, <3>1 DEF StopInv
    <2> QED BY <1>4, <2>1, <2>2
  <1>5. Write(chain[1])' = Write(chain[1])' /\ disk' = paused' /\ (stop' # "none" => paused')
    BY DEF StopInv
  <1> QED BY <1>2, <1>3, <1>4, <1>5 DEF StopInv, Write

LEMMA GateStep == GateInv /\ [Next]_vars => GateInv'
  <1> SUFFICES ASSUME TypeOK, LastWriteTrue, AskedSafe, QueueInv, StopInv, StopNeutral,
                      [Next]_vars
               PROVE  QueueInv' /\ StopInv' /\ StopNeutral'
    BY TypeStep, LastWriteStep, AskedStep DEF GateInv
  <1> USE DEF gate, memory, plant, history
  <1>1. ASSUME UNCHANGED <<stop, paused, disk, dev, doubt>> PROVE StopNeutral'
    BY <1>1 DEF StopNeutral
  <1>2. ASSUME UNCHANGED <<stop, paused, disk, chain>> PROVE QueueInv' /\ StopInv'
    BY <1>2 DEF QueueInv, StopInv, LastStop, Write
  <1>3. ASSUME NEW c \in Evaluations, EvalAsk(c) \/ EvalGoesOn(c) PROVE QueueInv' /\ StopInv' /\ StopNeutral'
    <2>1. UNCHANGED <<stop, paused, disk, dev, doubt>>
      BY <1>3, EvalFacts
    <2>2. CASE UNCHANGED chain
      BY <1>1, <1>2, <2>1, <2>2
    <2>3. ASSUME NEW w \in Values, NEW wish \in Wishes,
                 chain' = Append(chain, Request(c, w, wish.source, None)),
                 wish = Wish \/ (asked[c] # None /\ wish = asked[c]),
                 Mandatory(wish.source) /\ wish.value \in Safe => w \in Safe,
                 paused => Mandatory(wish.source)
          PROVE  QueueInv' /\ StopInv' /\ StopNeutral'
      <3>1. c \in Writers /\ c # "stop" /\ (Mandatory(wish.source) => w \in Safe)
        BY <2>3, WishFacts DEF Writers, Evaluations, AskedSafe
      <3>2. QueueInv' /\ (Mandatory(wish.source) => StopInv')
        BY <2>1, <2>3, <3>1, QueueSend
      <3>3. ~paused => StopInv'
        BY <2>1 DEF StopInv
      <3> QED BY <1>1, <2>1, <2>3, <3>2, <3>3
    <2> QED BY <1>3, <2>2, <2>3, EvalFacts
  <1>4. ASSUME NEW c \in Operators, NEW m \in Commands, Command(c, m)
        PROVE  QueueInv' /\ StopInv' /\ StopNeutral'
    <2> DEFINE w == Gate(m.value, "api_manual_write")
               r == Request(c, w, "api_manual_write", m)
    <2>1. UNCHANGED <<stop, paused, disk, dev, doubt>> /\ w # Refused
      BY <1>4 DEF Command
    <2>2. CASE UNCHANGED chain
      BY <1>1, <1>2, <2>1, <2>2
    <2>3. CASE Send(r)
      <3>1. c \in Writers /\ c # "stop" /\ m.value \in Values /\ ~Mandatory("api_manual_write")
        BY CallersAssumption DEF Writers, Mandatory
      <3>2. w \in Values /\ ~paused
        BY <2>1, <3>1, GateFacts
      <3>3. chain' = Append(chain, r)
        BY <2>3 DEF Send
      <3>4. QueueInv'
        BY <3>1, <3>2, <3>3, QueueSend
      <3>5. StopInv'
        BY <2>1, <3>2 DEF StopInv
      <3> QED BY <1>1, <2>1, <3>4, <3>5
    <2> QED BY <1>4, <2>2, <2>3 DEF Command
  <1>5. CASE Stop
    <2> DEFINE r == Request("stop", 0, "emergency_stop", None)
    <2>1. paused' = TRUE /\ disk' = TRUE /\ UNCHANGED <<dev, doubt, lastWrite>>
      BY <1>5 DEF Stop, persistControlState
    <2>2. CASE /\ Unchanged(0) /\ UNCHANGED chain
               /\ stop' = IF \E i \in DOMAIN chain : Write(chain[i]) /\ ~chain[i].mandatory
                          THEN "raced" ELSE "done"
      <3>1. QueueInv'
        BY <2>2 DEF QueueInv, Write
      <3>2. StopInv'
        BY <2>1, <2>2 DEF StopInv, Write
      <3>3. StopNeutral'
        <4>1. lastWrite = 0 /\ 0 # None
          BY <2>2, ValuesAssumption DEF Unchanged
        <4> QED BY <2>1, <4>1 DEF StopNeutral, LastWriteTrue, Safe
      <3> QED BY <3>1, <3>2, <3>3
    <2>3. CASE stop' = "asked" /\ Send(r)
      <3>1. /\ "stop" \in Writers /\ 0 \in Values /\ Mandatory("emergency_stop")
            /\ 0 \in Safe /\ chain' = Append(chain, r) /\ chain \in Seq(Requests)
        BY <2>3, ValuesAssumption DEF Writers, Mandatory, Safe, Send, TypeOK
      <3>2. /\ QueueInv'
            /\ \A k : LastStop(k)' => k = Len(chain) + 1
        BY <3>1, QueueSend
      <3>3. r \in Requests
        BY <3>1, RequestType
      <3>4. Len(chain) \in Nat /\ DOMAIN chain' = 1 .. (Len(chain) + 1)
        BY <3>1, <3>3, AppendProperties, LenProperties
      <3>5. \A k, i \in DOMAIN chain' : ~(LastStop(k)' /\ k < i)
        BY <3>2, <3>4
      <3>6. StopInv'
        BY <2>1, <2>3, <3>5 DEF StopInv
      <3> QED BY <2>3, <3>2, <3>6 DEF StopNeutral
    <2> QED BY <1>5, <2>2, <2>3 DEF Stop
  <1>6. CASE Resume
    BY <1>6 DEF Resume, persistControlState, QueueInv, StopInv, StopNeutral, Write
  <1>7. CASE WriteOk
    <2>0. UNCHANGED stop \/ (stop = "asked" /\ OfTheStop(Head(chain)) /\ stop' = "done")
      BY <1>7 DEF WriteOk, OfTheStop
    <2>1. /\ QueueInv' /\ StopInv' /\ Head(chain) = chain[1] /\ 1 \in DOMAIN chain
      BY <1>7, <2>0, QueueTake, Removed DEF WriteOk, TypeOK
    <2>2. stop' = "done" => chain[1].mandatory
      BY <1>7, <2>1 DEF WriteOk, OfTheStop, StopInv, QueueInv
    <2> QED BY <1>7, <2>1, <2>2 DEF WriteOk, QueueInv, StopNeutral, Safe, NppLimit
  <1>8. CASE WriteFail
    <2>1. QueueInv' /\ StopInv'
      BY <1>8, QueueTake DEF WriteFail, OfTheStop
    <2>2. stop' = "done" => stop = "done"
      BY <1>8 DEF WriteFail, OfTheStop
    <2> QED BY <1>8, <2>1, <2>2 DEF WriteFail, StopNeutral, Safe, NppLimit
  <1>9. CASE VerifyReads \/ VerifyFails
    <2>1. QueueInv' /\ StopInv'
      BY <1>9, QueueTake DEF VerifyReads, VerifyFails
    <2> QED BY <1>1, <1>9, <2>1 DEF VerifyReads, VerifyFails
  <1>10. CASE VerifyFires
    <2> DEFINE r == [by |-> "verify", value |-> lastWrite, mandatory |-> FALSE,
                     again |-> FALSE, command |-> None, before |-> None]
    <2>1. UNCHANGED <<stop, paused, disk, dev, doubt>>
      BY <1>10 DEF VerifyFires
    <2>2. CASE UNCHANGED chain
      BY <1>1, <1>2, <2>1, <2>2
    <2>3. CASE lastWrite # None /\ Send(r)
      <3>1. /\ r \in Requests /\ ~Write(r) /\ r.mandatory = FALSE /\ r.by # "stop"
            /\ chain \in Seq(Requests) /\ chain' = Append(chain, r)
        BY <2>3 DEF TypeOK, Requests, Write, Send
      <3> HIDE DEF r
      <3>2. \A i \in DOMAIN chain' :
              \/ i \in DOMAIN chain /\ chain'[i] = chain[i]
              \/ i \notin DOMAIN chain /\ i = Len(chain) + 1 /\ chain'[i] = r
        BY <3>1, Appended
      <3>3. QueueInv'
        BY <3>1, <3>2 DEF QueueInv, Write
      <3>4. \A i \in DOMAIN chain : i \in DOMAIN chain' /\ chain'[i] = chain[i]
        BY <3>1, AppendProperties
      <3>5. \A k : LastStop(k)' => LastStop(k)
        BY <3>1, <3>2, <3>4 DEF LastStop
      <3>6. StopInv'
        BY <2>1, <3>1, <3>2, <3>5 DEF StopInv, LastStop, Write
      <3> QED BY <1>1, <2>1, <3>3, <3>6
    <2> QED BY <1>10, <2>2, <2>3 DEF VerifyFires
  <1>11. CASE LateLands \/ Drift
    BY <1>2, <1>11 DEF LateLands, Drift, StopNeutral
  <1>12. CASE Restart
    <2>1. chain' = <<>> /\ QueueInv' /\ paused' = disk /\ disk' = disk /\ doubt' = doubt
      BY <1>12 DEF Restart, loadControlState, QueueInv
    <2>2. stop' = "done" => stop = "done"
      BY <1>12 DEF Restart
    <2>3. StopInv'
      BY <1>12, <2>1 DEF Restart, StopInv
    <2>4. stop = "done" /\ chain # <<>> /\ Write(Head(chain)) => Head(chain).value \in Safe
      <3>1. chain # <<>> => Head(chain) = chain[1] /\ 1 \in DOMAIN chain
        BY HeadTailProperties DEF TypeOK
      <3> QED BY <3>1 DEF StopInv, QueueInv
    <2>5. StopNeutral'
      BY <1>12, <2>1, <2>2, <2>4 DEF Restart, StopNeutral, Safe, NppLimit
    <2> QED BY <2>1, <2>3, <2>5
  <1>13. CASE OverrideEnds \/ KeepaliveDue \/ WorldChanges \/ UNCHANGED vars
    BY <1>1, <1>2, <1>13 DEF OverrideEnds, KeepaliveDue, WorldChanges, vars
  <1> QED BY <1>3, <1>4, <1>5, <1>6, <1>7, <1>8, <1>9, <1>10, <1>11, <1>12, <1>13 DEF Next

(* After an emergency stop that was carried out the register holds 0 or     *)
(* what a mandatory source wrote, also in the next process.                 *)
THEOREM StopIsNeutral == Spec => []StopNeutral
  <1>1. Init => GateInv
    <2>1. Init => LastWriteTrue /\ AskedSafe /\ StopNeutral
      BY DEF Init, LastWriteTrue, AskedSafe, StopNeutral
    <2>2. Init => QueueInv /\ StopInv
      <3>1. Init => DOMAIN chain = {}
        BY DEF Init
      <3> QED BY <3>1 DEF Init, QueueInv, StopInv, Write
    <2> QED BY <2>1, <2>2, TypeInit DEF GateInv
  <1>2. GateInv => StopNeutral
    BY DEF GateInv
  <1> QED BY <1>1, <1>2, GateStep, PTL DEF Spec

(* No stop goes wrong as long as none is skipped with a discretionary write *)
(* in flight.                                                               *)
LEMMA NotRacedStep ==
  ASSUME stop # "raced", [Next]_vars, [StopSeesAll]_vars
  PROVE  stop' # "raced"
  <1>1. CASE Stop
    BY <1>1 DEF Stop, StopSeesAll, vars, history
  <1>2. CASE Resume \/ WriteOk \/ WriteFail \/ Restart
    BY <1>2 DEF Resume, WriteOk, WriteFail, Restart
  <1>3. CASE \/ \E c \in Evaluations : EvalAsk(c) \/ EvalGoesOn(c)
             \/ \E c \in Operators, m \in Commands : Command(c, m)
             \/ OverrideEnds \/ KeepaliveDue \/ VerifyFires \/ VerifyReads \/ VerifyFails
             \/ LateLands \/ Drift \/ WorldChanges \/ UNCHANGED vars
    BY <1>3 DEF EvalAsk, EvalGoesOn, Command, OverrideEnds, KeepaliveDue, VerifyFires, VerifyReads,
                VerifyFails, LateLands, Drift, WorldChanges, vars, history
  <1> QED BY <1>1, <1>2, <1>3 DEF Next

(* A stop that was skipped neutralises like one that was written, if no     *)
(* discretionary write was in flight (setEmergencyStop): the comparison     *)
(* with a last write that another one is about to replace is all that can   *)
(* go wrong.                                                                *)
THEOREM StopSeenNeutralises == Spec /\ [][StopSeesAll]_vars => []StopNeutralises
  <1>1. Init => stop # "raced"
    BY DEF Init
  <1>2. stop # "raced" /\ [Next]_vars /\ [StopSeesAll]_vars => (stop # "raced")'
    BY NotRacedStep
  <1>3. stop # "raced" /\ StopNeutral => StopNeutralises
    BY DEF StopNeutral, StopNeutralises
  <1> QED BY <1>1, <1>2, <1>3, StopIsNeutral, PTL DEF Spec

-------------------------------------------------------------------------------
(* The readback.                                                            *)

(* One read at a time, and unless a write came since, it is of the last one. *)
ReadInv ==
  /\ \A i, j \in DOMAIN chain : chain[i].by = "verify" /\ chain[j].by = "verify" => i = j
  /\ \A i \in DOMAIN chain :
       chain[i].by = "verify" => moved \/ lastWrite = None \/ lastWrite = chain[i].value

LEMMA ReadKept ==
  ASSUME TypeOK, ReadInv, UNCHANGED <<moved, lastWrite>>,
         \/ UNCHANGED chain
         \/ \E r \in Requests : r.by # "verify" /\ chain' = Append(chain, r)
         \/ chain # <<>> /\ chain' = Tail(chain)
  PROVE  ReadInv'
  <1>1. CASE UNCHANGED chain
    BY <1>1 DEF ReadInv
  <1>2. ASSUME NEW r \in Requests, r.by # "verify", chain' = Append(chain, r) PROVE ReadInv'
    <2>1. \A i \in DOMAIN chain' :
            \/ i \in DOMAIN chain /\ chain'[i] = chain[i]
            \/ i \notin DOMAIN chain /\ i = Len(chain) + 1 /\ chain'[i] = r
      BY <1>2, Appended DEF TypeOK
    <2> QED BY <1>2, <2>1 DEF ReadInv
  <1>3. CASE chain # <<>> /\ chain' = Tail(chain)
    <2>1. \A i \in DOMAIN chain' :
            i \in Int /\ i + 1 \in DOMAIN chain /\ i + 1 > 1 /\ chain'[i] = chain[i + 1]
      BY <1>3, Removed DEF TypeOK
    <2>2. \A i, j \in DOMAIN chain' :
            chain'[i].by = "verify" /\ chain'[j].by = "verify" => i = j
      <3> SUFFICES ASSUME NEW i \in DOMAIN chain', NEW j \in DOMAIN chain',
                          chain'[i].by = "verify", chain'[j].by = "verify"
                   PROVE  i = j
        OBVIOUS
      <3>1. i + 1 = j + 1
        BY <2>1 DEF ReadInv
      <3> QED BY <2>1, <3>1
    <2> QED BY <2>1, <2>2 DEF ReadInv
  <1> QED BY <1>1, <1>2, <1>3

LEMMA ReadStep == TypeOK /\ ReadInv /\ [Next]_vars => ReadInv'
  <1> SUFFICES ASSUME TypeOK, ReadInv, [Next]_vars PROVE ReadInv'
    OBVIOUS
  <1> USE DEF gate, memory, plant, history
  <1>1. ASSUME NEW c \in Evaluations, EvalAsk(c) \/ EvalGoesOn(c) PROVE ReadInv'
    <2>1. UNCHANGED <<moved, lastWrite>>
      BY <1>1, EvalFacts
    <2>2. CASE UNCHANGED chain
      BY <2>1, <2>2, ReadKept
    <2>3. ASSUME NEW w \in Values, NEW wish \in Wishes,
                 chain' = Append(chain, Request(c, w, wish.source, None))
          PROVE  ReadInv'
      <3>1. /\ Request(c, w, wish.source, None) \in Requests
            /\ Request(c, w, wish.source, None).by # "verify"
        BY RequestType, NotVerify DEF Writers
      <3> QED BY <2>1, <2>3, <3>1, ReadKept
    <2> QED BY <1>1, <2>2, <2>3, EvalFacts
  <1>2. ASSUME NEW c \in Operators, NEW m \in Commands, Command(c, m) PROVE ReadInv'
    <2> DEFINE w == Gate(m.value, "api_manual_write")
               r == Request(c, w, "api_manual_write", m)
    <2>1. c \in Writers /\ w \in Values
      BY <1>2, CallersAssumption, GateFacts DEF Writers, Command
    <2>2. Send(r) => r \in Requests /\ r.by # "verify" /\ chain' = Append(chain, r)
      BY <2>1, RequestType, NotVerify DEF Send
    <2> HIDE DEF r
    <2>3. UNCHANGED chain \/ Send(r)
      BY <1>2 DEF Command, r
    <2> QED BY <1>2, <2>2, <2>3, ReadKept DEF Command
  <1>3. CASE Stop
    <2> DEFINE r == Request("stop", 0, "emergency_stop", None)
    <2>1. Send(r) => r \in Requests /\ r.by # "verify" /\ chain' = Append(chain, r)
      BY ValuesAssumption, RequestType DEF Writers, Send
    <2> HIDE DEF r
    <2>2. UNCHANGED chain \/ Send(r)
      BY <1>3 DEF Stop, r
    <2> QED BY <1>3, <2>1, <2>2, ReadKept DEF Stop
  <1>4. CASE WriteOk
    <2>1. \A i \in DOMAIN chain' :
            i \in Int /\ i + 1 \in DOMAIN chain /\ i + 1 > 1 /\ chain'[i] = chain[i + 1]
      BY <1>4, Removed DEF WriteOk, TypeOK
    <2>2. \A i, j \in DOMAIN chain' :
            chain'[i].by = "verify" /\ chain'[j].by = "verify" => i = j
      <3> SUFFICES ASSUME NEW i \in DOMAIN chain', NEW j \in DOMAIN chain',
                          chain'[i].by = "verify", chain'[j].by = "verify"
                   PROVE  i = j
        OBVIOUS
      <3>1. i + 1 = j + 1
        BY <2>1 DEF ReadInv
      <3> QED BY <2>1, <3>1
    <2>3. \A i \in DOMAIN chain' : chain'[i].by = "verify" => moved'
      BY <1>4, <2>1 DEF WriteOk, InFlight
    <2> QED BY <2>2, <2>3 DEF ReadInv
  <1>5. CASE WriteFail
    BY <1>5, ReadKept DEF WriteFail
  <1>6. CASE VerifyReads \/ VerifyFails
    <2>1. /\ Head(chain) = chain[1] /\ 1 \in DOMAIN chain /\ chain[1].by = "verify"
          /\ \A i \in DOMAIN chain' :
               i \in Int /\ i + 1 \in DOMAIN chain /\ i + 1 > 1 /\ chain'[i] = chain[i + 1]
      BY <1>6, Removed DEF VerifyReads, VerifyFails, TypeOK, Write
    <2>2. \A i \in DOMAIN chain' : chain'[i].by # "verify"
      BY <2>1 DEF ReadInv
    <2> QED BY <2>2 DEF ReadInv
  <1>7. CASE VerifyFires
    <2> DEFINE r == [by |-> "verify", value |-> lastWrite, mandatory |-> FALSE,
                     again |-> FALSE, command |-> None, before |-> None]
    <2>1. ~InFlight("verify") /\ lastWrite' = lastWrite
      BY <1>7 DEF VerifyFires
    <2>2. CASE UNCHANGED chain
      BY <2>1, <2>2 DEF ReadInv, InFlight
    <2>3. CASE lastWrite # None /\ Send(r)
      <3>1. r \in Requests /\ r.value = lastWrite /\ chain \in Seq(Requests) /\ chain' = Append(chain, r)
        BY <2>3 DEF TypeOK, Requests, Send
      <3> HIDE DEF r
      <3>2. \A i \in DOMAIN chain' :
              \/ i \in DOMAIN chain /\ chain'[i] = chain[i]
              \/ i \notin DOMAIN chain /\ i = Len(chain) + 1 /\ chain'[i] = r
        BY <3>1, Appended
      <3> QED BY <2>1, <3>1, <3>2 DEF ReadInv, InFlight
    <2> QED BY <1>7, <2>2, <2>3 DEF VerifyFires
  <1>8. CASE Restart
    BY <1>8 DEF Restart, ReadInv
  <1>9. CASE OverrideEnds \/ Resume \/ KeepaliveDue \/ LateLands \/ Drift \/ WorldChanges \/ UNCHANGED vars
    BY <1>9, ReadKept DEF OverrideEnds, Resume, KeepaliveDue, LateLands, Drift, WorldChanges, vars
  <1> QED BY <1>1, <1>2, <1>3, <1>4, <1>5, <1>6, <1>7, <1>8, <1>9 DEF Next

(* The readback forgets a write only when the register really differs, in   *)
(* every order in which the read and later writes are settled.              *)
THEOREM ReadbackIsHonest == Spec => VerifyHonest
  <1> DEFINE A == (lastWrite # None /\ lastWrite' = None /\ ~Restart) => dev # lastWrite
  <1>1. Init => ReadInv
    BY DEF Init, ReadInv
  <1>2. TypeOK /\ ReadInv /\ [Next]_vars => [A]_vars
    <2> SUFFICES ASSUME TypeOK, ReadInv, Next, lastWrite # None, lastWrite' = None, ~Restart
                 PROVE  dev # lastWrite
      OBVIOUS
    <2>1. CASE WriteOk
      <3>1. Head(chain) \in Requests
        BY <2>1, HeadTailProperties DEF WriteOk, TypeOK
      <3>2. lastWrite' \in Values
        BY <2>1, <3>1 DEF WriteOk, Record, Requests
      <3> QED BY <3>2, ValuesAssumption
    <2>2. CASE VerifyReads
      <3>1. Head(chain) = chain[1] /\ 1 \in DOMAIN chain /\ chain[1].by = "verify"
        BY <2>2, HeadTailProperties DEF VerifyReads, TypeOK, Write
      <3> QED BY <2>2, <3>1 DEF VerifyReads, Superseded, ReadInv
    <2>3. CASE \/ \E c \in Evaluations : EvalAsk(c) \/ EvalGoesOn(c)
               \/ \E c \in Operators, m \in Commands : Command(c, m)
               \/ OverrideEnds \/ Stop \/ Resume \/ WriteFail \/ KeepaliveDue
               \/ VerifyFires \/ VerifyFails \/ LateLands \/ Drift \/ WorldChanges
      BY <2>3 DEF EvalAsk, EvalGoesOn, Command, OverrideEnds, Stop, Resume, WriteFail, KeepaliveDue,
                  VerifyFires, VerifyFails, LateLands, Drift, WorldChanges, gate, memory
    <2> QED BY <2>1, <2>2, <2>3 DEF Next
  <1> QED BY <1>1, <1>2, ReadStep, TypeCorrect, PTL DEF Spec, VerifyHonest

-------------------------------------------------------------------------------
(* Commands that failed, of operators who do not overlap.                   *)

(* What a command in flight would give back is what was in force before it. *)
CommandInv ==
  /\ FailedHasNoEffect
  /\ \A i, j \in DOMAIN chain :
       chain[i].by \in Operators /\ chain[j].by \in Operators => i = j
  /\ \A i \in DOMAIN chain : chain[i].by \in Operators =>
       override \in {None, chain[i].command} /\ chain[i].before \in {None, granted}

LEMMA NotOperator == Operators \intersect (Evaluations \union {"stop", "verify"}) = {}
  BY CallersAssumption DEF Evaluations

(* Steps that let the commands alone.                                       *)
LEMMA CommandKept ==
  ASSUME TypeOK, CommandInv, granted' = granted, override' \in {None, override},
         \/ UNCHANGED chain
         \/ \E r \in Requests : r.by \notin Operators /\ chain' = Append(chain, r)
         \/ chain # <<>> /\ chain[1].by \notin Operators /\ chain' = Tail(chain)
  PROVE  CommandInv'
  <1>1. CASE UNCHANGED chain
    BY <1>1 DEF CommandInv, FailedHasNoEffect, InFlight
  <1>2. ASSUME NEW r \in Requests, r.by \notin Operators, chain' = Append(chain, r) PROVE CommandInv'
    <2>1. \A i \in DOMAIN chain' :
            \/ i \in DOMAIN chain /\ chain'[i] = chain[i]
            \/ i \notin DOMAIN chain /\ i = Len(chain) + 1 /\ chain'[i] = r
      BY <1>2, Appended DEF TypeOK
    <2>2. \A i \in DOMAIN chain : i \in DOMAIN chain' /\ chain'[i] = chain[i]
      BY <1>2, AppendProperties DEF TypeOK
    <2>3. FailedHasNoEffect'
      BY <2>2 DEF CommandInv, FailedHasNoEffect, InFlight
    <2> QED BY <1>2, <2>1, <2>3 DEF CommandInv
  <1>3. CASE chain # <<>> /\ chain[1].by \notin Operators /\ chain' = Tail(chain)
    <2>1. \A i \in DOMAIN chain' :
            i \in Int /\ i + 1 \in DOMAIN chain /\ i + 1 > 1 /\ chain'[i] = chain[i + 1]
      BY <1>3, Removed DEF TypeOK
    <2>2. \A i \in DOMAIN chain : i # 1 => \E j \in DOMAIN chain' : chain'[j] = chain[i]
      <3> SUFFICES ASSUME NEW i \in DOMAIN chain, i # 1
                   PROVE  i - 1 \in DOMAIN chain' /\ chain'[i - 1] = chain[i]
        OBVIOUS
      <3> QED BY <1>3, HeadTailProperties DEF TypeOK
    <2>3. FailedHasNoEffect'
      BY <1>3, <2>2 DEF CommandInv, FailedHasNoEffect, InFlight
    <2>4. \A i, j \in DOMAIN chain' :
            chain'[i].by \in Operators /\ chain'[j].by \in Operators => i = j
      <3> SUFFICES ASSUME NEW i \in DOMAIN chain', NEW j \in DOMAIN chain',
                          chain'[i].by \in Operators, chain'[j].by \in Operators
                   PROVE  i = j
        OBVIOUS
      <3>1. i + 1 = j + 1
        BY <2>1 DEF CommandInv
      <3> QED BY <2>1, <3>1
    <2> QED BY <2>1, <2>3, <2>4 DEF CommandInv
  <1> QED BY <1>1, <1>2, <1>3

LEMMA CommandStep == TypeOK /\ CommandInv /\ [Next /\ CommandsApart]_vars => CommandInv'
  <1> SUFFICES ASSUME TypeOK, CommandInv, [Next /\ CommandsApart]_vars PROVE CommandInv'
    OBVIOUS
  <1> USE DEF gate, memory, plant, history
  <1>1. ASSUME NEW c \in Evaluations, EvalAsk(c) \/ EvalGoesOn(c) PROVE CommandInv'
    <2>1. UNCHANGED granted /\ override' \in {None, override}
      BY <1>1, EvalFacts
    <2>2. CASE UNCHANGED chain
      BY <2>1, <2>2, CommandKept
    <2>3. ASSUME NEW w \in Values, NEW wish \in Wishes,
                 chain' = Append(chain, Request(c, w, wish.source, None))
          PROVE  CommandInv'
      <3>1. /\ Request(c, w, wish.source, None) \in Requests
            /\ Request(c, w, wish.source, None).by \notin Operators
        BY RequestType, NotOperator DEF Writers
      <3> QED BY <2>1, <2>3, <3>1, CommandKept
    <2> QED BY <1>1, <2>2, <2>3, EvalFacts
  <1>2. ASSUME CommandsApart, NEW c \in Operators, NEW m \in Commands, Command(c, m)
        PROVE  CommandInv'
    <2> DEFINE w == Gate(m.value, "api_manual_write")
               r == Request(c, w, "api_manual_write", m)
    <2>1. \A d \in Operators : ~InFlight(d)
      BY <1>2 DEF CommandsApart
    <2>2. /\ \A i \in DOMAIN chain : chain[i].by \notin Operators
          /\ override \in {None, granted} /\ override' = m
      BY <1>2, <2>1 DEF InFlight, CommandInv, FailedHasNoEffect, Command
    <2>3. CASE granted' = m /\ UNCHANGED chain
      BY <2>2, <2>3 DEF CommandInv, FailedHasNoEffect
    <2>4. CASE Send(r) /\ UNCHANGED granted
      <3>1. c \in Writers /\ w \in Values
        BY <1>2, CallersAssumption, GateFacts DEF Writers, Command
      <3>2. /\ r \in Requests /\ r.by = c /\ r.command = m /\ r.before = override
            /\ chain' = Append(chain, r)
        BY <2>4, <3>1, RequestType DEF Send
      <3> HIDE DEF r
      <3>3. \A i \in DOMAIN chain' :
              \/ i \in DOMAIN chain /\ chain'[i] = chain[i]
              \/ i \notin DOMAIN chain /\ i = Len(chain) + 1 /\ chain'[i] = r
        BY <3>2, Appended DEF TypeOK
      <3>4. Len(chain) + 1 \in DOMAIN chain' /\ chain'[Len(chain) + 1] = r
        BY <3>2, AppendProperties DEF TypeOK
      <3>5. FailedHasNoEffect'
        BY <3>2, <3>4 DEF FailedHasNoEffect, InFlight
      <3> QED BY <2>2, <2>4, <3>2, <3>3, <3>5 DEF CommandInv
    <2> QED BY <1>2, <2>3, <2>4 DEF Command
  <1>3. CASE Stop
    <2> DEFINE r == Request("stop", 0, "emergency_stop", None)
    <2>1. Send(r) => r \in Requests /\ r.by \notin Operators /\ chain' = Append(chain, r)
      <3>1. "stop" \in Writers /\ "stop" \notin Operators /\ 0 \in Values
            /\ None \in Commands \union {None}
        BY ValuesAssumption, NotOperator DEF Writers
      <3>2. r \in Requests /\ r.by = "stop"
        BY <3>1, RequestType
      <3> HIDE DEF r
      <3> QED BY <3>1, <3>2 DEF Send
    <2> HIDE DEF r
    <2>2. UNCHANGED chain \/ Send(r)
      BY <1>3 DEF Stop, r
    <2> QED BY <1>3, <2>1, <2>2, CommandKept DEF Stop
  <1>4. CASE WriteOk \/ WriteFail
    <2>1. /\ Head(chain) = chain[1] /\ 1 \in DOMAIN chain /\ chain # <<>> /\ chain' = Tail(chain)
          /\ \A i \in DOMAIN chain' :
               i \in Int /\ i + 1 \in DOMAIN chain /\ i + 1 > 1 /\ chain'[i] = chain[i + 1]
      BY <1>4, Removed DEF WriteOk, WriteFail, TypeOK
    <2>2. CASE chain[1].by \in Operators
      <3>1. \A i \in DOMAIN chain' : chain'[i].by \notin Operators
        BY <2>1, <2>2 DEF CommandInv
      <3>2. \/ granted' = chain[1].command /\ override' = override
            \/ granted' = granted /\ override' = chain[1].before
        BY <1>4, <2>1, <2>2 DEF WriteOk, WriteFail, Restore
      <3>3. /\ override \in {None, chain[1].command}
            /\ chain[1].before \in {None, granted}
        BY <2>1, <2>2 DEF CommandInv
      <3> QED BY <3>1, <3>2, <3>3 DEF CommandInv, FailedHasNoEffect
    <2>3. CASE chain[1].by \notin Operators
      <3>1. granted' = granted /\ override' = override
        BY <1>4, <2>1, <2>3 DEF WriteOk, WriteFail, Restore
      <3> QED BY <2>1, <2>3, <3>1, CommandKept
    <2> QED BY <2>2, <2>3
  <1>5. CASE VerifyReads \/ VerifyFails
    <2>1. Head(chain) = chain[1] /\ chain[1].by \notin Operators
      BY <1>5, Removed, NotOperator DEF VerifyReads, VerifyFails, TypeOK, Write
    <2> QED BY <1>5, <2>1, CommandKept DEF VerifyReads, VerifyFails
  <1>6. CASE VerifyFires
    <2> DEFINE r == [by |-> "verify", value |-> lastWrite, mandatory |-> FALSE,
                     again |-> FALSE, command |-> None, before |-> None]
    <2>1. lastWrite # None /\ Send(r) =>
            r \in Requests /\ r.by \notin Operators /\ chain' = Append(chain, r)
      BY NotOperator DEF TypeOK, Requests, Send
    <2> HIDE DEF r
    <2>2. UNCHANGED chain \/ (lastWrite # None /\ Send(r))
      BY <1>6 DEF VerifyFires, r
    <2> QED BY <1>6, <2>1, <2>2, CommandKept DEF VerifyFires
  <1>7. CASE Restart
    BY <1>7 DEF Restart, CommandInv, FailedHasNoEffect
  <1>8. CASE OverrideEnds \/ Resume \/ KeepaliveDue \/ LateLands \/ Drift \/ WorldChanges \/ UNCHANGED vars
    BY <1>8, CommandKept DEF OverrideEnds, Resume, KeepaliveDue, LateLands, Drift, WorldChanges, vars
  <1> QED BY <1>1, <1>2, <1>3, <1>4, <1>5, <1>6, <1>7, <1>8 DEF Next

(* While no operator commands during a command that is under way, what was  *)
(* reported as failed never becomes the override in force, however many     *)
(* they are (applyManualControlWrite).  One who commands a value that needs *)
(* no write is answered at once, and a failure of the other command then    *)
(* gives back what was in force before both.                                *)
THEOREM FailedIsWithoutEffect == Spec /\ [][CommandsApart]_vars => []FailedHasNoEffect
  <1>1. Init => CommandInv
    BY DEF Init, CommandInv, FailedHasNoEffect
  <1>2. CommandInv => FailedHasNoEffect
    BY DEF CommandInv
  <1>3. TypeOK /\ CommandInv /\ [Next]_vars /\ [CommandsApart]_vars => CommandInv'
    BY CommandStep
  <1> QED BY <1>1, <1>2, <1>3, TypeCorrect, PTL DEF Spec

===============================================================================
