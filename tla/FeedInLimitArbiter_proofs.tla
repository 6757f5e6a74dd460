---------------------- MODULE FeedInLimitArbiter_proofs ----------------------
(***************************************************************************)
(* Proofs about FeedInLimitArbiter, for any sources and limits and any     *)
(* length of the chain, through failed writes, restarts and changes at the *)
(* inverter by others.                                                     *)
(*                                                                         *)
(* AppliedTrue is not inductive: a lift without a backup writes nothing,   *)
(* so one has to know that the inverter then holds the customer's value    *)
(* (LimitUndoable).  Settled holds as long as calls do not overlap with a  *)
(* write, and after a write that makes up for it; then the chain has at    *)
(* most one write, whose target is the smallest active limit (SerialChain).*)
(***************************************************************************)
EXTENDS FeedInLimitArbiter, WellFoundedInduction, TLAPS

(* Whatever DVhub has written at the limiter can be undone.                 *)
LimitUndoable == (limiter # None /\ ~drifted) => backup

AppliedInv == AppliedTrue /\ LimitUndoable

(* A step keeps AppliedTrue: only a confirmed write moves applied, and it   *)
(* leaves its target, or the customer's value, in the inverter.             *)
LEMMA AppliedStep ==
  ASSUME AppliedInv, [Next]_vars
  PROVE  AppliedInv'
  <1>1. CASE \E s \in Sources, w \in Values : SourceCommand(s, w)
    BY <1>1 DEF SourceCommand, Command, inverter, AppliedInv, AppliedTrue, LimitUndoable
  <1>2. CASE (\E w \in Caps : CapConfigured(w)) \/ (\E w \in Values : Drift(w))
    BY <1>2 DEF CapConfigured, Drift, arbiter, inverter, AppliedInv, AppliedTrue, LimitUndoable
  <1>3. CASE CapTick \/ CapReadback
    BY <1>3 DEF CapTick, CapReadback, Command, Reapply, inverter, AppliedInv, AppliedTrue, LimitUndoable
  <1>4. CASE WriteOk
    BY <1>4 DEF WriteOk, Writes, AppliedInv, AppliedTrue, LimitUndoable
  <1>5. CASE WriteFail
    BY <1>5 DEF WriteFail, Writes, inverter, AppliedInv, AppliedTrue, LimitUndoable
  <1>6. CASE Restart
    BY <1>6 DEF Restart, inverter, AppliedInv, AppliedTrue, LimitUndoable
  <1>7. CASE UNCHANGED vars
    BY <1>7 DEF vars, AppliedInv, AppliedTrue, LimitUndoable
  <1> QED BY <1>1, <1>2, <1>3, <1>4, <1>5, <1>6, <1>7 DEF Next

(* What a command compares with to spare a write is what the inverter       *)
(* holds, unless the last write failed (the short-circuit in set()).        *)
THEOREM AppliedIsTrue == Spec => []AppliedTrue
  <1>1. Init => AppliedInv
    BY DEF Init, AppliedInv, AppliedTrue, LimitUndoable
  <1>2. AppliedInv /\ [Next]_vars => AppliedInv'
    BY AppliedStep
  <1>3. AppliedInv => AppliedTrue
    BY DEF AppliedInv
  <1> QED BY <1>1, <1>2, <1>3, PTL DEF Spec

-----------------------------------------------------------------------------
(* Without overlap at most one write is in the chain.  It is for the        *)
(* smallest active limit, and so was the last one when the chain is empty   *)
(* and it succeeded.                                                        *)
SerialChain ==
  ~overlap =>
    /\ \/ chain = <<>>
       \/ \E who : chain = <<[target |-> Effective(sources), waiting |-> who]>>
    /\ (chain = <<>> /\ ~rejected /\ applied # Undef) => applied = Effective(sources)

SerialInv == AppliedInv /\ SerialChain

(* A command keeps SerialChain: it spares its write only for what was       *)
(* written last, and an empty chain has nothing else to come.               *)
LEMMA CommandSerial ==
  ASSUME SerialChain, NEW s, NEW w, Command(s, w)
  PROVE  SerialChain'
  <1>. SUFFICES ASSUME ~overlap' PROVE SerialChain'
    BY DEF SerialChain
  <1>1. ~overlap /\ chain = <<>> /\ UNCHANGED <<applied, rejected>>
    BY DEF Command, Called
  <1>2. CASE Unneeded(Effective(sources'))
    BY <1>1, <1>2 DEF Command, Join, Unneeded, SerialChain, Effective, Active
  <1>3. CASE ~Unneeded(Effective(sources'))
    <2>1. chain' = <<[target |-> Effective(sources'), waiting |-> Awaits(s, w)]>>
      BY <1>1, <1>3 DEF Command, Enqueue
    <2>2. chain' # <<>>
      BY <2>1
    <2> QED BY <2>1, <2>2 DEF SerialChain
  <1> QED BY <1>2, <1>3

(* Every step keeps SerialChain.                                            *)
LEMMA SerialStep ==
  ASSUME SerialChain, [Next]_vars
  PROVE  SerialChain'
  <1>1. CASE \E s \in Sources, w \in Values : SourceCommand(s, w)
    BY <1>1, CommandSerial DEF SourceCommand
  <1>2. CASE (\E w \in Caps : CapConfigured(w)) \/ (\E w \in Values : Drift(w))
    <2>1. UNCHANGED arbiter
      BY <1>2 DEF CapConfigured, Drift
    <2> QED BY <2>1 DEF SerialChain, Effective, Active, arbiter
  <1>3. CASE CapTick
    BY <1>3, CommandSerial DEF CapTick
  <1>4. CASE CapReadback
    <2>. SUFFICES ASSUME ~overlap' PROVE SerialChain'
      BY DEF SerialChain
    <2>1. chain = <<>> /\ UNCHANGED <<sources, applied, rejected>>
      BY <1>4 DEF CapReadback, Reapply, Called
    <2>2. chain' = <<[target |-> Effective(sources), waiting |-> {"fixed"}]>>
      BY <1>4, <2>1 DEF CapReadback, Reapply, Enqueue
    <2>3. chain' # <<>>
      BY <2>2
    <2> QED BY <2>1, <2>2, <2>3 DEF SerialChain, Effective, Active
  <1>5. CASE WriteOk \/ WriteFail
    <2>. SUFFICES ASSUME ~overlap' PROVE SerialChain'
      BY DEF SerialChain
    <2>0. CASE overlap
      <3>1. WriteOk /\ chain' = <<>> /\ Head(chain).target = Effective(sources)
        BY <1>5, <2>0 DEF WriteOk, WriteFail
      <3>2. sources' = sources /\ applied' = Effective(sources)
        BY <3>1 DEF WriteOk
      <3> QED BY <3>1, <3>2 DEF SerialChain, Effective, Active
    <2>. SUFFICES ASSUME ~overlap PROVE SerialChain'
      BY <2>0
    <2>1. PICK who : chain = <<[target |-> Effective(sources), waiting |-> who]>>
      BY <1>5 DEF WriteOk, WriteFail, SerialChain
    <2>2. Head(chain).target = Effective(sources) /\ Tail(chain) = <<>>
      BY <2>1
    <2>3. chain' = <<>> /\ sources' = sources
      BY <1>5, <2>2 DEF WriteOk, WriteFail
    <2>4. WriteOk => applied' = Effective(sources)
      BY <2>2 DEF WriteOk
    <2>5. WriteFail => rejected'
      BY DEF WriteFail
    <2> QED BY <1>5, <2>3, <2>4, <2>5 DEF SerialChain, Effective, Active
  <1>6. CASE Restart
    BY <1>6 DEF Restart, SerialChain
  <1>7. CASE UNCHANGED vars
    BY <1>7 DEF vars, SerialChain, Effective, Active
  <1> QED BY <1>1, <1>2, <1>3, <1>4, <1>5, <1>6, <1>7 DEF Next

(* As long as no call comes while a write is in flight, and again after the *)
(* next write that is the last and for the limit of now, the smallest       *)
(* active limit applies as soon as the writes have succeeded.               *)
THEOREM SerialSettled == Spec => []Settled
  <1>1. Init => SerialInv
    BY DEF Init, SerialInv, SerialChain, AppliedInv, AppliedTrue, LimitUndoable
  <1>2. SerialInv /\ [Next]_vars => SerialInv'
    BY AppliedStep, SerialStep DEF SerialInv
  <1>3. SerialInv => Settled
    BY DEF SerialInv, SerialChain, AppliedInv, AppliedTrue, Settled
  <1> QED BY <1>1, <1>2, <1>3, PTL DEF Spec
-----------------------------------------------------------------------------
(* A set of limits that is not empty has a smallest one.                    *)
LEMMA MinFacts ==
  ASSUME NEW S \in SUBSET Limits, S # {}
  PROVE  Min(S) \in S /\ \A y \in S : Min(S) <= y
  <1>1. S \subseteq Nat
    BY LimitsAssumption
  <1>2. \E x \in S : \A y \in S : <<y, x>> \notin OpToRel(<, Nat)
    BY <1>1, WFMin, NatLessThanWellFounded
  <1>3. PICK x \in S : \A y \in S : ~(y < x)
    BY <1>1, <1>2 DEF OpToRel
  <1>4. \A y \in S : x <= y
    BY <1>1, <1>3
  <1> QED BY <1>4 DEF Min

(* So the effective limit is one of the limits, or none.                    *)
LEMMA EffectiveFacts ==
  ASSUME NEW src \in [Sources -> Values]
  PROVE  Effective(src) \in Values
  <1>1. Active(src) \subseteq Limits
    BY DEF Active, Values
  <1> QED BY <1>1, MinFacts DEF Effective, Values

Writings == [target : Values, waiting : SUBSET Sources]

(* A write that is appended, or a caller that joins the last one, keeps the *)
(* type and the bound of the chain.                                         *)
LEMMA ChainFacts ==
  ASSUME chain \in Seq(Writings), Len(chain) <= MaxChain, NEW who \in SUBSET Sources
  PROVE  /\ Join(who) => chain' \in Seq(Writings) /\ Len(chain') <= MaxChain
         /\ \A w \in Values : Enqueue(w, who) /\ Len(chain) < MaxChain
               => chain' \in Seq(Writings) /\ Len(chain') <= MaxChain
  <1>0. MaxChain \in Nat
    BY MaxChainAssumption
  <1>1. ASSUME Join(who)
        PROVE  chain' \in Seq(Writings) /\ Len(chain') <= MaxChain
    <2>1. CASE chain = <<>>
      BY <2>1, <1>1 DEF Join
    <2>2. CASE chain # <<>>
      <3>1. Len(chain) \in 1 .. Len(chain) /\ chain[Len(chain)] \in Writings
        BY <2>2
      <3>. DEFINE e == [chain[Len(chain)] EXCEPT !.waiting = @ \union who]
      <3>2. e \in Writings
        BY <3>1 DEF Writings
      <3>3. chain' = [chain EXCEPT ![Len(chain)] = e]
        BY <1>1, <2>2, <3>1 DEF Join
      <3> HIDE DEF e
      <3> QED BY <3>1, <3>2, <3>3
    <2> QED BY <2>1, <2>2
  <1>2. ASSUME NEW w \in Values, Enqueue(w, who), Len(chain) < MaxChain
        PROVE  chain' \in Seq(Writings) /\ Len(chain') <= MaxChain
    <2>1. [target |-> w, waiting |-> who] \in Writings
      BY DEF Writings
    <2>2. chain' = Append(chain, [target |-> w, waiting |-> who])
      BY <1>2 DEF Enqueue
    <2> QED BY <2>1, <2>2, <1>0, <1>2
  <1> QED BY <1>1, <1>2

(* A command keeps the types of the arbiter.                                *)
LEMMA CommandTypes ==
  ASSUME TypeOK, NEW s \in Sources, NEW w \in Values, Command(s, w)
  PROVE  /\ sources' \in [Sources -> Values]
         /\ chain' \in Seq(Writings) /\ Len(chain') <= MaxChain
         /\ overlap' \in BOOLEAN
  <1>1. sources' \in [Sources -> Values] /\ overlap' \in BOOLEAN /\ Len(chain) < MaxChain
    BY DEF Command, Called, TypeOK
  <1>2. Effective(sources') \in Values /\ Awaits(s, w) \in SUBSET Sources
    BY <1>1, EffectiveFacts DEF Awaits
  <1>3. Join(Awaits(s, w)) \/ Enqueue(Effective(sources'), Awaits(s, w))
    BY DEF Command
  <1> QED BY <1>1, <1>2, <1>3, ChainFacts DEF TypeOK, Writings

(* Every step keeps the types.                                              *)
LEMMA TypeStep ==
  ASSUME TypeOK, [Next]_vars
  PROVE  TypeOK'
  <1>1. CASE \E s \in Sources, w \in Values : SourceCommand(s, w)
    BY <1>1, CommandTypes DEF SourceCommand, Command, inverter, TypeOK, Writings
  <1>2. CASE (\E w \in Caps : CapConfigured(w)) \/ (\E w \in Values : Drift(w))
    BY <1>2 DEF CapConfigured, Drift, arbiter, inverter, TypeOK
  <1>3. CASE CapTick
    <2>1. "fixed" \in Sources /\ cap \in Values
      BY SourcesAssumption, CapsAssumption DEF TypeOK, Values
    <2> QED BY <1>3, <2>1, CommandTypes DEF CapTick, Command, inverter, TypeOK, Writings
  <1>4. CASE CapReadback
    <2>1. {"fixed"} \in SUBSET Sources /\ Effective(sources) \in Values
      BY SourcesAssumption, EffectiveFacts DEF TypeOK
    <2>2. Enqueue(Effective(sources), {"fixed"}) /\ Len(chain) < MaxChain
      BY <1>4 DEF CapReadback, Reapply
    <2>3. chain' \in Seq(Writings) /\ Len(chain') <= MaxChain
      BY <2>1, <2>2, ChainFacts DEF TypeOK, Writings
    <2> QED BY <1>4, <2>3 DEF CapReadback, Reapply, Called, inverter, TypeOK, Writings
  <1>5. CASE WriteOk \/ WriteFail
    <2>1. chain \in Seq(Writings) /\ chain # <<>> /\ Len(chain) <= MaxChain
          /\ MaxChain \in Nat
      BY <1>5, MaxChainAssumption DEF WriteOk, WriteFail, TypeOK, Writings
    <2>2. /\ chain' = Tail(chain) /\ Tail(chain) \in Seq(Writings)
          /\ Len(Tail(chain)) = Len(chain) - 1 /\ Head(chain) \in Writings
      BY <1>5, <2>1 DEF WriteOk, WriteFail
    <2>3. chain' \in Seq(Writings) /\ Len(chain') <= MaxChain
      BY <2>1, <2>2
    <2>4. Head(chain).target \in Values
      BY <2>2 DEF Writings
    <2>5. CASE WriteOk
      BY <2>3, <2>4, <2>5 DEF WriteOk, Writes, TypeOK, Writings
    <2>6. CASE WriteFail
      BY <2>3, <2>4, <2>6 DEF WriteFail, inverter, TypeOK, Writings
    <2> QED BY <1>5, <2>5, <2>6
  <1>6. CASE Restart
    <2>1. chain' = <<>> /\ <<>> \in Seq(Writings) /\ Len(<<>>) <= MaxChain
      BY <1>6, MaxChainAssumption DEF Restart
    <2>2. sources' \in [Sources -> Values] /\ applied' \in Values \union {Undef}
      BY <1>6 DEF Restart, Values
    <2>3. rejected' = FALSE /\ overlap' = FALSE /\ UNCHANGED <<inverter, cap>>
      BY <1>6 DEF Restart
    <2> QED BY <2>1, <2>2, <2>3 DEF inverter, TypeOK, Writings
  <1>7. CASE UNCHANGED vars
    BY <1>7 DEF vars, TypeOK
  <1> QED BY <1>1, <1>2, <1>3, <1>4, <1>5, <1>6, <1>7 DEF Next

(* The variables keep their types; in particular the effective limit is one *)
(* that some source has set, and a write of the chain never has another.    *)
THEOREM TypeCorrect == Spec => []TypeOK
  <1>1. Init => TypeOK
    <2> SUFFICES ASSUME Init PROVE TypeOK
      OBVIOUS
    <2>1. chain = <<>> /\ <<>> \in Seq(Writings) /\ Len(<<>>) <= MaxChain
      BY MaxChainAssumption DEF Init
    <2>2. sources \in [Sources -> Values] /\ applied \in Values \union {Undef}
      BY DEF Init, Values
    <2>3. /\ rejected = FALSE /\ overlap = FALSE /\ limiter \in Values
          /\ backup = FALSE /\ drifted = FALSE /\ cap \in Caps
      BY DEF Init, Values
    <2> QED BY <2>1, <2>2, <2>3 DEF TypeOK, Writings
  <1>2. TypeOK /\ [Next]_vars => TypeOK'
    BY TypeStep
  <1> QED BY <1>1, <1>2, PTL DEF Spec

-----------------------------------------------------------------------------
(* The first process, before its first write has succeeded: no limit has    *)
(* been asked for, or its write is on the way, or it has failed; and the    *)
(* inverter holds the customer's value.                                     *)
FirstProcess ==
  (applied = Undef /\ ~rejected) =>
    /\ ~drifted => limiter = None
    /\ (~overlap /\ chain = <<>>) => Effective(sources) = None

LEMMA FirstStep ==
  ASSUME TypeOK, TypeOK', FirstProcess, [Next]_vars, [~Restart]_vars
  PROVE  FirstProcess'
  <1>1. ASSUME NEW s, NEW w, Command(s, w), UNCHANGED inverter PROVE FirstProcess'
    <2>. SUFFICES ASSUME applied' = Undef, ~rejected'
                  PROVE  /\ ~drifted' => limiter' = None
                         /\ chain' = <<>> => Effective(sources') = None
      BY DEF FirstProcess, Effective, Active
    <2>1. applied = Undef /\ (~drifted' => limiter' = None)
      BY <1>1 DEF Command, FirstProcess, inverter
    <2>2. CASE Unneeded(Effective(sources'))
      <3>1. Effective(sources') \in Values
        BY EffectiveFacts DEF TypeOK
      <3>2. Effective(sources') = None
        BY <2>1, <2>2, <3>1, NoneAssumption DEF Unneeded, Values
      <3> QED BY <2>1, <3>2
    <2>3. CASE ~Unneeded(Effective(sources'))
      <3>1. chain' = Append(chain, [target |-> Effective(sources'), waiting |-> Awaits(s, w)])
        BY <1>1, <2>3 DEF Command, Enqueue
      <3>2. chain' # <<>>
        BY <3>1 DEF TypeOK
      <3> QED BY <2>1, <3>2
    <2> QED BY <2>2, <2>3
  <1>2. CASE (\E s \in Sources, w \in Values : SourceCommand(s, w)) \/ CapTick
    BY <1>1, <1>2 DEF SourceCommand, CapTick
  <1>3. CASE \E w \in Caps : CapConfigured(w)
    BY <1>3 DEF CapConfigured, arbiter, inverter, FirstProcess, Effective, Active
  <1>4. CASE \E w \in Values : Drift(w)
    BY <1>4 DEF Drift, arbiter, FirstProcess, Effective, Active
  <1>5. CASE CapReadback
    <2>1. chain' = Append(chain, [target |-> Effective(sources), waiting |-> {"fixed"}])
          /\ UNCHANGED <<applied, rejected, inverter>>
      BY <1>5 DEF CapReadback, Reapply, Enqueue
    <2>2. chain' # <<>>
      BY <2>1 DEF TypeOK
    <2> QED BY <2>1, <2>2 DEF FirstProcess, inverter
  <1>6. CASE WriteOk
    <2>1. Head(chain).target \in Values
      <3>1. chain \in Seq(Writings) /\ chain # <<>>
        BY <1>6 DEF WriteOk, TypeOK, Writings
      <3>2. Head(chain) \in Writings
        BY <3>1
      <3> QED BY <3>2 DEF Writings
    <2>2. applied' # Undef
      BY <1>6, <2>1, NoneAssumption DEF WriteOk, Values
    <2> QED BY <2>2 DEF FirstProcess
  <1>7. CASE WriteFail
    BY <1>7 DEF WriteFail, FirstProcess
  <1>8. CASE UNCHANGED vars
    BY <1>8 DEF vars, FirstProcess, Effective, Active
  <1>9. CASE Restart
    BY <1>8, <1>9
  <1> QED BY <1>2, <1>3, <1>4, <1>5, <1>6, <1>7, <1>8, <1>9 DEF Next

(* In the first process the smallest active limit applies, or the           *)
(* customer's value when there is none, from the start on: before the first *)
(* write as well.  So a limit that is left behind while no source limits    *)
(* comes from a restart, and from nothing else.                             *)
THEOREM OneProcessIsSettled == Spec /\ [][~Restart]_vars => []SettledFromStart
  <1>1. Init => SerialInv /\ FirstProcess
    <2>. SUFFICES ASSUME Init PROVE SerialInv /\ Effective(sources) = None
      BY DEF Init, FirstProcess
    <2>1. Active(sources) = {}
      BY DEF Init, Active
    <2> QED BY <2>1 DEF Init, SerialInv, SerialChain, AppliedInv, AppliedTrue, LimitUndoable,
                        Effective
  <1>2. SerialInv /\ [Next]_vars => SerialInv'
    BY AppliedStep, SerialStep DEF SerialInv
  <1>3. TypeOK /\ TypeOK' /\ FirstProcess /\ [Next]_vars /\ [~Restart]_vars => FirstProcess'
    BY FirstStep
  <1>4. SerialInv /\ FirstProcess => SettledFromStart
    BY DEF SerialInv, SerialChain, AppliedInv, AppliedTrue, FirstProcess, SettledFromStart
  <1> QED BY <1>1, <1>2, <1>3, <1>4, TypeCorrect, PTL DEF Spec

=============================================================================
