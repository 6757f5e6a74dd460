-------------------------- MODULE ZeroFeedIn_proofs --------------------------
(***************************************************************************)
(* Proofs about ZeroFeedIn, for any callers, any number of points of a     *)
(* block, any values, any number of failures and restarts.  What the loops *)
(* write to the point they share with the block is shown to keep the       *)
(* invariant of DvControl (IInv): a loop writes only while the cache says  *)
(* "block", so that the customer's value is saved and nothing is just      *)
(* being saved.                                                            *)
(***************************************************************************)
EXTENDS ZeroFeedIn, DvControl_proofs

(* The lists of requests there are.  A tick for the shared point makes that *)
(* request first; "off" comes last and, if it leaves the throttle during a  *)
(* block, after "charge".                                                   *)
ZList(r) ==
  /\ r \in Seq(Requests)
  /\ \A i \in 1 .. Len(r) :
        /\ Shared(r[i]) => i = 1
        /\ r[i] = "off" => /\ i = Len(r)
                           /\ i > 1 => r[i - 1] = "charge"
FList(r) ==
  /\ r \in Seq(Requests)
  /\ \A i \in 1 .. Len(r) : ~Shared(r[i])

(* The types of the variables the loops add, and their lists.               *)
LoopTypes ==
  /\ ena \in BOOLEAN /\ lapse \in BOOLEAN /\ limit \in BOOLEAN
  /\ zfi \in BOOLEAN /\ fic \in BOOLEAN /\ streak \in 0 .. MinStreak
  /\ byLoop \in BOOLEAN /\ crossed \in BOOLEAN
  /\ ztick \in Ticks /\ ftick \in Ticks
  /\ ZList(ztick.requests) /\ FList(ftick.requests)

-----------------------------------------------------------------------------
(* What is left of the list of a tick when its first request is answered.   *)
LEMMA ZListFacts ==
  ASSUME NEW r, ZList(r), r # <<>>
  PROVE  /\ ZList(Tail(r))
         /\ Head(r) = r[1] /\ r[1] \in Requests /\ Len(r) \in Nat /\ Len(r) > 0
         /\ Tail(r) # <<>> => ~Shared(Head(Tail(r)))
  <1>1. r \in Seq(Requests) /\ Len(r) \in Nat /\ Len(r) > 0
    BY DEF ZList
  <1>2. /\ Tail(r) \in Seq(Requests) /\ Len(Tail(r)) = Len(r) - 1
        /\ \A i \in 1 .. Len(r) - 1 : Tail(r)[i] = r[i + 1]
    BY <1>1
  <1>3. ASSUME NEW i \in 1 .. Len(Tail(r))
        PROVE  /\ ~Shared(Tail(r)[i])
               /\ Tail(r)[i] = "off" => /\ i = Len(Tail(r))
                                        /\ i > 1 => Tail(r)[i - 1] = "charge"
    <2>1. Tail(r)[i] = r[i + 1] /\ i + 1 \in 1 .. Len(r) /\ i + 1 # 1
      BY <1>1, <1>2
    <2>2. ~Shared(r[i + 1])
      BY <2>1 DEF ZList
    <2>3. r[i + 1] = "off" => i + 1 = Len(r) /\ r[i] = "charge"
      <3>1. i + 1 > 1 /\ (i + 1) - 1 = i
        OBVIOUS
      <3> QED BY <2>1, <3>1 DEF ZList
    <2>4. i > 1 => Tail(r)[i - 1] = r[i]
      BY <1>1, <1>2
    <2>5. ~Shared(Tail(r)[i])
      BY <2>1, <2>2
    <2>6. i + 1 = Len(r) => i = Len(Tail(r))
      <3>1. i \in 1 .. Len(r) - 1
        BY <1>2
      <3>2. i + 1 = Len(r) => i = Len(r) - 1
        BY <3>1, <1>1
      <3> QED BY <3>2, <1>2
    <2> QED BY <2>1, <2>3, <2>4, <2>5, <2>6
  <1>4. Tail(r) # <<>> => Len(Tail(r)) > 0 /\ Head(Tail(r)) = Tail(r)[1]
    BY <1>2
  <1>5. ZList(Tail(r))
    BY <1>2, <1>3 DEF ZList
  <1>6. Tail(r) # <<>> => ~Shared(Head(Tail(r)))
    <2>1. Tail(r) # <<>> => 1 \in 1 .. Len(Tail(r))
      BY <1>2, <1>4
    <2> QED BY <2>1, <1>3, <1>4
  <1>7. Head(r) = r[1] /\ r[1] \in Requests
    BY <1>1
  <1> QED BY <1>1, <1>5, <1>6, <1>7

(* What comes before "off", and after it.                                   *)
LEMMA ZBefore ==
  ASSUME NEW r, ZList(r), r # <<>>, Tail(r) = <<"off">>
  PROVE  Head(r) = "charge"
  <1>1. r \in Seq(Requests) /\ Len(r) \in Nat /\ Len(r) > 0
    BY DEF ZList
  <1>2. Len(Tail(r)) = Len(r) - 1 /\ \A i \in 1 .. Len(r) - 1 : Tail(r)[i] = r[i + 1]
    BY <1>1
  <1>3. Len(Tail(r)) = 1 /\ Tail(r)[1] = "off"
    <2>1. \A q : q = <<"off">> => Len(q) = 1 /\ q[1] = "off"
      OBVIOUS
    <2> QED BY <2>1
  <1>4. Len(r) = 2 /\ r[2] = "off"
    BY <1>1, <1>2, <1>3
  <1>5. 2 \in 1 .. Len(r) /\ 2 > 1 /\ 2 - 1 = 1
    BY <1>4
  <1>6. r[1] = "charge"
    BY <1>4, <1>5 DEF ZList
  <1> QED BY <1>1, <1>6

(* An "off" that comes first comes alone.                                   *)
LEMMA ZOffAlone ==
  ASSUME NEW r, ZList(r), r # <<>>, Head(r) = "off"
  PROVE  r = <<"off">>
  <1>1. r \in Seq(Requests) /\ Len(r) \in Nat /\ Len(r) > 0 /\ r[1] = "off"
    BY DEF ZList
  <1>2. Len(r) = 1
    <2>1. 1 \in 1 .. Len(r)
      BY <1>1
    <2>2. r[1] = "off" => 1 = Len(r)
      BY <2>1 DEF ZList
    <2> QED BY <1>1, <2>2
  <1>3. r = [i \in 1 .. 1 |-> "off"]
    <2>1. r = [i \in 1 .. Len(r) |-> r[i]]
      BY <1>1
    <2>2. \A i \in 1 .. 1 : r[i] = "off"
      BY <1>1
    <2> QED BY <2>1, <2>2, <1>2
  <1>4. <<"off">> = [i \in 1 .. 1 |-> "off"]
    OBVIOUS
  <1> QED BY <1>3, <1>4

(* The same for the fixed limit, which shares no point with a block.        *)
LEMMA FListFacts ==
  ASSUME NEW r, FList(r), r # <<>>
  PROVE  FList(Tail(r)) /\ Head(r) \in Requests /\ ~Shared(Head(r))
  <1>1. r \in Seq(Requests) /\ Len(r) \in Nat /\ Len(r) > 0
    BY DEF FList
  <1>2. /\ Tail(r) \in Seq(Requests) /\ Len(Tail(r)) = Len(r) - 1
        /\ Head(r) = r[1]
        /\ \A i \in 1 .. Len(r) - 1 : Tail(r)[i] = r[i + 1]
    BY <1>1
  <1> QED BY <1>1, <1>2 DEF FList

(* The lists the ticks begin with.                                          *)
LEMMA ListsFacts ==
  /\ ZList(<<>>) /\ ZList(Enter) /\ ZList(Refresh) /\ ZList(Leave)
  /\ ZList(<<"off">>)
  /\ FList(<<>>) /\ FList(CapEnter) /\ FList(Refresh) /\ FList(<<"off">>)
  BY DEF ZList, FList, Enter, CapEnter, Refresh, Leave, Shared, Requests
-----------------------------------------------------------------------------
(* Every caller is one of the flag, and its last step is at OutPoint.       *)
LEMMA ProfileFacts ==
  /\ FlagCallers = Callers /\ "eval" \in Callers
  /\ \A c \in Callers : c # "limit" /\ Steps(c) = FlagSteps
  /\ Len(FlagSteps) \in 1 .. Len(FlagSteps)
  /\ OutPoint = FlagSteps[Len(FlagSteps)]
  /\ OutPoint \in FlagPoints /\ OutPoint \in Points /\ OutPoint # LimitPoint
  /\ \A i \in 1 .. Len(FlagSteps) : FlagSteps[i] = OutPoint => i = Len(FlagSteps)
  <1>1. /\ "eval" \in Callers /\ "limit" \notin Callers
        /\ OutPoint = FlagSteps[Len(FlagSteps)]
    BY ProfileAssumption
  <1>2. Len(FlagSteps) \in 1 .. Len(FlagSteps)
    BY StepsAssumption
  <1>3. OutPoint \in FlagPoints
    BY <1>1, <1>2 DEF FlagPoints
  <1>4. FlagCallers = Callers
    BY <1>1 DEF FlagCallers
  <1> QED
    BY <1>1, <1>2, <1>3, <1>4, StepsAssumption DEF Steps, Points

(* A tick is a tick of the type, and so is one that has been answered.      *)
LEMMA TickFacts ==
  /\ \A r \in Seq(Requests), ok, err \in BOOLEAN :
        /\ Tick(r, ok, err) \in Ticks
        /\ Tick(r, ok, err).requests = r
  /\ NoTick \in Ticks /\ NoTick.requests = <<>>
  /\ \A t \in Ticks : t.requests # <<>> =>
        /\ Answered(t) \in Ticks /\ Answered(t).requests = Tail(t.requests)
        /\ Head(t.requests) \in Requests
  BY DEF Tick, NoTick, Ticks, Answered

(* A tick that begins has one of its lists.                                 *)
LEMMA ZeroBegins ==
  ASSUME LoopTypes, zeroFeedInTick
  PROVE  ztick' \in Ticks /\ ZList(ztick'.requests) /\ streak' \in 0 .. MinStreak
  <1>1. /\ ZList(<<>>) /\ ZList(Enter) /\ ZList(Refresh) /\ ZList(Leave)
        /\ ZList(<<"off">>)
    BY ListsFacts
  <1>2. \E r : /\ ZList(r)
               /\ \/ ztick' = NoTick /\ r = <<>>
                  \/ \E ok, err \in BOOLEAN : ztick' = Tick(r, ok, err)
    BY <1>1 DEF zeroFeedInTick, ZeroFree, ZeroBlocked
  <1>3. streak' \in 0 .. MinStreak
    <2>1. streak \in 0 .. 2
      BY DEF LoopTypes, MinStreak
    <2>2. \/ streak' = 0
          \/ streak' = IF streak < 2 THEN streak + 1 ELSE 2
      BY DEF zeroFeedInTick, ZeroFree, ZeroBlocked, MinStreak
    <2> QED BY <2>1, <2>2 DEF MinStreak
  <1> QED BY <1>2, <1>3, TickFacts DEF ZList

(* So has one of the fixed limit.                                           *)
LEMMA CapBegins ==
  ASSUME LoopTypes, feedInCapTick
  PROVE  ftick' \in Ticks /\ FList(ftick'.requests) /\ fic' \in BOOLEAN
  <1>1. FList(<<>>) /\ FList(CapEnter) /\ FList(Refresh) /\ FList(<<"off">>)
    BY ListsFacts
  <1>2. \E r : /\ FList(r)
               /\ \/ ftick' = NoTick /\ r = <<>>
                  \/ \E ok, err \in BOOLEAN : ftick' = Tick(r, ok, err)
    BY <1>1 DEF feedInCapTick, CapOff, CapStep
  <1>3. fic' \in BOOLEAN
    BY DEF feedInCapTick, CapOff, CapStep, LoopTypes
  <1> QED BY <1>2, <1>3, TickFacts DEF FList

(* What a request does at the inverter keeps the types.                     *)
LEMMA EffectTypes ==
  ASSUME TypeOK, WritingOK, LoopTypes, NEW r \in Requests, Effect(r) \/ NoEffect,
         UNCHANGED others
  PROVE  /\ TypeOK' /\ WritingOK'
         /\ ena' \in BOOLEAN /\ lapse' \in BOOLEAN /\ byLoop' \in BOOLEAN
  <1>1. UNCHANGED <<saved, disk, pending, last, task>>
    BY DEF others
  <1>2. dev' \in [Points -> DeviceValues] /\ mine' \in [Points -> BOOLEAN]
    BY ProfileFacts DEF Effect, NoEffect, TypeOK, DeviceValues
  <1>3. ena' \in BOOLEAN
    BY DEF Effect, NoEffect, LoopTypes, inverter
  <1>4. lapse' \in BOOLEAN
    <2>1. CASE Effect(r)
      BY <2>1 DEF Effect
    <2>2. CASE NoEffect
      BY <2>2 DEF NoEffect, LoopTypes, inverter
    <2> QED BY <2>1, <2>2
  <1>5. byLoop' \in BOOLEAN
    BY DEF Effect, NoEffect, LoopTypes
  <1> QED BY <1>1, <1>2, <1>3, <1>4, <1>5, UnbegunTypes DEF TypeOK

ZTypes == TypeOK /\ WritingOK /\ LoopTypes

(* The variables start in their types.                                      *)
LEMMA InitZTypes == ZInit => ZTypes
  <1> SUFFICES ASSUME ZInit PROVE ZTypes
    OBVIOUS
  <1>1. TypeOK /\ WritingOK
    BY InitIInv DEF ZInit, IInv
  <1>2. /\ ztick \in Ticks /\ ZList(ztick.requests)
        /\ ftick \in Ticks /\ FList(ftick.requests)
    <2>1. ztick = NoTick /\ ftick = NoTick
      BY DEF ZInit
    <2> QED BY <2>1, TickFacts, ListsFacts
  <1>3. /\ ena = FALSE /\ lapse = FALSE /\ limit \in BOOLEAN
        /\ zfi = FALSE /\ fic = FALSE /\ streak = 0
        /\ byLoop = FALSE /\ crossed = FALSE
    BY DEF ZInit
  <1>4. 0 \in 0 .. MinStreak
    BY DEF MinStreak
  <1>5. LoopTypes
    BY <1>2, <1>3, <1>4 DEF LoopTypes
  <1> QED BY <1>1, <1>5 DEF ZTypes

(* Every step keeps the types, whether a tick meets a sequence or not.      *)
LEMMA StepZTypes ==
  ASSUME ZTypes, [ZNext]_zvars
  PROVE  ZTypes'
  <1>0. TypeOK /\ WritingOK /\ LoopTypes
    BY DEF ZTypes
  <1>. USE <1>0
  <1>1. CASE zeroFeedInTick
    <2>1. ztick' \in Ticks /\ ZList(ztick'.requests) /\ streak' \in 0 .. MinStreak
      BY <1>1, ZeroBegins
    <2>2. UNCHANGED <<vars, inverter, limit, zfi, fic, ftick, byLoop, crossed>>
      BY <1>1 DEF zeroFeedInTick
    <2>3. LoopTypes'
      BY <2>1, <2>2 DEF LoopTypes, inverter
    <2>4. TypeOK' /\ WritingOK'
      BY <2>2 DEF vars, TypeOK, WritingOK
    <2> QED BY <2>3, <2>4 DEF ZTypes
  <1>2. CASE feedInCapTick
    <2>1. ftick' \in Ticks /\ FList(ftick'.requests) /\ fic' \in BOOLEAN
      BY <1>2, CapBegins
    <2>2. UNCHANGED <<vars, inverter, limit, zfi, streak, ztick, byLoop, crossed>>
      BY <1>2 DEF feedInCapTick
    <2>3. LoopTypes'
      BY <2>1, <2>2 DEF LoopTypes, inverter
    <2>4. TypeOK' /\ WritingOK'
      BY <2>2 DEF vars, TypeOK, WritingOK
    <2> QED BY <2>3, <2>4 DEF ZTypes
  <1>3. CASE ZeroOk \/ ZeroFail
    <2>1. ztick \in Ticks /\ ZList(ztick.requests) /\ ztick.requests # <<>>
      BY <1>3 DEF LoopTypes, ZeroOk, ZeroFail, Busy
    <2>2. Head(ztick.requests) \in Requests
      BY <2>1, TickFacts
    <2>3. /\ TypeOK' /\ WritingOK'
          /\ ena' \in BOOLEAN /\ lapse' \in BOOLEAN /\ byLoop' \in BOOLEAN
      BY <1>3, <2>2, EffectTypes DEF ZeroOk, ZeroFail
    <2>4. ztick' \in Ticks /\ ZList(ztick'.requests)
      <3>1. ztick' = Answered(ztick) \/ ztick' = NoTick
        BY <1>3 DEF ZeroOk, ZeroFail
      <3> QED BY <3>1, <2>1, TickFacts, ListsFacts, ZListFacts
    <2>5. zfi' \in BOOLEAN
      BY <1>3, <2>1 DEF ZeroOk, ZeroFail, LoopTypes, Ticks
    <2>6. UNCHANGED <<limit, fic, streak, ftick, crossed>>
      BY <1>3 DEF ZeroOk, ZeroFail
    <2> QED BY <2>3, <2>4, <2>5, <2>6 DEF LoopTypes, ZTypes
  <1>4. CASE CapOk \/ CapFail
    <2>1. ftick \in Ticks /\ FList(ftick.requests) /\ ftick.requests # <<>>
      BY <1>4 DEF LoopTypes, CapOk, CapFail, Busy
    <2>2. Head(ftick.requests) \in Requests
      BY <2>1, TickFacts
    <2>3. /\ TypeOK' /\ WritingOK'
          /\ ena' \in BOOLEAN /\ lapse' \in BOOLEAN /\ byLoop' \in BOOLEAN
      BY <1>4, <2>2, EffectTypes DEF CapOk, CapFail
    <2>4. ftick' \in Ticks /\ FList(ftick'.requests)
      <3>1. ftick' = Answered(ftick) \/ ftick' = NoTick
        BY <1>4 DEF CapOk, CapFail
      <3> QED BY <3>1, <2>1, TickFacts, ListsFacts, FListFacts
    <2>5. fic' \in BOOLEAN
      BY <1>4, <2>1 DEF CapOk, CapFail, LoopTypes, Ticks
    <2>6. UNCHANGED <<limit, zfi, streak, ztick, crossed>>
      BY <1>4 DEF CapOk, CapFail
    <2> QED BY <2>3, <2>4, <2>5, <2>6 DEF LoopTypes, ZTypes
  <1>5. CASE Lapse
    BY <1>5 DEF Lapse, inverter, vars, ZTypes, TypeOK, WritingOK, LoopTypes
  <1>6. CASE LimitChanges
    BY <1>6 DEF LimitChanges, inverter, vars, ZTypes, TypeOK, WritingOK, LoopTypes
  <1>7. CASE Sequences
    <2>1. Next
      BY <1>7 DEF Sequences, Next
    <2>2. TypeOK' /\ WritingOK'
      BY <2>1, StepTypes
    <2>3. byLoop' \in BOOLEAN /\ crossed' \in BOOLEAN
      BY <1>7 DEF Sequences, LoopTypes
    <2>4. UNCHANGED <<inverter, limit, zfi, fic, streak, ztick, ftick>>
      BY <1>7 DEF Sequences
    <2> QED BY <2>2, <2>3, <2>4 DEF LoopTypes, ZTypes, inverter
  <1>8. CASE CustomerStep
    <2>1. PICK p \in FlagPoints, v \in Customer :
            CustomerSets(p, v) /\ byLoop' = (byLoop /\ p # OutPoint)
      BY <1>8 DEF CustomerStep
    <2>2. TypeOK' /\ WritingOK'
      BY <2>1, UnbegunTypes DEF CustomerSets, TypeOK, DeviceValues, Points
    <2>3. UNCHANGED <<inverter, limit, zfi, fic, streak, ztick, ftick, crossed>>
      BY <1>8 DEF CustomerStep
    <2> QED BY <2>1, <2>2, <2>3 DEF LoopTypes, ZTypes, inverter
  <1>9. CASE ZRestart
    <2>1. /\ task' = [c \in Callers |-> Idle] /\ saved' = disk /\ pending' = FALSE
          /\ last' = "undef" /\ UNCHANGED <<dev, mine, disk>>
      BY <1>9 DEF ZRestart, Restart
    <2>2. TypeOK' /\ WritingOK'
      BY <2>1, IdleFacts DEF TypeOK, WritingOK, Idle
    <2>3. ztick' = NoTick /\ ftick' = NoTick
      BY <1>9 DEF ZRestart
    <2>4. /\ zfi' = FALSE /\ fic' = FALSE /\ streak' = 0
          /\ UNCHANGED <<inverter, limit, byLoop, crossed>>
      BY <1>9 DEF ZRestart
    <2>5. 0 \in 0 .. MinStreak
      BY DEF MinStreak
    <2>6. LoopTypes'
      BY <2>3, <2>4, <2>5, TickFacts, ListsFacts DEF LoopTypes, inverter
    <2> QED BY <2>2, <2>6 DEF ZTypes
  <1>10. CASE UNCHANGED zvars
    BY <1>10 DEF zvars, inverter, vars, ZTypes, TypeOK, WritingOK, LoopTypes
  <1> QED
    BY <1>1, <1>2, <1>3, <1>4, <1>5, <1>6, <1>7, <1>8, <1>9, <1>10 DEF ZNext

(* The variables keep their types, those of the callers beside the loops    *)
(* that write to their point included, whatever meets whatever.             *)
THEOREM TypesOfLoops == ZSpec => []ZTypeOK
  <1>1. ZInit => ZTypes
    BY InitZTypes
  <1>2. ZTypes /\ [ZNext]_zvars => ZTypes'
    BY StepZTypes
  <1>3. ZTypes => ZTypeOK
    BY DEF ZTypes, LoopTypes, ZTypeOK
  <1> QED BY <1>1, <1>2, <1>3, PTL DEF ZSpec
-----------------------------------------------------------------------------
(* A step of a caller is one of these.                                      *)
LEMMA StepCases ==
  ASSUME NEW c \in Callers, CallerStep(c)
  PROVE  \/ CallBlock(c) \/ CallRelease(c) \/ SkipBootRelease(c)
         \/ ReadOk(c) \/ ReadFail(c)
         \/ BlockWriteOk(c) \/ RestoreWriteOk(c) \/ WriteFail(c)
  BY ProfileFacts DEF CallerStep, Release, SequenceStep, CallLift, DiscardBackup

(* A step that begins a task leaves its caller at it.                       *)
LEMMA Begun ==
  ASSUME TypeOK, NEW c \in Callers, NEW u, Begin(c, u)
  PROVE  task'[c] = u
  BY ProfileFacts DEF Begin, TypeOK

(* A step of one caller leaves the sequences of the others alone.           *)
LEMMA OthersStay ==
  ASSUME TypeOK, NEW c \in Callers, CallerStep(c), NEW d \in Callers, d # c
  PROVE  task'[d] = task[d]
  <1>1. UNCHANGED task \/ \E u : Begin(c, u)
    BY StepCases
    DEF CallBlock, CallRelease, SkipBootRelease, ReadOk, ReadFail, BlockWriteOk,
        RestoreWriteOk, WriteFail
  <1> QED BY <1>1 DEF Begin, TypeOK

(* A sequence that writes its block writes the block value.                 *)
BlockValues ==
  \A c \in Callers :
     (task[c].pc = "write" /\ ~task[c].feedIn) => task[c].value = Block

(* Every step of a caller keeps it so.                                      *)
LEMMA StepBlockValues ==
  ASSUME TypeOK, BlockValues, NEW c \in Callers, CallerStep(c)
  PROVE  BlockValues'
  <1>1. \/ UNCHANGED task
        \/ \E i, S : Begin(c, SavingRead(i, S))
        \/ \E i : Begin(c, BlockWrite(i))
        \/ \E i, own, sv : Begin(c, RestoreWrite(c, i, own, sv))
        \/ Begin(c, Idle)
    BY StepCases
    DEF CallBlock, CallRelease, SkipBootRelease, ReadOk, ReadFail, BlockWriteOk,
        RestoreWriteOk, WriteFail
  <1>2. ASSUME NEW u, Begin(c, u), u.pc = "write" /\ ~u.feedIn => u.value = Block
        PROVE  BlockValues'
    BY <1>2, Begun, OthersStay DEF BlockValues
  <1>3. ASSUME NEW i, NEW S, Begin(c, SavingRead(i, S))
        PROVE  BlockValues'
    BY <1>2, <1>3 DEF SavingRead
  <1>4. ASSUME NEW i, Begin(c, BlockWrite(i))
        PROVE  BlockValues'
    BY <1>2, <1>4 DEF BlockWrite
  <1>5. ASSUME NEW i, NEW own, NEW sv, Begin(c, RestoreWrite(c, i, own, sv))
        PROVE  BlockValues'
    BY <1>2, <1>5 DEF RestoreWrite
  <1>6. Begin(c, Idle) => BlockValues'
    BY <1>2 DEF Idle
  <1> QED BY <1>1, <1>3, <1>4, <1>5, <1>6 DEF BlockValues

(* Only a block makes the shared point DVhub's and the cache "block", and   *)
(* then it has written the block value.                                     *)
LEMMA BlockedByBlock ==
  ASSUME TypeOK, BlockValues, NEW c \in Callers, CallerStep(c),
         last' = "block", mine'[OutPoint]
  PROVE  \/ dev'[OutPoint] = Block
         \/ last = "block" /\ mine[OutPoint] /\ dev'[OutPoint] = dev[OutPoint]
  <1>. DEFINE t == task[c]
              p == FlagSteps[t.step]
  <1>0. /\ t.step \in 1 .. Len(FlagSteps) /\ p \in Points /\ Steps(c) = FlagSteps
        /\ t.feedIn \in BOOLEAN /\ c # "limit"
    BY ProfileFacts, TaskFacts, StepsFacts
  <1>1. CASE BlockWriteOk(c)
    <2>1. /\ dev' = [dev EXCEPT ![p] = Block] /\ mine' = [mine EXCEPT ![p] = TRUE]
          /\ last' = last \/ t.step = Len(FlagSteps)
      BY <1>0, <1>1 DEF BlockWriteOk, BlockValues
    <2>2. p # OutPoint => last' = last
      BY <2>1, <1>0, ProfileFacts
    <2> QED BY <2>1, <2>2, <1>0, ProfileFacts DEF TypeOK
  <1>2. CASE RestoreWriteOk(c)
    <2>1. /\ dev' = [dev EXCEPT ![p] = t.value] /\ mine' = [mine EXCEPT ![p] = FALSE]
          /\ last' = last \/ last' = "feed"
      BY <1>0, <1>2 DEF RestoreWriteOk, Complete
    <2> QED BY <2>1, <1>0, ProfileFacts DEF TypeOK
  <1>3. CASE WriteFail(c)
    <2>1. /\ t.pc = "write" /\ last' = last
          /\ \/ UNCHANGED <<dev, mine>>
             \/ /\ dev' = [dev EXCEPT ![p] = t.value]
                /\ mine' = [mine EXCEPT ![p] = ~t.feedIn]
      BY <1>0, <1>3 DEF WriteFail
    <2>2. ~t.feedIn => t.value = Block
      BY <2>1 DEF BlockValues
    <2> QED BY <2>1, <2>2, <1>0, ProfileFacts DEF TypeOK
  <1>4. CASE CallBlock(c) \/ CallRelease(c) \/ ReadOk(c) \/ ReadFail(c)
    BY <1>4 DEF CallBlock, CallRelease, ReadOk, ReadFail
  <1>5. CASE SkipBootRelease(c)
    BY <1>0, <1>5 DEF SkipBootRelease, Complete
  <1> QED BY <1>1, <1>2, <1>3, <1>4, <1>5, StepCases

-----------------------------------------------------------------------------
(* While the loop is leaving a throttle the charge is forced.               *)
LeaveForced ==
  ztick.requests = <<"off">> /\ last = "block" /\ mine[OutPoint]
    => dev[OutPoint] = Block

(* The invariant behind GapOnlyByEntering, without any condition.           *)
GapInv == ZTypes /\ BlockValues /\ LeaveForced

(* A request to the inverter, of the loop that shares no point with the     *)
(* block.                                                                   *)
LEMMA CapWrites ==
  ASSUME ZTypes, CapOk \/ CapFail
  PROVE  /\ UNCHANGED <<dev, mine, byLoop, crossed, saved, disk, pending, last, task, ztick>>
         /\ ena' = ena \/ ena' = TRUE \/ Head(ftick.requests) = "off"
  <1>. DEFINE r == Head(ftick.requests)
  <1>1. /\ Effect(r) \/ NoEffect
        /\ UNCHANGED <<saved, disk, pending, last, task, ztick, crossed>> /\ Busy(ftick)
    BY DEF CapOk, CapFail, others
  <1>2. ~Shared(r)
    BY <1>1, FListFacts DEF ZTypes, LoopTypes, Busy
  <1> QED BY <1>1, <1>2 DEF Effect, NoEffect, inverter

(* A request of the loop that shares its point.                             *)
LEMMA ZeroWrites ==
  ASSUME ZTypes, ZeroOk \/ ZeroFail
  PROVE  /\ UNCHANGED <<crossed, saved, disk, pending, last, task, ftick>>
         /\ ZList(ztick.requests) /\ ztick.requests # <<>>
         /\ \/ ztick'.requests = <<>>
            \/ ztick'.requests = Tail(ztick.requests) /\ Effect(Head(ztick.requests))
         /\ \/ UNCHANGED <<dev, mine, byLoop>>
            \/ /\ Shared(Head(ztick.requests))
               /\ dev' = [dev EXCEPT ![OutPoint] =
                            IF Head(ztick.requests) = "charge" THEN Block ELSE Default]
               /\ mine' = [mine EXCEPT ![OutPoint] = TRUE]
         /\ ena' = ena \/ ena' = TRUE \/ Head(ztick.requests) = "off"
  <1>. DEFINE r == Head(ztick.requests)
  <1>1. /\ Effect(r) \/ NoEffect
        /\ UNCHANGED <<saved, disk, pending, last, task, ftick, crossed>> /\ Busy(ztick)
        /\ ztick' = NoTick \/ (ztick' = Answered(ztick) /\ Effect(r))
    BY DEF ZeroOk, ZeroFail, others
  <1>2. ztick \in Ticks /\ ZList(ztick.requests) /\ ztick.requests # <<>>
    BY <1>1 DEF ZTypes, LoopTypes, Busy
  <1>3. \/ ztick'.requests = <<>>
        \/ ztick'.requests = Tail(ztick.requests) /\ Effect(r)
    BY <1>1, <1>2, TickFacts
  <1> QED BY <1>1, <1>2, <1>3 DEF Effect, NoEffect, inverter

(* It is kept by every step.                                                *)
LEMMA StepGapInv ==
  ASSUME GapInv, [ZNext]_zvars
  PROVE  GapInv'
  <1>0. ZTypes /\ ZTypes' /\ TypeOK /\ BlockValues
    BY StepZTypes DEF GapInv, ZTypes
  <1>1. CASE ZeroOk \/ ZeroFail
    <2>1. BlockValues'
      BY <1>0, <1>1, ZeroWrites DEF BlockValues
    <2>2. ASSUME ztick'.requests = <<"off">>, last' = "block", mine'[OutPoint]
          PROVE  dev'[OutPoint] = Block
      <3>1. <<"off">> # <<>>
        OBVIOUS
      <3>2. Tail(ztick.requests) = <<"off">> /\ Effect(Head(ztick.requests))
        BY <2>2, <3>1, <1>0, <1>1, ZeroWrites
      <3>3. Head(ztick.requests) = "charge"
        BY <3>2, <1>0, <1>1, ZeroWrites, ZBefore
      <3>4. dev' = [dev EXCEPT ![OutPoint] = Block]
        BY <3>2, <3>3 DEF Effect, Shared
      <3> QED BY <3>4, <1>0, ProfileFacts DEF TypeOK
    <2> QED BY <2>1, <2>2, <1>0 DEF GapInv, LeaveForced
  <1>2. CASE CapOk \/ CapFail
    BY <1>0, <1>2, CapWrites DEF GapInv, BlockValues, LeaveForced
  <1>3. CASE zeroFeedInTick
    <2>1. UNCHANGED <<dev, mine, last, task>>
      BY <1>3 DEF zeroFeedInTick, vars
    <2>2. ztick'.requests = <<"off">> => ~Blocked
      <3>1. \/ ~Blocked
            \/ ztick' = NoTick
            \/ \E q \in {Enter, Refresh, Leave}, ok, err \in BOOLEAN :
                 ztick' = Tick(q, ok, err)
        BY <1>3 DEF zeroFeedInTick, ZeroFree, ZeroBlocked
      <3>2. <<"off">> \notin {Enter, Refresh, Leave, <<>>}
        BY DEF Enter, Refresh, Leave
      <3>3. \A q, ok, err : Tick(q, ok, err).requests = q
        BY DEF Tick
      <3>4. NoTick.requests = <<>>
        BY TickFacts
      <3>5. \A q \in {Enter, Refresh, Leave}, ok, err \in BOOLEAN :
              Tick(q, ok, err).requests # <<"off">>
        BY <3>2, <3>3
      <3> QED BY <3>1, <3>2, <3>4, <3>5
    <2> QED BY <2>1, <2>2, <1>0 DEF GapInv, BlockValues, LeaveForced, Blocked
  <1>4. CASE feedInCapTick \/ Lapse \/ LimitChanges \/ UNCHANGED zvars
    <2>1. UNCHANGED <<dev, mine, last, task, ztick>>
      BY <1>4 DEF feedInCapTick, Lapse, LimitChanges, vars, zvars
    <2> QED BY <2>1, <1>0 DEF GapInv, BlockValues, LeaveForced
  <1>5. CASE Sequences
    <2>1. UNCHANGED ztick
      BY <1>5 DEF Sequences
    <2>2. CASE EvalFlush
      BY <2>1, <2>2, <1>0 DEF EvalFlush, GapInv, BlockValues, LeaveForced
    <2>3. ASSUME NEW c \in Callers, CallerStep(c) PROVE GapInv'
      <3>1. BlockValues'
        BY <2>3, <1>0, StepBlockValues
      <3>2. LeaveForced'
        BY <2>1, <2>3, <1>0, BlockedByBlock DEF GapInv, LeaveForced
      <3> QED BY <3>1, <3>2, <1>0 DEF GapInv
    <2> QED BY <2>2, <2>3, <1>5 DEF Sequences
  <1>6. CASE CustomerStep
    <2>1. PICK p \in FlagPoints, v \in Customer : CustomerSets(p, v)
      BY <1>6 DEF CustomerStep
    <2>2. UNCHANGED <<last, task, ztick>>
      BY <1>6, <2>1 DEF CustomerStep, CustomerSets
    <2>3. mine'[OutPoint] => mine[OutPoint] /\ dev'[OutPoint] = dev[OutPoint]
      BY <2>1, <1>0, ProfileFacts DEF CustomerSets, TypeOK
    <2> QED BY <2>2, <2>3, <1>0 DEF GapInv, BlockValues, LeaveForced
  <1>7. CASE ZRestart
    <2>1. last' # "block" /\ task' = [c \in Callers |-> Idle]
      BY <1>7 DEF ZRestart, Restart
    <2> QED BY <2>1, <1>0 DEF GapInv, BlockValues, LeaveForced, Idle
  <1> QED BY <1>1, <1>2, <1>3, <1>4, <1>5, <1>6, <1>7 DEF ZNext

(* With it a step that opens a gap is one of those named.                   *)
LEMMA StepGap ==
  ASSUME GapInv, [ZNext]_zvars, ~Gap, Gap'
  PROVE  \/ Lapse
         \/ (ZeroOk \/ ZeroFail) /\ Head(ztick.requests) = "discharge"
         \/ (CapOk \/ CapFail) /\ Head(ftick.requests) = "off"
  <1>0. ZTypes /\ TypeOK /\ BlockValues /\ ena \in BOOLEAN
    BY DEF GapInv, ZTypes, LoopTypes
  <1>1. /\ last' = "block" /\ mine'[OutPoint] /\ dev'[OutPoint] = Default /\ ~ena'
        /\ ~(last = "block" /\ mine[OutPoint] /\ dev[OutPoint] = Default /\ ~ena)
        /\ Block # Default
    BY ValuesAssumption DEF Gap, Blocked
  <1>2. CASE ZeroOk \/ ZeroFail
    <2>. DEFINE r == Head(ztick.requests)
    <2>1. CASE Shared(r)
      <3>1. r # "charge"
        <4> SUFFICES ASSUME r = "charge" PROVE FALSE
          OBVIOUS
        <4>1. UNCHANGED <<dev, mine>> \/ dev' = [dev EXCEPT ![OutPoint] = Block]
          BY <1>0, <1>2, ZeroWrites
        <4>2. dev' # [dev EXCEPT ![OutPoint] = Block]
          BY <1>0, <1>1, ProfileFacts DEF TypeOK
        <4>3. last' = last /\ (ena' = ena \/ ena' = TRUE)
          BY <1>0, <1>2, ZeroWrites
        <4> QED BY <4>1, <4>2, <4>3, <1>0, <1>1
      <3> QED BY <2>1, <3>1, <1>2 DEF Shared
    <2>2. CASE ~Shared(r)
      <3>1. last' = last /\ dev' = dev /\ mine' = mine
        BY <2>2, <1>0, <1>2, ZeroWrites
      <3>2. r = "off"
        BY <3>1, <1>0, <1>1, <1>2, ZeroWrites
      <3>3. ztick.requests = <<"off">>
        BY <3>2, <1>0, <1>2, ZeroWrites, ZOffAlone
      <3> QED BY <3>1, <3>3, <1>1 DEF GapInv, LeaveForced
    <2> QED BY <2>1, <2>2
  <1>3. CASE CapOk \/ CapFail
    BY <1>0, <1>1, <1>3, CapWrites
  <1>4. CASE zeroFeedInTick \/ feedInCapTick \/ LimitChanges \/ UNCHANGED zvars
    <2>1. UNCHANGED <<dev, mine, last, ena>>
      BY <1>4 DEF zeroFeedInTick, feedInCapTick, LimitChanges, vars, zvars, inverter
    <2> QED BY <2>1, <1>1
  <1>5. CASE Sequences
    <2>1. ena' = ena
      BY <1>5 DEF Sequences, inverter
    <2>2. CASE EvalFlush
      BY <2>1, <2>2, <1>1 DEF EvalFlush
    <2>3. ASSUME NEW c \in Callers, CallerStep(c) PROVE FALSE
      BY <2>1, <2>3, <1>0, <1>1, BlockedByBlock
    <2> QED BY <2>2, <2>3, <1>5 DEF Sequences
  <1>6. CASE CustomerStep
    <2>1. PICK p \in FlagPoints, v \in Customer : CustomerSets(p, v)
      BY <1>6 DEF CustomerStep
    <2>2. last' = last /\ ena' = ena
      BY <1>6, <2>1 DEF CustomerStep, CustomerSets, inverter
    <2>3. mine'[OutPoint] => mine[OutPoint] /\ dev'[OutPoint] = dev[OutPoint]
      BY <2>1, <1>0, ProfileFacts DEF CustomerSets, TypeOK
    <2> QED BY <2>2, <2>3, <1>1
  <1>7. CASE ZRestart
    BY <1>7, <1>1 DEF ZRestart, Restart
  <1> QED BY <1>2, <1>3, <1>4, <1>5, <1>6, <1>7 DEF ZNext

(* Leaving a throttle opens no window with neither forced charge nor        *)
(* throttle, nor does anything a caller, a failure or a restart does: only  *)
(* entering, a lapse, and an end of the fixed cap that began before the     *)
(* block.                                                                   *)
THEOREM LeavingLeavesNoGap == ZSpec => GapOnlyByEntering
  <1>1. ZInit => GapInv
    <2>1. ZInit => ztick.requests = <<>>
      BY TickFacts DEF ZInit
    <2>2. ZInit => BlockValues
      BY DEF ZInit, Init, BlockValues, Idle
    <2> QED BY <2>1, <2>2, InitZTypes DEF GapInv, LeaveForced
  <1>2. GapInv /\ [ZNext]_zvars => GapInv'
    BY StepGapInv
  <1>3. GapInv /\ [ZNext]_zvars =>
          [~Gap /\ Gap' => \/ Lapse
                           \/ (ZeroOk \/ ZeroFail) /\ Head(ztick.requests) = "discharge"
                           \/ (CapOk \/ CapFail) /\ Head(ftick.requests) = "off"]_zvars
    BY StepGap
  <1> QED BY <1>1, <1>2, <1>3, PTL DEF ZSpec, GapOnlyByEntering

-----------------------------------------------------------------------------
(* The customer's value of the shared point is in memory and on disk.       *)
Kept == saved[OutPoint] # None /\ disk[OutPoint] # None

(* The shared point is written only during a block.                         *)
SharedBlocked == Busy(ztick) /\ Shared(Head(ztick.requests)) => last = "block"

(* While the cache says "block" nothing is being saved, and what the block  *)
(* or the loop has written over is kept.                                    *)
BlockSaved ==
  last = "block" => Kept /\ \A c \in Callers : task[c].pc # "save"
LoopSaved ==
  byLoop => Kept /\ \A c \in Callers : OutPoint \notin FreshOf(c)
FeedClean == last = "feed" => ~byLoop

Clean == IInv /\ SharedBlocked /\ BlockSaved /\ LoopSaved /\ FeedClean

(* What begins a sequence leaves its caller under way.                      *)
LEMMA CallsBegin ==
  ASSUME TypeOK, NEW c \in Callers, CallBlock(c) \/ CallRelease(c)
  PROVE  /\ task'[c].pc # "idle" /\ task'[c].fresh = {}
         /\ saved' = saved /\ disk' \in {disk, saved}
         /\ task'[c].pc = "save" => last # "block"
         /\ last' = last
  <1>1. PICK u : Begin(c, u) /\ u.pc # "idle" /\ u.fresh = {}
                 /\ (u.pc = "save" => CallBlock(c))
    <2>1. CASE CallBlock(c)
      <3>1. \/ \E i : Begin(c, SavingRead(i, {}))
            \/ Begin(c, BlockWrite(1))
        BY <2>1 DEF CallBlock
      <3> QED BY <3>1, <2>1 DEF SavingRead, BlockWrite
    <2>2. CASE CallRelease(c)
      <3>1. \E i, own : Begin(c, RestoreWrite(c, i, own, saved))
        BY <2>2 DEF CallRelease
      <3> QED BY <3>1 DEF RestoreWrite
    <2> QED BY <2>1, <2>2
  <1>2. task'[c] = u
    BY <1>1, ProfileFacts DEF Begin, TypeOK
  <1>3. CallBlock(c) => last # "block"
    BY ProfileFacts DEF CallBlock
  <1>4. saved' = saved /\ last' = last /\ flushPending
    BY DEF CallBlock, CallRelease
  <1>5. disk' \in {disk, saved}
    BY <1>4 DEF flushPending, persistDvSeqSaved, files
  <1> QED BY <1>1, <1>2, <1>3, <1>4, <1>5

(* While the cache says "block" no backup is read.                          *)
LEMMA NoNewSave ==
  ASSUME TypeOK, NEW c \in Callers, CallerStep(c), last = "block", last' = "block", task[c].pc # "save"
  PROVE  task'[c].pc # "save"
  <1>1. ~ReadOk(c) /\ ~ReadFail(c)
    BY DEF ReadOk, ReadFail
  <1>2. CASE CallBlock(c) \/ CallRelease(c)
    BY <1>2, CallsBegin
  <1>3. CASE SkipBootRelease(c)
    BY <1>3 DEF SkipBootRelease
  <1>4. CASE BlockWriteOk(c) \/ WriteFail(c)
    <2>1. (\E i : Begin(c, BlockWrite(i))) \/ Begin(c, Idle)
      BY <1>4 DEF BlockWriteOk, WriteFail
    <2>2. ASSUME NEW i, Begin(c, BlockWrite(i))
          PROVE  task'[c].pc = "write"
      BY <2>2, Begun DEF BlockWrite
    <2>3. Begin(c, Idle) => task'[c].pc = "idle"
      BY Begun DEF Idle
    <2> QED BY <2>1, <2>2, <2>3
  <1>5. CASE RestoreWriteOk(c)
    <2>1. \/ \E i, own, sv : Begin(c, RestoreWrite(c, i, own, sv))
          \/ Begin(c, Idle)
      BY <1>5 DEF RestoreWriteOk
    <2>2. ASSUME NEW i, NEW own, NEW sv, Begin(c, RestoreWrite(c, i, own, sv))
          PROVE  task'[c].pc = "write"
      BY <2>2, Begun DEF RestoreWrite
    <2>3. Begin(c, Idle) => task'[c].pc = "idle"
      BY Begun DEF Idle
    <2> QED BY <2>1, <2>2, <2>3
  <1> QED BY <1>1, <1>2, <1>3, <1>4, <1>5, StepCases

(* A step that does not release the shared point keeps its backup.          *)
LEMMA KeptStep ==
  ASSUME IInv, NEW c \in Callers, CallerStep(c), Kept, OutPoint \notin FreshOf(c),
         ~(RestoreWriteOk(c) /\ task[c].step = Len(FlagSteps))
  PROVE  Kept' /\ OutPoint \notin FreshOf(c)'
  <1>. DEFINE t == task[c]
              p == FlagSteps[t.step]
  <1>0. TypeOK /\ t.step \in 1 .. Len(FlagSteps) /\ p \in Points /\ t.fresh \in SUBSET Points
    BY ProfileFacts, TaskFacts, StepsFacts DEF IInv
  <1>2. CASE CallBlock(c) \/ CallRelease(c)
    BY <1>2, <1>0, CallsBegin DEF Kept, FreshOf
  <1>3. CASE SkipBootRelease(c)
    BY <1>3 DEF SkipBootRelease, Kept, FreshOf
  <1>4. CASE ReadOk(c)
    <2>. DEFINE sv == [saved EXCEPT ![p] = dev[p]]
                S == t.fresh \union {p}
    <2>1. p # OutPoint
      BY <1>4, ProfileFacts DEF ReadOk, IInv, SavingOK, Kept
    <2>2. sv \in [Points -> Backups] /\ sv[OutPoint] # None
      BY <2>1, <1>0, ProfileFacts DEF TypeOK, Backups, Kept
    <2>4. task'[c].fresh \in {{}, S}
      <3>1. \/ \E i : Begin(c, SavingRead(i, S))
            \/ Begin(c, BlockWrite(1))
            \/ Begin(c, Idle)
        BY <1>4, ProfileFacts DEF ReadOk
      <3> HIDE DEF S
      <3>2. ASSUME NEW i, Begin(c, SavingRead(i, S))
            PROVE  task'[c].fresh = S
        BY <3>2, <1>0, Begun DEF SavingRead
      <3>3. Begin(c, BlockWrite(1)) => task'[c].fresh = {}
        BY <1>0, Begun DEF BlockWrite
      <3>4. Begin(c, Idle) => task'[c].fresh = {}
        BY <1>0, Begun DEF Idle
      <3> QED BY <3>1, <3>2, <3>3, <3>4
    <2>5. saved' \in {sv, Dropped(sv, S)} /\ disk' \in {disk, sv}
      BY <1>4, ProfileFacts DEF ReadOk, files
    <2>6. OutPoint \notin S
      BY <2>1 DEF FreshOf
    <2>7. Dropped(sv, S)[OutPoint] # None
      <3> HIDE DEF sv, S
      <3> QED BY <2>2, <2>6, ProfileFacts, DroppedFacts
    <2> HIDE DEF sv, S
    <2> QED BY <2>2, <2>4, <2>5, <2>6, <2>7 DEF Kept, FreshOf
  <1>5. CASE ReadFail(c)
    <2>1. saved' = Dropped(saved, t.fresh) /\ disk' = disk /\ Begin(c, Idle)
      BY <1>5 DEF ReadFail
    <2>2. saved'[OutPoint] # None
      BY <2>1, <1>0, ProfileFacts, DroppedFacts DEF Kept, FreshOf, TypeOK
    <2>3. task'[c] = Idle /\ Idle.fresh = {}
      BY <2>1, <1>0, ProfileFacts DEF Begin, TypeOK, Idle
    <2> QED BY <2>1, <2>2, <2>3 DEF Kept, FreshOf
  <1>6. CASE BlockWriteOk(c) \/ WriteFail(c)
    <2>1. saved' = saved /\ disk' = disk
      BY <1>6 DEF BlockWriteOk, WriteFail
    <2>3. task'[c].fresh = {}
      <3>1. (\E i : Begin(c, BlockWrite(i))) \/ Begin(c, Idle)
        BY <1>6 DEF BlockWriteOk, WriteFail
      <3>2. ASSUME NEW i, Begin(c, BlockWrite(i))
            PROVE  task'[c].fresh = {}
        BY <3>2, <1>0, Begun DEF BlockWrite
      <3>3. Begin(c, Idle) => task'[c].fresh = {}
        BY <1>0, Begun DEF Idle
      <3> QED BY <3>1, <3>2, <3>3
    <2> QED BY <2>1, <2>3 DEF Kept, FreshOf
  <1>7. CASE RestoreWriteOk(c)
    <2>. DEFINE sv == [saved EXCEPT ![p] = None]
    <2>1. p # OutPoint
      BY <1>7, <1>0, ProfileFacts
    <2>2. sv[OutPoint] # None
      BY <2>1, <1>0, ProfileFacts DEF TypeOK, Kept
    <2>3. saved' = sv /\ disk' \in {disk, sv}
      BY <1>7, ProfileFacts DEF RestoreWriteOk, persistDvSeqSaved, files
    <2>5. task'[c].fresh = {}
      <3>1. \/ \E i : Begin(c, RestoreWrite(c, i, t.own, sv))
            \/ Begin(c, Idle)
        BY <1>7, ProfileFacts DEF RestoreWriteOk
      <3> HIDE DEF sv
      <3>2. ASSUME NEW i, Begin(c, RestoreWrite(c, i, t.own, sv))
            PROVE  task'[c].fresh = {}
        BY <3>2, <1>0, Begun DEF RestoreWrite
      <3>3. Begin(c, Idle) => task'[c].fresh = {}
        BY <1>0, Begun DEF Idle
      <3> QED BY <3>1, <3>2, <3>3
    <2> HIDE DEF sv
    <2> QED BY <2>2, <2>3, <2>5 DEF Kept, FreshOf
  <1> QED
    BY <1>2, <1>3, <1>4, <1>5, <1>6, <1>7, StepCases

(* The cache turns to "block" only with all backups kept, and to "feed"     *)
(* only when the shared point has been released or had no backup.           *)
LEMMA CacheStep ==
  ASSUME IInv, NEW c \in Callers, CallerStep(c)
  PROVE  /\ last' \in {last, "feed", "block"}
         /\ last' # last /\ last' = "block" =>
              Kept' /\ task'[c].pc = "idle" /\ task[c].pc # "idle"
         /\ last' # last /\ last' = "feed" =>
              \/ ~Kept
              \/ RestoreWriteOk(c) /\ task[c].step = Len(FlagSteps)
  <1>. DEFINE t == task[c]
              p == FlagSteps[t.step]
              sv == [saved EXCEPT ![p] = None]
  <1>0. TypeOK /\ t.step \in 1 .. Len(FlagSteps) /\ p \in Points /\ t.own \in BOOLEAN
    BY ProfileFacts, TaskFacts, StepsFacts DEF IInv
  <1>1. CASE BlockWriteOk(c)
    <2>1. saved' = saved /\ disk' = disk
      BY <1>1 DEF BlockWriteOk
    <2>5. t.pc = "write" /\ ~t.feedIn
      BY <1>1 DEF BlockWriteOk
    <2>6. Kept
      BY <2>5, ProfileFacts DEF IInv, BlockingOK, Kept
    <2>2. last' = last \/ (last' = "block" /\ Begin(c, Idle))
      <3>1. last' = last \/ (Complete(c, FALSE) /\ Begin(c, Idle))
        BY <1>1 DEF BlockWriteOk
      <3> QED BY <3>1 DEF Complete
    <2>3. Begin(c, Idle) => task'[c].pc = "idle"
      BY <1>0, ProfileFacts DEF Begin, TypeOK, Idle
    <2> QED BY <2>1, <2>2, <2>3, <2>5, <2>6 DEF Kept
  <1>2. CASE RestoreWriteOk(c)
    <2>1. \/ last' = last
          \/ last' = "feed" /\ Restorable(c, t.step + 1, t.own, sv) = {}
      <3>1. \/ last' = last
            \/ Complete(c, TRUE) /\ Restorable(c, t.step + 1, t.own, sv) = {}
        BY <1>2, ProfileFacts DEF RestoreWriteOk
      <3> HIDE DEF sv
      <3> QED BY <3>1 DEF Complete
    <2>2. ASSUME Kept, t.step # Len(FlagSteps)
          PROVE  Restorable(c, t.step + 1, t.own, sv) # {}
      <3>1. p # OutPoint
        BY <2>2, <1>0, ProfileFacts
      <3>2. sv \in [Points -> Backups] /\ sv[OutPoint] # None
        BY <3>1, <2>2, <1>0, ProfileFacts DEF TypeOK, Backups, Kept
      <3>3. resolveRestoreValue(OutPoint, t.own, sv) # None
        <4> HIDE DEF sv
        <4> QED BY <3>2, <1>0, ProfileFacts, RestoreFacts
      <3>4. Len(FlagSteps) \in t.step + 1 .. Len(FlagSteps)
        BY <2>2, <1>0
      <3> QED BY <3>3, <3>4, ProfileFacts DEF Restorable
    <2>3. "feed" # "block"
      OBVIOUS
    <2> QED BY <2>1, <2>2, <2>3, <1>2
  <1>3. CASE SkipBootRelease(c)
    <2>1. ~Kept
      BY <1>3, ProfileFacts DEF SkipBootRelease, Kept
    <2>2. last' = "feed"
      BY <1>3 DEF SkipBootRelease, Complete
    <2> QED BY <2>1, <2>2
  <1>4. CASE CallBlock(c) \/ CallRelease(c) \/ ReadOk(c)
             \/ ReadFail(c) \/ WriteFail(c)
    BY <1>4 DEF CallBlock, CallRelease, ReadOk, ReadFail, WriteFail
  <1> QED BY <1>1, <1>2, <1>3, <1>4, StepCases
-----------------------------------------------------------------------------------------------------------------------------------------------------
(* The loop writes to the shared point like a block whose customer's value  *)
(* is kept: while nothing is being saved the invariant of DvControl holds   *)
(* on, whatever sequence is under way.                                      *)
LEMMA LoopWrites ==
  ASSUME IInv, Kept, \A c \in Callers : task[c].pc # "save", NEW v \in {Block, Default},
         dev' = [dev EXCEPT ![OutPoint] = v],
         mine' = [mine EXCEPT ![OutPoint] = TRUE],
         UNCHANGED <<saved, disk, pending, last, task>>
  PROVE  IInv'
  <1>0. /\ TypeOK /\ WritingOK /\ FlagPoints \subseteq Points
        /\ FlagCallers = Callers /\ OutPoint \in FlagPoints
    BY ProfileFacts DEF IInv, Points
  <1>1. \A q \in Points : /\ q # OutPoint => dev'[q] = dev[q] /\ mine'[q] = mine[q]
                          /\ mine'[OutPoint]
    BY <1>0 DEF TypeOK, Points
  <1>2. TypeOK' /\ WritingOK'
    <2>1. dev' \in [Points -> DeviceValues] /\ mine' \in [Points -> BOOLEAN]
      BY <1>0 DEF TypeOK, DeviceValues
    <2> QED BY <2>1, <1>0, UnbegunTypes DEF TypeOK
  <1>3. (BackupGenuine /\ BackupOnDisk)'
    BY DEF IInv, BackupGenuine, BackupOnDisk, FreshOf
  <1>4. (BackupOfMine /\ BlockIsMine)'
    BY <1>0, <1>1 DEF IInv, BackupOfMine, BlockIsMine, Kept
  <1>5. FreshOK'
    BY <1>0 DEF IInv, FreshOK, FreshOf
  <1>6. (SavingOK /\ BlockingOK)'
    BY DEF IInv, SavingOK, BlockingOK
  <1>7. ReleasingOK'
    <2>1. ASSUME NEW c \in Callers, NEW i \in 1 .. task[c].step - 1
          PROVE  Steps(c)[i] \in Points /\ Steps(c)[i] # OutPoint
      <3>1. /\ Steps(c) = FlagSteps /\ task[c].step \in 1 .. Len(FlagSteps)
            /\ Len(FlagSteps) \in Nat
        BY <1>0, ProfileFacts, TaskFacts, StepsFacts
      <3>2. i \in 1 .. Len(FlagSteps) /\ i # Len(FlagSteps)
        BY <3>1
      <3> QED BY <3>1, <3>2, ProfileFacts, StepsFacts
    <2> QED BY <2>1, <1>0, <1>1 DEF IInv, ReleasingOK
  <1> QED BY <1>2, <1>3, <1>4, <1>5, <1>6, <1>7 DEF IInv

(* Where nothing of DvControl changes, its invariant stays.                 *)
LEMMA SameIInv ==
  ASSUME IInv, UNCHANGED <<others, dev, mine>>
  PROVE  IInv'
  BY StutterIInv DEF others, vars

(* A request answered or failed, of the first loop.                         *)
LEMMA ZeroClean ==
  ASSUME ZTypes, Clean, ZeroOk \/ ZeroFail
  PROVE  Clean'
  <1>. DEFINE r == Head(ztick.requests)
  <1>1. /\ UNCHANGED <<saved, disk, pending, last, task>>
        /\ ZList(ztick.requests) /\ ztick.requests # <<>>
        /\ ztick'.requests \in {<<>>, Tail(ztick.requests)}
        /\ \/ UNCHANGED <<dev, mine, byLoop>>
           \/ /\ Shared(r)
              /\ dev' = [dev EXCEPT ![OutPoint] = IF r = "charge" THEN Block ELSE Default]
              /\ mine' = [mine EXCEPT ![OutPoint] = TRUE]
    BY ZeroWrites
  <1>2. Shared(r) => last = "block" /\ Kept /\ \A c \in Callers : task[c].pc # "save"
    BY <1>1 DEF Clean, SharedBlocked, BlockSaved, Busy
  <1>3. IInv'
    BY <1>1, <1>2, LoopWrites, SameIInv DEF Clean, others
  <1>4. SharedBlocked'
    BY <1>1, ZListFacts DEF SharedBlocked, Busy
  <1>5. BlockSaved'
    BY <1>1 DEF Clean, BlockSaved, Kept
  <1>6. LoopSaved'
    <2>1. last = "block" => \A c \in Callers : OutPoint \notin FreshOf(c)
      BY DEF Clean, BlockSaved, IInv, FreshOK
    <2>2. byLoop' => Kept /\ \A c \in Callers : OutPoint \notin FreshOf(c)
      BY <1>1, <1>2, <2>1 DEF Clean, LoopSaved
    <2> QED BY <2>2, <1>1 DEF LoopSaved, Kept, FreshOf
  <1>7. FeedClean'
    BY <1>1, <1>2 DEF Clean, FeedClean
  <1> QED BY <1>3, <1>4, <1>5, <1>6, <1>7 DEF Clean

(* The other loop, and a tick that begins, write nothing of a block.        *)
LEMMA AsideClean ==
  ASSUME ZTypes, Clean, UNCHANGED <<others, dev, mine, byLoop>>,
         ztick' = ztick \/ SharedBlocked'
  PROVE  Clean'
  <1>1. IInv'
    BY SameIInv DEF Clean
  <1> QED
    BY <1>1
    DEF Clean, SharedBlocked, BlockSaved, LoopSaved, FeedClean, Kept, FreshOf, Busy, others

(* A tick of the first loop has the shared point in it only during a block. *)
LEMMA TickBlocked ==
  ASSUME ZTypes, zeroFeedInTick
  PROVE  SharedBlocked' /\ UNCHANGED <<others, dev, mine, byLoop>>
  <1>1. UNCHANGED <<others, dev, mine, byLoop>> /\ last' = last
    BY DEF zeroFeedInTick, vars, others
  <1>2. \/ ztick' = NoTick
        \/ ~Blocked /\ ztick' = Tick(<<"off">>, FALSE, TRUE)
        \/ Blocked
    BY DEF zeroFeedInTick, ZeroFree, ZeroBlocked
  <1>3. Tick(<<"off">>, FALSE, TRUE).requests = <<"off">> /\ NoTick.requests = <<>>
    BY TickFacts DEF Tick
  <1>4. Head(<<"off">>) = "off"
    OBVIOUS
  <1>5. SharedBlocked'
    <2>1. CASE ztick' = NoTick
      BY <2>1, <1>3 DEF SharedBlocked, Busy
    <2>2. CASE ztick' = Tick(<<"off">>, FALSE, TRUE)
      BY <2>2, <1>3, <1>4 DEF SharedBlocked, Shared
    <2>3. CASE Blocked
      BY <2>3, <1>1 DEF SharedBlocked, Blocked
    <2> QED BY <1>2, <2>1, <2>2, <2>3
  <1> QED BY <1>1, <1>5

(* A step of a caller keeps what the loop relies on, and the release of the *)
(* shared point takes the loop's value away, unless a tick is writing it.   *)
LEMMA CallerClean ==
  ASSUME ZTypes, Clean, Apart, Apart', NEW c \in Callers, CallerStep(c),
         UNCHANGED ztick, byLoop' = (byLoop /\ ~WritesOut(c)), ~Crosses(c)
  PROVE  Clean'
  <1>0. IInv /\ TypeOK /\ FlagCallers = Callers /\ Steps(c) = FlagSteps
    BY ProfileFacts DEF Clean, ZTypes
  <1>1. IInv'
    <2>1. Next
      BY DEF Next
    <2> QED BY <1>0, <2>1, StepIInv
  <1>2. \A d \in Callers : d # c => task'[d] = task[d]
    BY <1>0, OthersStay
  <1>3. RestoreWriteOk(c) /\ task[c].step = Len(FlagSteps)
          => WritesOut(c) /\ task[c].feedIn /\ ~byLoop' /\ last' = "feed"
    <2> SUFFICES ASSUME RestoreWriteOk(c), task[c].step = Len(FlagSteps)
                 PROVE  WritesOut(c) /\ task[c].feedIn /\ ~byLoop' /\ last' = "feed"
      OBVIOUS
    <2>1. WritesOut(c) /\ task[c].feedIn /\ ~byLoop'
      BY DEF WritesOut, RestoreWriteOk
    <2>. DEFINE t == task[c]
                sv == [saved EXCEPT ![Steps(c)[t.step]] = None]
    <2>2. Restorable(c, t.step + 1, t.own, sv) = {}
      BY <1>0, ProfileFacts, StepsFacts DEF Restorable
    <2>3. Complete(c, TRUE)
      BY <2>2 DEF RestoreWriteOk
    <2> QED BY <2>1, <2>3, ProfileFacts DEF Complete
  <1>4. SharedBlocked'
    <2>1. ASSUME Busy(ztick), Shared(Head(ztick.requests)) PROVE last' = "block"
      <3>1. last = "block" /\ Kept
        BY <2>1 DEF Clean, SharedBlocked, BlockSaved
      <3>2. ~(RestoreWriteOk(c) /\ task[c].step = Len(FlagSteps))
        BY <2>1, <1>3 DEF Crosses
      <3> QED BY <3>1, <3>2, <1>0, CacheStep
    <2> QED BY <2>1 DEF SharedBlocked, Busy
  <1>5. FeedClean'
    <2>1. ASSUME last' = "feed", byLoop' PROVE FALSE
      <3>1. byLoop /\ Kept
        BY <2>1 DEF Clean, LoopSaved
      <3>2. last' # last
        BY <2>1, <3>1 DEF Clean, FeedClean
      <3> QED BY <2>1, <3>1, <3>2, <1>0, <1>3, CacheStep
    <2> QED BY <2>1 DEF FeedClean
  <1>6. BlockSaved'
    <2>1. ASSUME last' = "block" PROVE Kept' /\ \A d \in Callers : task'[d].pc # "save"
      <3>1. CASE last' # last
        <4>1. Kept' /\ task'[c].pc = "idle" /\ task[c].pc # "idle"
          BY <2>1, <3>1, <1>0, CacheStep
        <4>2. \A d \in Callers : d # c => task[d].pc = "idle"
          BY <4>1, <1>0, OthersIdle
        <4> QED BY <4>1, <4>2, <1>2
      <3>2. CASE last' = last
        <4>1. Kept /\ \A d \in Callers : task[d].pc # "save"
          BY <2>1, <3>2 DEF Clean, BlockSaved
        <4>2. OutPoint \notin FreshOf(c)
          BY <4>1, <1>0 DEF IInv, FreshOK
        <4>3. Kept'
          BY <4>1, <4>2, <2>1, <1>0, <1>3, KeptStep
        <4>4. task'[c].pc # "save"
          BY <4>1, <3>2, <2>1, <1>0, NoNewSave
        <4> QED BY <4>1, <4>3, <4>4, <1>2
      <3> QED BY <3>1, <3>2
    <2> QED BY <2>1 DEF BlockSaved
  <1>7. LoopSaved'
    <2>1. ASSUME byLoop' PROVE Kept' /\ \A d \in Callers : OutPoint \notin FreshOf(d)'
      <3>1. Kept /\ \A d \in Callers : OutPoint \notin FreshOf(d)
        BY <2>1 DEF Clean, LoopSaved
      <3>2. Kept' /\ OutPoint \notin FreshOf(c)'
        BY <2>1, <3>1, <1>0, <1>3, KeptStep
      <3> QED BY <3>1, <3>2, <1>2 DEF FreshOf
    <2> QED BY <2>1 DEF LoopSaved
  <1> QED BY <1>1, <1>4, <1>5, <1>6, <1>7 DEF Clean

(* The file made up for.                                                    *)
LEMMA FlushClean ==
  ASSUME ZTypes, Clean, EvalFlush, UNCHANGED <<ztick, byLoop>>
  PROVE  Clean'
  <1>1. IInv'
    BY EvalFlushIInv DEF Clean
  <1>2. UNCHANGED <<saved, last, task>> /\ disk' \in {disk, saved}
    BY DEF EvalFlush, persistDvSeqSaved
  <1> QED
    BY <1>1, <1>2 DEF Clean, SharedBlocked, BlockSaved, LoopSaved, FeedClean, Kept, FreshOf, Busy

(* What happens outside.                                                    *)
LEMMA OutsideClean ==
  ASSUME ZTypes, Clean, CustomerStep \/ ZRestart
  PROVE  Clean'
  <1>1. CASE CustomerStep
    <2>1. PICK p \in FlagPoints, v \in Customer :
            CustomerSets(p, v) /\ byLoop' = (byLoop /\ p # OutPoint)
      BY <1>1 DEF CustomerStep
    <2>2. UNCHANGED <<saved, disk, pending, last, task, ztick>>
      BY <1>1, <2>1 DEF CustomerStep, CustomerSets
    <2>3. IInv'
      BY <2>1, CustomerSetsIInv DEF Clean, Points
    <2> QED
      BY <2>1, <2>2, <2>3
      DEF Clean, SharedBlocked, BlockSaved, LoopSaved, FeedClean, Kept, FreshOf, Busy
  <1>2. CASE ZRestart
    <2>1. /\ Restart /\ ztick' = NoTick /\ byLoop' = byLoop
          /\ last' = "undef" /\ saved' = disk /\ disk' = disk
          /\ task' = [c \in Callers |-> Idle]
      BY <1>2 DEF ZRestart, Restart
    <2>2. IInv'
      BY <2>1, RestartIInv DEF Clean
    <2>3. \A c \in Callers : FreshOf(c)' = {}
      BY <2>1 DEF Idle, FreshOf
    <2>4. (SharedBlocked /\ BlockSaved /\ FeedClean)'
      BY <2>1, TickFacts DEF SharedBlocked, BlockSaved, FeedClean, Busy
    <2>5. LoopSaved'
      BY <2>1, <2>3 DEF Clean, LoopSaved, Kept
    <2> QED BY <2>2, <2>4, <2>5 DEF Clean
  <1> QED BY <1>1, <1>2

(* The inductive invariant: as long as no release has crossed a tick ...    *)
ZInv == ZTypes /\ (~crossed => Clean)

(* ... the invariant holds at the start ...                                 *)
LEMMA InitZInv == ZInit => ZInv
  <1> SUFFICES ASSUME ZInit PROVE Clean
    BY InitZTypes DEF ZInv
  <1>1. IInv
    BY InitIInv DEF ZInit
  <1>2. ztick = NoTick /\ byLoop = FALSE /\ last = "undef"
    BY DEF ZInit, Init
  <1> QED
    BY <1>1, <1>2, TickFacts DEF Clean, SharedBlocked, BlockSaved, LoopSaved, FeedClean, Busy

(* ... and is kept by every step of callers that take turns.                *)
LEMMA StepZInv ==
  ASSUME ZInv, Apart, Apart', [ZNext]_zvars
  PROVE  ZInv'
  <1>1. ZTypes'
    BY StepZTypes DEF ZInv
  <1>2. ASSUME ~crossed' PROVE Clean'
    <2>1. ~crossed
      BY <1>2
      DEF ZNext, zeroFeedInTick, feedInCapTick, ZeroOk, ZeroFail, CapOk, CapFail, Lapse,
          LimitChanges, Sequences, CustomerStep, ZRestart, zvars
    <2>2. ZTypes /\ Clean
      BY <2>1 DEF ZInv
    <2>3. CASE ZeroOk \/ ZeroFail
      BY <2>2, <2>3, ZeroClean
    <2>4. CASE CapOk \/ CapFail
      BY <2>2, <2>4, CapWrites, AsideClean DEF others
    <2>5. CASE zeroFeedInTick
      BY <2>2, <2>5, TickBlocked, AsideClean
    <2>6. CASE feedInCapTick \/ Lapse \/ LimitChanges \/ UNCHANGED zvars
      <3>1. UNCHANGED <<others, dev, mine, byLoop, ztick>>
        BY <2>6 DEF feedInCapTick, Lapse, LimitChanges, vars, zvars, others
      <3> QED BY <3>1, <2>2, AsideClean
    <2>7. CASE Sequences
      <3>1. UNCHANGED ztick
        BY <2>7 DEF Sequences
      <3>2. CASE EvalFlush /\ UNCHANGED <<byLoop, crossed>>
        BY <3>1, <3>2, <2>2, FlushClean
      <3>3. CASE \E c \in Callers :
                   /\ CallerStep(c)
                   /\ byLoop' = (byLoop /\ ~WritesOut(c))
                   /\ crossed' = (crossed \/ Crosses(c))
        <4>1. PICK c \in Callers :
                /\ CallerStep(c)
                /\ byLoop' = (byLoop /\ ~WritesOut(c))
                /\ crossed' = (crossed \/ Crosses(c))
          BY <3>3
        <4>2. ~Crosses(c)
          BY <4>1, <1>2
        <4> QED BY <3>1, <4>1, <4>2, <2>2, CallerClean
      <3> QED BY <2>7, <3>2, <3>3 DEF Sequences
    <2>8. CASE CustomerStep \/ ZRestart
      BY <2>2, <2>8, OutsideClean
    <2> QED BY <2>3, <2>4, <2>5, <2>6, <2>7, <2>8 DEF ZNext
  <1> QED BY <1>1, <1>2 DEF ZInv

-----------------------------------------------------------------------------
(* Whoever blocks and releases, in turns, and however ticks come in         *)
(* between: unless a release and a tick write OutPoint at the same moment,  *)
(* what zeroFeedInTick writes there is backed like a block, is never saved  *)
(* as the customer's value, and is taken away by a release, through every   *)
(* failed request and every restart.                                        *)
THEOREM CustomersValuesReturn == ZSpec /\ []Apart => []CustomersBack
  <1>1. ZInit => ZInv
    BY InitZInv
  <1>2. ZInv /\ Apart /\ Apart' /\ [ZNext]_zvars => ZInv'
    BY StepZInv
  <1>3. ZInv => CustomersBack
    BY DEF ZInv, Clean, IInv, BackupOfMine, BlockBacked, FeedClean, CustomersBack
  <1> QED BY <1>1, <1>2, <1>3, PTL DEF ZSpec
=============================================================================
