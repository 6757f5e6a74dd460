----------------------- MODULE DvLimitController_proofs -----------------------
(***************************************************************************)
(* Proofs about DvLimitController, for any setpoints, reference power,     *)
(* lease and sources.                                                      *)
(*                                                                         *)
(* Curtailed holds whatever fails: failed writes, restarts and changes of  *)
(* the configuration.  That nothing is left at 100 percent, and that a     *)
(* lease is not cut short, holds while no limit has been lost or the       *)
(* limiter reconfigured (clean): then the state of the marketer is orderly *)
(* (Orderly), full, blocked or limited with nothing of the other two left, *)
(* and what is left of its lease follows from the age of the last write    *)
(* that counts (LeaseExact).                                               *)
(***************************************************************************)
EXTENDS DvLimitController, FeedInLimitArbiter_proofs

(* The arbiter knows limits only.                                           *)
SourcesOK == sources \in [Sources -> Values] /\ cap \in Values

(* The inductive invariant behind Curtailed.                                *)
CurtailedInv == DvTypeOK /\ SourcesOK /\ Curtailed

(* Full, blocked or limited, and the state that goes with it.               *)
ModeOf(d) ==
  \/ d.setpoint = 100 /\ ~d.forcedOff /\ d.limitPct = None
  \/ d.setpoint # 100 /\ d.forcedOff /\ d.limitPct = None
  \/ d.setpoint \notin {0, 100} /\ ~d.forcedOff /\ d.limitPct = d.setpoint

Mode == ModeOf(dv)

(* The write the lease counts from.                                         *)
Age == IF wdAge = Never THEN since ELSE wdAge

(* What is left of a lease.                                                 *)
LeaseExact ==
  /\ dv.forcedOff => dv.offLeft = Lease - Age
  /\ dv.limitPct # None => dv.limitLeft = Lease - Age

(* No limit is left where it does not belong.                               *)
LimitIn(d) ==
  /\ d.limitPct = None => sources["dv"] = None
  /\ ~canLimit => d.limitPct = None

Orderly == Mode /\ LeaseExact /\ LimitIn(dv)

(* The inductive invariant behind the other properties.                     *)
CleanInv == CurtailedInv /\ (clean => Orderly)

-----------------------------------------------------------------------------
(* The lease of a setpoint is one of the values a lease may have.           *)
LEMMA LeaseFacts ==
  ASSUME NEW age \in 0 .. Lease + 1 \union {Never}
  PROVE  /\ leaseLeft(age) \in Expired .. Lease
         /\ Lease \in Expired .. Lease
         /\ Expired \in Expired .. Lease
         /\ 0 \in 0 .. Lease + 1
         /\ Older(age) \in 0 .. Lease + 1 \union {Never}
         /\ age # Never => Older(age) # Never
  BY LeaseAssumption DEF leaseLeft, Expired, Older

(* None is no percentage and no limit.                                      *)
LEMMA PercentFacts ==
  ASSUME NEW p \in Percents
  PROVE  /\ p \in 0 .. 100
         /\ 0 < p /\ p < 100 => LimitOf(p) \in Values
         /\ p = 0 \/ p = 100 \/ (0 < p /\ p < 100)
  BY PercentsAssumption DEF LimitOf, Values

(* A command changes the limit of its source and nothing else the marketer  *)
(* depends on.                                                              *)
LEMMA CommandFacts ==
  ASSUME SourcesOK, NEW s \in Sources, NEW w \in Values, Command(s, w)
  PROVE  /\ sources' \in [Sources -> Values]
         /\ sources'[s] = w
         /\ \A r \in Sources : r # s => sources'[r] = sources[r]
         /\ rejected' = rejected
  BY DEF Command, SourcesOK

(* The states of the marketer.                                              *)
DvRecords ==
  [setpoint : Percents \union {100}, limitPct : Percents \union {None},
   limitLeft : Expired .. Lease, forcedOff : BOOLEAN, offLeft : Expired .. Lease]

(* What setDvLimitPct makes of any state of the marketer.                   *)
LEMMA SetpointFacts ==
  ASSUME SourcesOK, NEW d \in DvRecords, NEW p \in Percents \union {100},
         NEW age \in 0 .. Lease + 1 \union {Never}, setDvLimitPct(d, p, age)
  PROVE  /\ dv' \in DvRecords
         /\ sources' \in [Sources -> Values]
         /\ rejected' = rejected
         /\ Curtailed'
  <1>1. CASE p = 100 /\ SetFull(d)
    <2>1. dv' = Full
      BY <1>1 DEF SetFull
    <2>2. sources' \in [Sources -> Values] /\ rejected' = rejected
      BY <1>1, CommandFacts, DvAssumption DEF SetFull, releaseLimit, arbiter, SourcesOK, Values
    <2>3. Full \in DvRecords
      BY LeaseFacts DEF Full, DvRecords, Expired
    <2>4. Full.setpoint = 100
      BY DEF Full
    <2> QED BY <2>1, <2>2, <2>3, <2>4 DEF Curtailed
  <1>2. CASE p = 0 /\ SetOff(d, age)
    <2>1. sources' \in [Sources -> Values] /\ rejected' = rejected
      BY <1>2, CommandFacts, DvAssumption DEF SetOff, releaseLimit, arbiter, SourcesOK, Values
    <2>2. dv' \in DvRecords /\ dv'.forcedOff
      BY <1>2, LeaseFacts DEF SetOff, Off, Unlimited, DvRecords
    <2> QED BY <2>1, <2>2 DEF Curtailed
  <1>3. CASE 0 < p /\ p < 100 /\ SetPartial(d, p, age)
    <2>0. p \in Percents
      BY <1>3
    <2>1. CASE ~canLimit
      <3>. DEFINE e == [d EXCEPT !.setpoint = p]
      <3>a. e \in DvRecords
        BY <2>0 DEF DvRecords
      <3>b. dv' = Off(e, leaseLeft(age))
        BY <1>3, <2>1 DEF SetPartial
      <3>c. leaseLeft(age) \in Expired .. Lease
        BY LeaseFacts
      <3>1. dv' \in DvRecords /\ dv'.forcedOff
        <4>. HIDE DEF e
        <4> QED BY <3>a, <3>b, <3>c DEF Off, DvRecords
      <3>2. UNCHANGED <<sources, rejected>>
        BY <1>3, <2>1 DEF SetPartial, arbiter
      <3> QED BY <3>1, <3>2 DEF Curtailed, SourcesOK
    <2>2. CASE canLimit
      <3>. DEFINE limited == [setpoint |-> p, limitPct |-> p, limitLeft |-> leaseLeft(age),
                              forcedOff |-> FALSE, offLeft |-> Expired]
      <3>1. Command("dv", LimitOf(p))
        BY <1>3, <2>2 DEF SetPartial
      <3>2. /\ sources' \in [Sources -> Values] /\ sources'["dv"] = LimitOf(p)
            /\ rejected' = rejected
        BY <3>1, <2>0, <1>3, PercentFacts, CommandFacts, DvAssumption
      <3>3. limited \in DvRecords
        BY <2>0, LeaseFacts DEF DvRecords
      <3>4. /\ LimitFailed(limited, age) \in DvRecords
            /\ LimitFailed(limited, age).forcedOff
        BY <3>3, LeaseFacts DEF LimitFailed, Off, Unlimited, DvRecords
      <3>5. dv' = limited \/ dv' = LimitFailed(limited, age)
        BY <1>3, <2>2 DEF SetPartial
      <3>6. Curtailed'
        BY <3>2, <3>4, <3>5 DEF Curtailed
      <3> QED BY <3>2, <3>3, <3>4, <3>5, <3>6
    <2> QED BY <2>1, <2>2
  <1> QED BY <1>1, <1>2, <1>3 DEF setDvLimitPct

(* Refreshing the watchdog keeps the record of the marketer well formed.    *)
LEMMA RefreshFacts ==
  ASSUME NEW d \in DvRecords
  PROVE  /\ watchdogRefresh(d) \in DvRecords
         /\ watchdogRefresh(d).setpoint = d.setpoint
         /\ watchdogRefresh(d).limitPct = d.limitPct
         /\ watchdogRefresh(d).forcedOff = d.forcedOff
         /\ d.forcedOff => watchdogRefresh(d).offLeft = Lease
         /\ d.limitPct # None => watchdogRefresh(d).limitLeft = Lease
  <1>. DEFINE A == Percents \union {100}
              B == Percents \union {None}
              C == Expired .. Lease
              D == BOOLEAN
              off == IF d.forcedOff THEN Lease ELSE d.offLeft
              left == IF d.limitPct # None THEN Lease ELSE d.limitLeft
              halfway == [d EXCEPT !.offLeft = off]
              refreshed == [halfway EXCEPT !.limitLeft = left]
  <1>1. d \in [setpoint : A, limitPct : B, limitLeft : C, forcedOff : D, offLeft : C]
    BY DEF DvRecords
  <1>2. d.offLeft \in C /\ d.limitLeft \in C /\ Lease \in C
    BY LeaseAssumption DEF DvRecords, Expired
  <1>3. off \in C /\ left \in C
    BY <1>2
  <1>4. watchdogRefresh(d) = refreshed
    BY DEF watchdogRefresh
  <1>5. /\ d.forcedOff => off = Lease
        /\ d.limitPct # None => left = Lease
    OBVIOUS
  <1>. HIDE DEF A, B, C, D, off, left
  <1>6. /\ halfway \in [setpoint : A, limitPct : B, limitLeft : C, forcedOff : D, offLeft : C]
        /\ halfway.setpoint = d.setpoint /\ halfway.limitPct = d.limitPct
        /\ halfway.forcedOff = d.forcedOff /\ halfway.offLeft = off
    BY <1>1, <1>3
  <1>. HIDE DEF halfway
  <1>7. /\ refreshed \in [setpoint : A, limitPct : B, limitLeft : C, forcedOff : D, offLeft : C]
        /\ refreshed.setpoint = d.setpoint /\ refreshed.limitPct = d.limitPct
        /\ refreshed.forcedOff = d.forcedOff /\ refreshed.offLeft = off
        /\ refreshed.limitLeft = left
    BY <1>3, <1>6
  <1>. HIDE DEF refreshed
  <1>8. refreshed \in DvRecords
    BY <1>7 DEF DvRecords, A, B, C, D
  <1> QED BY <1>4, <1>5, <1>7, <1>8

(* The first half of the timer: an expired block is lifted.                 *)
LEMMA UnblockedFacts ==
  ASSUME NEW d \in DvRecords
  PROVE  /\ Unblocked(d) \in DvRecords
         /\ Unblocked(d) = d \/ (Unblocked(d).setpoint = 100 /\ ~Unblocked(d).forcedOff)
         /\ Unblocked(d).limitPct = d.limitPct
         /\ Unblocked(d).limitLeft = d.limitLeft
         /\ Unblocked(d) = d <=> ~(d.forcedOff /\ d.offLeft = Expired)
  BY DEF Unblocked, DvRecords

(* The history stays a Boolean.                                             *)
LEMMA CleanBoolean ==
  ASSUME DvTypeOK, [DvNext]_dvVars
  PROVE  clean' \in BOOLEAN
  BY DEF DvTypeOK, DvNext, dvVars, marketer, MarketerStep, WriteSetpoint, WriteBoth, Accepted,
     WriteWatchdog, ExpireLease, Tick, DvWriteFail, ConfigChanged, DvRestart, OthersStep

(* Every step keeps the invariant behind Curtailed.                         *)
LEMMA CurtailedStep ==
  ASSUME CurtailedInv, [DvNext]_dvVars
  PROVE  CurtailedInv'
  <1>0. /\ dv \in DvRecords /\ wdAge \in 0 .. Lease + 1 \union {Never}
        /\ since \in 0 .. Lease + 1 /\ canLimit \in BOOLEAN
        /\ sources \in [Sources -> Values] /\ cap \in Values /\ SourcesOK
    BY DEF CurtailedInv, DvTypeOK, SourcesOK, DvRecords
  <1>c. clean' \in BOOLEAN
    BY CleanBoolean DEF CurtailedInv
  <1>1. CASE \E p \in Percents : WriteSetpoint(p)
    <2>1. PICK p \in Percents : WriteSetpoint(p)
      BY <1>1
    <2>2. setDvLimitPct(dv, p, wdAge) /\ since' = 0 /\ UNCHANGED <<wdAge, canLimit, cap>>
      BY <2>1 DEF WriteSetpoint
    <2>3. dv' \in DvRecords /\ sources' \in [Sources -> Values] /\ Curtailed'
      BY <1>0, <2>2, SetpointFacts
    <2> QED BY <1>0, <1>c, <2>2, <2>3, LeaseFacts DEF CurtailedInv, DvTypeOK, SourcesOK, DvRecords
  <1>2. CASE \E p \in Percents : WriteBoth(p)
    <2>1. PICK p \in Percents : WriteBoth(p)
      BY <1>2
    <2>2. /\ setDvLimitPct(watchdogRefresh(dv), p, 0)
          /\ wdAge' = 0 /\ since' = 0 /\ UNCHANGED <<canLimit, cap>>
      BY <2>1 DEF WriteBoth
    <2>3. 0 \in 0 .. Lease + 1
      BY LeaseAssumption
    <2>4. dv' \in DvRecords /\ sources' \in [Sources -> Values] /\ Curtailed'
      BY <1>0, <2>2, <2>3, SetpointFacts, RefreshFacts
    <2> QED BY <1>0, <1>c, <2>2, <2>3, <2>4 DEF CurtailedInv, DvTypeOK, SourcesOK, DvRecords
  <1>3. CASE WriteWatchdog
    <2>1. dv' = watchdogRefresh(dv) /\ wdAge' = 0 /\ UNCHANGED <<since, canLimit, sources, cap>>
      BY <1>3 DEF WriteWatchdog, arbiter
    <2>2. 0 \in 0 .. Lease + 1
      BY LeaseAssumption
    <2> QED BY <1>0, <1>c, <2>1, <2>2, RefreshFacts
        DEF CurtailedInv, DvTypeOK, SourcesOK, DvRecords, Curtailed
  <1>4. CASE ExpireLease
    <2>1. UNCHANGED <<wdAge, since, canLimit, cap>>
      BY <1>4 DEF ExpireLease
    <2>2. CASE SetFull(Unblocked(dv))
      <3>1. 100 \in Percents \union {100} /\ setDvLimitPct(Unblocked(dv), 100, wdAge)
        BY <2>2 DEF setDvLimitPct
      <3>2. dv' \in DvRecords /\ sources' \in [Sources -> Values] /\ Curtailed'
        BY <1>0, <3>1, SetpointFacts, UnblockedFacts
      <3> QED BY <1>0, <1>c, <2>1, <3>2 DEF CurtailedInv, DvTypeOK, SourcesOK, DvRecords
    <2>3. CASE dv' = Unblocked(dv) /\ UNCHANGED arbiter
      <3>1. sources' = sources
        BY <2>3 DEF arbiter
      <3>2. Curtailed'
        BY <1>0, <2>3, <3>1, UnblockedFacts DEF Curtailed, CurtailedInv
      <3> QED BY <1>0, <1>c, <2>1, <2>3, <3>1, <3>2, UnblockedFacts
          DEF CurtailedInv, DvTypeOK, SourcesOK, DvRecords
    <2> QED BY <1>4, <2>2, <2>3 DEF ExpireLease
  <1>5. CASE Tick
    <2>1. /\ wdAge' = Older(wdAge) /\ since' = Older(since)
          /\ dv' = [dv EXCEPT !.limitLeft = Less(@), !.offLeft = Less(@)]
          /\ UNCHANGED <<sources, cap, canLimit>>
      BY <1>5 DEF Tick, arbiter
    <2>2. /\ wdAge' \in 0 .. Lease + 1 \union {Never}
          /\ since' \in 0 .. Lease + 1
      BY <1>0, <2>1, LeaseAssumption DEF Older
    <2>3. Less(dv.limitLeft) \in Expired .. Lease /\ Less(dv.offLeft) \in Expired .. Lease
      BY <1>0, LeaseAssumption DEF Less, Expired, DvRecords
    <2>4. /\ dv' \in DvRecords /\ dv'.setpoint = dv.setpoint
          /\ dv'.limitPct = dv.limitPct /\ dv'.forcedOff = dv.forcedOff
      BY <1>0, <2>1, <2>3 DEF DvRecords
    <2> QED BY <1>0, <1>c, <2>1, <2>2, <2>4 DEF CurtailedInv, DvTypeOK, SourcesOK, DvRecords, Curtailed
  <1>6. CASE DvWriteFail
    <2>1. UNCHANGED <<wdAge, since, canLimit, sources, cap>>
      BY <1>6 DEF DvWriteFail, WriteFail
    <2>2. /\ LimitFailed(dv, wdAge) \in DvRecords
          /\ LimitFailed(dv, wdAge).forcedOff
      BY <1>0, LeaseFacts DEF LimitFailed, Off, Unlimited, DvRecords
    <2>3. dv' = dv \/ dv' = LimitFailed(dv, wdAge)
      BY <1>6 DEF DvWriteFail
    <2> QED BY <1>0, <1>c, <2>1, <2>2, <2>3 DEF CurtailedInv, DvTypeOK, SourcesOK, DvRecords, Curtailed
  <1>7. CASE ConfigChanged
    BY <1>0, <1>c, <1>7 DEF ConfigChanged, arbiter, inverter, CurtailedInv, DvTypeOK, SourcesOK, Curtailed
  <1>8. CASE DvRestart
    <2>1. /\ dv' = Full /\ wdAge' = Never /\ since' = 0 /\ UNCHANGED <<canLimit, cap>>
          /\ sources' \in [Sources -> Values]
      BY <1>8 DEF DvRestart, Restart, Values
    <2>2. Full \in DvRecords /\ Full.setpoint = 100 /\ 0 \in 0 .. Lease + 1
      BY LeaseAssumption DEF Full, DvRecords, Expired
    <2> QED BY <1>0, <1>c, <2>1, <2>2 DEF CurtailedInv, DvTypeOK, SourcesOK, DvRecords, Curtailed
  <1>9. CASE OthersStep
    <2>1. UNCHANGED <<dv, wdAge, since, canLimit>>
      BY <1>9 DEF OthersStep, marketer
    <2>2. /\ sources' \in [Sources -> Values] /\ cap' \in Values
          /\ sources'["dv"] = sources["dv"]
      <3>1. CASE \E s \in Sources \ {"dv"}, w \in Values : SourceCommand(s, w)
        BY <1>0, <3>1, CommandFacts, DvAssumption DEF SourceCommand
      <3>2. CASE \E w \in Caps : CapConfigured(w)
        BY <1>0, <3>2, CapsAssumption DEF CapConfigured, arbiter, Values
      <3>3. CASE CapTick
        BY <1>0, <3>3, CommandFacts, DvAssumption, SourcesAssumption DEF CapTick
      <3>4. CASE CapReadback \/ WriteOk
        BY <1>0, <3>4 DEF CapReadback, Reapply, WriteOk
      <3> QED BY <1>9, <3>1, <3>2, <3>3, <3>4 DEF OthersStep
    <2> QED BY <1>0, <1>c, <2>1, <2>2 DEF CurtailedInv, DvTypeOK, SourcesOK, Curtailed
  <1>10. CASE UNCHANGED dvVars
    BY <1>10 DEF dvVars, arbiter, inverter, marketer, CurtailedInv, DvTypeOK, SourcesOK, Curtailed
  <1> QED BY <1>1, <1>2, <1>3, <1>4, <1>5, <1>6, <1>7, <1>8, <1>9, <1>10 DEF DvNext, MarketerStep

(* The start keeps to it as well.                                           *)
LEMMA CurtailedInit == DvInit => CurtailedInv
  <1>. SUFFICES ASSUME DvInit PROVE CurtailedInv
    OBVIOUS
  <1>1. Full \in DvRecords /\ Full.setpoint = 100 /\ 0 \in 0 .. Lease + 1
    BY LeaseAssumption DEF Full, DvRecords, Expired
  <1>2. dv = Full /\ wdAge = Never /\ since = 0 /\ clean = TRUE /\ canLimit \in BOOLEAN
    BY DEF DvInit
  <1>3. SourcesOK
    BY CapsAssumption DEF DvInit, Init, SourcesOK, Values
  <1> QED BY <1>1, <1>2, <1>3 DEF CurtailedInv, DvTypeOK, DvRecords, Curtailed

(* The state of the marketer keeps its type: no lease is ever longer than   *)
(* LUOX_WATCHDOG_MS.                                                        *)
THEOREM DvTypeCorrect == DvSpec => []DvTypeOK
  <1>1. CurtailedInv => DvTypeOK
    BY DEF CurtailedInv
  <1> QED BY <1>1, CurtailedInit, CurtailedStep, PTL DEF DvSpec

(* A setpoint below 100 is always a block or a limit the arbiter knows,     *)
(* whatever fails and whatever is reconfigured (setDvLimitPct).             *)
THEOREM AlwaysCurtailed == DvSpec => []Curtailed
  <1>1. CurtailedInv => Curtailed
    BY DEF CurtailedInv
  <1> QED BY <1>1, CurtailedInit, CurtailedStep, PTL DEF DvSpec

-----------------------------------------------------------------------------
(* What setDvLimitPct makes of an orderly state when it is not refused.     *)
LEMMA CleanSetpoint ==
  ASSUME SourcesOK, NEW d \in DvRecords, LimitIn(d), NEW p \in Percents \union {100},
         NEW age \in 0 .. Lease + 1 \union {Never}, setDvLimitPct(d, p, age),
         ~(0 < p /\ p < 100 /\ canLimit /\ RefusedAtOnce("dv", LimitOf(p))),
         canLimit' = canLimit
  PROVE  /\ ModeOf(dv')
         /\ dv'.forcedOff => dv'.offLeft = leaseLeft(age)
         /\ dv'.limitPct # None => dv'.limitLeft = leaseLeft(age)
         /\ LimitIn(dv)'
  <1>0. None \in Values /\ (d.limitPct = None => sources["dv"] = None)
    BY DEF Values, LimitIn
  <1>1. CASE p = 100 /\ SetFull(d)
    <2>1. dv' = Full
      BY <1>1 DEF SetFull
    <2>2. sources'["dv"] = None
      BY <1>0, <1>1, CommandFacts, DvAssumption DEF SetFull, releaseLimit, arbiter
    <2> QED BY <2>1, <2>2 DEF Full, ModeOf, LimitIn
  <1>2. CASE p = 0 /\ SetOff(d, age)
    <2>1. sources'["dv"] = None
      BY <1>0, <1>2, CommandFacts, DvAssumption DEF SetOff, releaseLimit, arbiter
    <2>2. /\ dv'.setpoint = 0 /\ dv'.forcedOff /\ dv'.limitPct = None
          /\ dv'.offLeft = leaseLeft(age)
      BY <1>2 DEF SetOff, Off, Unlimited, DvRecords
    <2> QED BY <2>1, <2>2 DEF ModeOf, LimitIn
  <1>3. CASE 0 < p /\ p < 100 /\ SetPartial(d, p, age)
    <2>0. p \in Percents /\ p \notin {0, 100} /\ p # None
      BY <1>3, PercentsAssumption
    <2>1. CASE ~canLimit
      <3>1. dv' = Off([d EXCEPT !.setpoint = p], leaseLeft(age)) /\ UNCHANGED arbiter
        BY <1>3, <2>1 DEF SetPartial
      <3>2. /\ dv'.setpoint = p /\ dv'.forcedOff /\ dv'.limitPct = d.limitPct
            /\ dv'.offLeft = leaseLeft(age)
        BY <3>1 DEF Off, DvRecords
      <3>3. d.limitPct = None
        BY <2>1 DEF LimitIn
      <3> QED BY <1>0, <2>0, <3>1, <3>2, <3>3 DEF ModeOf, LimitIn, arbiter
    <2>2. CASE canLimit
      <3>1. /\ Command("dv", LimitOf(p))
            /\ dv' = [setpoint |-> p, limitPct |-> p, limitLeft |-> leaseLeft(age),
                      forcedOff |-> FALSE, offLeft |-> Expired]
        BY <1>3, <2>2 DEF SetPartial
      <3> QED BY <2>0, <2>2, <3>1 DEF ModeOf, LimitIn
    <2> QED BY <2>1, <2>2
  <1> QED BY <1>1, <1>2, <1>3 DEF setDvLimitPct

(* An orderly state, from the facts about a setpoint.                       *)
LEMMA OrderlyFrom ==
  ASSUME ModeOf(dv'), LimitIn(dv)',
         dv'.forcedOff => dv'.offLeft = Lease - Age',
         dv'.limitPct # None => dv'.limitLeft = Lease - Age'
  PROVE  Orderly'
  BY DEF Orderly, Mode, LeaseExact

(* Every step but a restart that loses no limit keeps the state orderly.    *)
LEMMA OrderlyStep ==
  ASSUME CurtailedInv, Orderly, clean', [DvNext]_dvVars, ~DvRestart
  PROVE  Orderly'
  <1>0. /\ dv \in DvRecords /\ wdAge \in 0 .. Lease + 1 \union {Never}
        /\ since \in 0 .. Lease + 1 /\ SourcesOK
        /\ ModeOf(dv) /\ LimitIn(dv)
    BY DEF Orderly, CurtailedInv, DvTypeOK, DvRecords, Mode
  <1>1. CASE \E p \in Percents : WriteSetpoint(p)
    <2>1. PICK p \in Percents : WriteSetpoint(p)
      BY <1>1
    <2>2. /\ setDvLimitPct(dv, p, wdAge) /\ since' = 0 /\ wdAge' = wdAge /\ canLimit' = canLimit
          /\ ~(0 < p /\ p < 100 /\ canLimit /\ RefusedAtOnce("dv", LimitOf(p)))
      BY <2>1 DEF WriteSetpoint, Accepted
    <2>3. leaseLeft(wdAge) = Lease - Age'
      BY <2>2, LeaseAssumption DEF leaseLeft, Age
    <2> QED BY <1>0, <2>2, <2>3, CleanSetpoint, OrderlyFrom
  <1>2. CASE \E p \in Percents : WriteBoth(p)
    <2>1. PICK p \in Percents : WriteBoth(p)
      BY <1>2
    <2>2. /\ setDvLimitPct(watchdogRefresh(dv), p, 0) /\ wdAge' = 0 /\ canLimit' = canLimit
          /\ ~(0 < p /\ p < 100 /\ canLimit /\ RefusedAtOnce("dv", LimitOf(p)))
      BY <2>1 DEF WriteBoth, Accepted
    <2>3. 0 \in 0 .. Lease + 1 /\ 0 # Never
      BY LeaseAssumption
    <2>4. leaseLeft(0) = Lease - Age'
      BY <2>2, <2>3 DEF leaseLeft, Age
    <2>5. watchdogRefresh(dv) \in DvRecords /\ LimitIn(watchdogRefresh(dv))
      BY <1>0, RefreshFacts DEF LimitIn
    <2> QED BY <1>0, <2>2, <2>3, <2>4, <2>5, CleanSetpoint, OrderlyFrom
  <1>3. CASE WriteWatchdog
    <2>1. dv' = watchdogRefresh(dv) /\ wdAge' = 0 /\ UNCHANGED <<canLimit, sources>>
      BY <1>3 DEF WriteWatchdog, arbiter
    <2>2. Lease = Lease - Age'
      BY <2>1, LeaseAssumption DEF Age
    <2>3. ModeOf(dv') /\ LimitIn(dv)'
      BY <1>0, <2>1, RefreshFacts DEF ModeOf, LimitIn
    <2>4. /\ dv'.forcedOff => dv'.offLeft = Lease
          /\ dv'.limitPct # None => dv'.limitLeft = Lease
      BY <1>0, <2>1, RefreshFacts
    <2> QED BY <2>2, <2>3, <2>4, OrderlyFrom
  <1>4. CASE ExpireLease
    <2>1. UNCHANGED <<wdAge, since, canLimit>>
      BY <1>4 DEF ExpireLease
    <2>2. CASE SetFull(Unblocked(dv))
      <3>1. setDvLimitPct(Unblocked(dv), 100, wdAge)
        BY <2>2 DEF setDvLimitPct
      <3>2. Unblocked(dv) \in DvRecords /\ LimitIn(Unblocked(dv))
        BY <1>0, UnblockedFacts DEF LimitIn
      <3>3. ModeOf(dv') /\ LimitIn(dv)'
        BY <1>0, <2>1, <3>1, <3>2, CleanSetpoint
      <3>4. ~dv'.forcedOff /\ dv'.limitPct = None
        BY <2>2 DEF SetFull, Full
      <3> QED BY <3>3, <3>4, OrderlyFrom
    <2>3. CASE ~LimitExpired(Unblocked(dv)) /\ dv' = Unblocked(dv) /\ UNCHANGED arbiter
      <3>1. dv.forcedOff /\ dv.offLeft = Expired
        BY <1>0, <1>4, <2>3, UnblockedFacts DEF ExpireLease, Expirable
      <3>2. dv'.setpoint = 100 /\ ~dv'.forcedOff /\ dv'.limitPct = None /\ dv.limitPct = None
        BY <1>0, <2>3, <3>1, UnblockedFacts DEF ModeOf
      <3>3. LimitIn(dv)'
        BY <1>0, <2>1, <2>3, <3>2 DEF LimitIn, arbiter
      <3> QED BY <3>2, <3>3, OrderlyFrom DEF ModeOf
    <2> QED BY <1>4, <2>2, <2>3 DEF ExpireLease
  <1>5. CASE Tick
    <2>1. /\ wdAge' = Older(wdAge) /\ since' = Older(since)
          /\ dv' = [dv EXCEPT !.limitLeft = Less(@), !.offLeft = Less(@)]
          /\ UNCHANGED <<sources, canLimit>> /\ ~Expirable
      BY <1>5 DEF Tick, arbiter
    <2>2. /\ dv'.setpoint = dv.setpoint /\ dv'.limitPct = dv.limitPct
          /\ dv'.forcedOff = dv.forcedOff
          /\ dv'.limitLeft = Less(dv.limitLeft) /\ dv'.offLeft = Less(dv.offLeft)
      BY <1>0, <2>1 DEF DvRecords
    <2>3. Age \in 0 .. Lease + 1
      BY <1>0 DEF Age
    <2>4. Age <= Lease => Age' = Age + 1
      <3>1. since # Never
        BY <1>0, LeaseAssumption
      <3>2. CASE wdAge = Never
        BY <2>1, <3>1, <3>2, <1>0, LeaseAssumption DEF Age, Older
      <3>3. CASE wdAge # Never
        <4>1. wdAge' # Never
          BY <1>0, <2>1, <3>3, LeaseFacts
        <4> QED BY <2>1, <3>3, <4>1, <1>0, LeaseAssumption DEF Age, Older
      <3> QED BY <3>2, <3>3
    <2>5. dv'.forcedOff => dv'.offLeft = Lease - Age'
      <3>. SUFFICES ASSUME dv.forcedOff PROVE dv'.offLeft = Lease - Age'
        BY <2>2
      <3>1. dv.offLeft = Lease - Age /\ dv.offLeft # Expired
        BY <2>1 DEF Orderly, LeaseExact, Expirable
      <3>2. Age <= Lease
        BY <2>3, <3>1, LeaseAssumption DEF Expired
      <3> QED BY <2>2, <2>3, <2>4, <3>1, <3>2, LeaseAssumption DEF Less
    <2>6. dv'.limitPct # None => dv'.limitLeft = Lease - Age'
      <3>. SUFFICES ASSUME dv.limitPct # None PROVE dv'.limitLeft = Lease - Age'
        BY <2>2
      <3>1. dv.limitLeft = Lease - Age /\ dv.limitLeft # Expired
        BY <2>1 DEF Orderly, LeaseExact, Expirable, LimitExpired
      <3>2. Age <= Lease
        BY <2>3, <3>1, LeaseAssumption DEF Expired
      <3> QED BY <2>2, <2>3, <2>4, <3>1, <3>2, LeaseAssumption DEF Less
    <2>7. ModeOf(dv') /\ LimitIn(dv)'
      BY <1>0, <2>1, <2>2 DEF ModeOf, LimitIn
    <2> QED BY <2>5, <2>6, <2>7, OrderlyFrom
  <1>6. CASE DvWriteFail
    <2>1. UNCHANGED <<dv, wdAge, since, canLimit, sources>>
      BY <1>6 DEF DvWriteFail, WriteFail
    <2> QED BY <2>1 DEF Orderly, Mode, LeaseExact, LimitIn, Age
  <1>7. CASE ConfigChanged
    BY <1>7 DEF ConfigChanged
  <1>8. CASE OthersStep
    <2>1. UNCHANGED <<dv, wdAge, since, canLimit>>
      BY <1>8 DEF OthersStep, marketer
    <2>2. sources'["dv"] = sources["dv"]
      <3>1. CASE \E s \in Sources \ {"dv"}, w \in Values : SourceCommand(s, w)
        BY <1>0, <3>1, CommandFacts, DvAssumption DEF SourceCommand
      <3>2. CASE \E w \in Caps : CapConfigured(w)
        BY <3>2 DEF CapConfigured, arbiter
      <3>3. CASE CapTick
        BY <1>0, <3>3, CommandFacts, DvAssumption, SourcesAssumption DEF CapTick, SourcesOK
      <3>4. CASE CapReadback \/ WriteOk
        BY <3>4 DEF CapReadback, Reapply, WriteOk
      <3> QED BY <1>8, <3>1, <3>2, <3>3, <3>4 DEF OthersStep
    <2> QED BY <2>1, <2>2 DEF Orderly, Mode, LeaseExact, LimitIn, Age
  <1>9. CASE UNCHANGED dvVars
    BY <1>9 DEF dvVars, arbiter, marketer, Orderly, Mode, LeaseExact, LimitIn, Age
  <1> QED BY <1>1, <1>2, <1>3, <1>4, <1>5, <1>6, <1>7, <1>8, <1>9 DEF DvNext, MarketerStep

(* The start is orderly.                                                    *)
LEMMA CleanInit == DvInit => CleanInv
  <1>. SUFFICES ASSUME DvInit PROVE Orderly
    BY CurtailedInit DEF CleanInv
  <1>1. dv = Full /\ sources["dv"] = None
    BY DvAssumption DEF DvInit, Init
  <1> QED BY <1>1 DEF Full, Orderly, Mode, ModeOf, LeaseExact, LimitIn

(* A limit once lost stays lost until the next start.                       *)
LEMMA CleanBefore ==
  ASSUME [DvNext]_dvVars, clean', ~DvRestart
  PROVE  clean
  BY DEF DvNext, dvVars, marketer, MarketerStep, WriteSetpoint, WriteBoth, Accepted,
     WriteWatchdog, ExpireLease, Tick, DvWriteFail, ConfigChanged, OthersStep

(* A restart is orderly, and every other step keeps the state orderly.      *)
LEMMA CleanStep == CleanInv /\ [DvNext]_dvVars => CleanInv'
  <1>. SUFFICES ASSUME CleanInv, [DvNext]_dvVars, clean' PROVE Orderly'
    BY CurtailedStep DEF CleanInv
  <1>1. CASE DvRestart
    <2>1. dv' = Full /\ sources'["dv"] = None
      BY <1>1, DvAssumption DEF DvRestart, Restart
    <2> QED BY <2>1 DEF Full, Orderly, Mode, ModeOf, LeaseExact, LimitIn
  <1>2. CASE ~DvRestart
    BY <1>2, CleanBefore, OrderlyStep DEF CleanInv
  <1> QED BY <1>1, <1>2

(* While no limit is lost, nothing of the marketer is left at 100 percent:  *)
(* no block, and no limit with the arbiter (setDvLimitPct, expireIfNeeded). *)
THEOREM FullIsFree == DvSpec => []NothingLeft
  <1>1. CleanInv => NothingLeft
    <2>. SUFFICES ASSUME CleanInv, clean, dv.setpoint = 100
                  PROVE  ~dv.forcedOff /\ sources["dv"] = None
      BY DEF NothingLeft
    <2> QED BY DEF CleanInv, Orderly, Mode, ModeOf, LimitIn
  <1> QED BY <1>1, CleanInit, CleanStep, PTL DEF DvSpec

(* A lease that ends has run out.                                           *)
LEMMA LeaseRanOut ==
  ASSUME CleanInv, clean, DvNext, dv.setpoint < 100, dv'.setpoint = 100,
         ~MarketerStep, ~DvRestart
  PROVE  IF wdAge = Never THEN since > Lease ELSE wdAge > Lease
  <1>1. dv \in DvRecords /\ wdAge \in 0 .. Lease + 1 \union {Never} /\ since \in 0 .. Lease + 1
    BY DEF CleanInv, CurtailedInv, DvTypeOK, DvRecords
  <1>2. dv'.setpoint # dv.setpoint
    OBVIOUS
  <1>10. "setpoint" \in DOMAIN dv
    BY <1>1 DEF DvRecords
  <1>3. ~Tick
    <2>. SUFFICES ASSUME Tick PROVE FALSE
      OBVIOUS
    <2>1. dv' = [dv EXCEPT !.limitLeft = Less(dv.limitLeft), !.offLeft = Less(dv.offLeft)]
      BY DEF Tick
    <2>2. dv'.setpoint = dv.setpoint
      BY <2>1, <1>10
    <2> QED BY <1>2, <2>2
  <1>4. ~DvWriteFail
    <2>1. LimitFailed(dv, wdAge).setpoint = dv.setpoint
      BY <1>10 DEF LimitFailed, Off, Unlimited
    <2> QED BY <1>2, <2>1 DEF DvWriteFail
  <1>5. ~ConfigChanged /\ ~OthersStep
    BY <1>2 DEF ConfigChanged, OthersStep, marketer
  <1>6. Expirable
    BY <1>3, <1>4, <1>5 DEF DvNext, ExpireLease
  <1>7. Lease - Age = Expired
    BY <1>6 DEF CleanInv, Orderly, LeaseExact, Expirable, LimitExpired
  <1>8. Age \in 0 .. Lease + 1
    BY <1>1 DEF Age
  <1>9. Age > Lease
    BY <1>7, <1>8, LeaseAssumption DEF Expired
  <1> QED BY <1>9 DEF Age

(* While no limit is lost, a curtailment ends by a command, a restart, or   *)
(* when its lease has run out, never before.                                *)
THEOREM LeaseIsHeld == DvSpec => LeaseHeld
  <1>1. CleanInv /\ [DvNext]_dvVars =>
          [ (clean /\ dv.setpoint < 100 /\ dv'.setpoint = 100) =>
              \/ MarketerStep \/ DvRestart
              \/ IF wdAge = Never THEN since > Lease ELSE wdAge > Lease ]_dvVars
    BY LeaseRanOut
  <1> QED BY <1>1, CleanInit, CleanStep, PTL DEF DvSpec, LeaseHeld
-----------------------------------------------------------------------------
(* What the marketer does to the arbiter is one command of the source "dv". *)
LEMMA SetpointCommand ==
  ASSUME NEW d, NEW p \in Percents, NEW age, setDvLimitPct(d, p, age),
         UNCHANGED <<inverter, cap>>
  PROVE  [Next]_vars
  <1>1. None \in Values /\ "dv" \in Sources /\ "dv" # "fixed"
    BY DvAssumption DEF Values
  <1>2. ASSUME NEW w \in Values, Command("dv", w) PROVE Next
    BY <1>1, <1>2 DEF SourceCommand, Next
  <1>3. ASSUME UNCHANGED arbiter PROVE UNCHANGED vars
    BY <1>3 DEF arbiter, inverter, vars
  <1>4. releaseLimit(d) => [Next]_vars
    BY <1>1, <1>2, <1>3 DEF releaseLimit
  <1>5. CASE 0 < p /\ p < 100 /\ SetPartial(d, p, age)
    BY <1>2, <1>3, <1>5, PercentFacts DEF SetPartial
  <1> QED BY <1>4, <1>5 DEF setDvLimitPct, SetFull, SetOff

(* Every step of the marketer is a step of the arbiter, or leaves it alone. *)
LEMMA MarketerStepIsArbiterStep ==
  ASSUME [DvNext]_dvVars
  PROVE  [Next]_vars
  <1>1. CASE \E p \in Percents : WriteSetpoint(p) \/ WriteBoth(p)
    BY <1>1, SetpointCommand DEF WriteSetpoint, WriteBoth
  <1>2. CASE WriteWatchdog \/ Tick \/ ConfigChanged
    BY <1>2 DEF WriteWatchdog, Tick, ConfigChanged, arbiter, inverter, vars
  <1>3. CASE ExpireLease
    <2>1. CASE UNCHANGED arbiter
      BY <1>3, <2>1 DEF ExpireLease, arbiter, inverter, vars
    <2>2. CASE Command("dv", None)
      <3>1. None \in Values /\ "dv" \in Sources /\ "dv" # "fixed"
        BY DvAssumption DEF Values
      <3> QED BY <1>3, <2>2, <3>1 DEF ExpireLease, SourceCommand, Next
    <2> QED BY <1>3, <2>1, <2>2 DEF ExpireLease, SetFull, releaseLimit
  <1>4. CASE DvWriteFail \/ DvRestart \/ OthersStep
    BY <1>4 DEF DvWriteFail, DvRestart, OthersStep, Next
  <1>5. CASE UNCHANGED dvVars
    BY <1>5 DEF dvVars, arbiter, inverter, vars
  <1> QED BY <1>1, <1>2, <1>3, <1>4, <1>5 DEF DvNext, MarketerStep

(* The marketer with the arbiter implements the arbiter: it is one of the   *)
(* sources, and nothing it does is more than a source may do.               *)
THEOREM MarketerIsSource == DvSpec => Spec
  <1>1. DvInit => Init
    BY DEF DvInit
  <1>2. [DvNext]_dvVars => [Next]_vars
    BY MarketerStepIsArbiterStep
  <1> QED BY <1>1, <1>2, PTL DEF DvSpec, Spec

(* A limit in force is a partial one, and the arbiter has it.               *)
LimitKnown ==
  dv.limitPct # None =>
    /\ 0 < dv.limitPct /\ dv.limitPct < 100
    /\ sources["dv"] = LimitOf(dv.limitPct)

(* A new setpoint keeps it.                                                 *)
LEMMA SetpointKnown ==
  ASSUME SourcesOK, LimitKnown, NEW d \in DvRecords, d.limitPct = dv.limitPct,
         NEW p \in Percents \union {100}, NEW age, setDvLimitPct(d, p, age)
  PROVE  LimitKnown'
  <1>1. CASE p = 100 /\ SetFull(d)
    BY <1>1 DEF SetFull, Full, LimitKnown
  <1>2. CASE p = 0 /\ SetOff(d, age)
    <2>1. dv'.limitPct = None
      BY <1>2 DEF SetOff, Off, Unlimited, DvRecords
    <2> QED BY <2>1 DEF LimitKnown
  <1>3. CASE 0 < p /\ p < 100 /\ SetPartial(d, p, age) /\ ~canLimit
    <2>1. dv'.limitPct = d.limitPct /\ sources' = sources
      BY <1>3 DEF SetPartial, Off, DvRecords, arbiter
    <2> QED BY <2>1 DEF LimitKnown
  <1>4. CASE 0 < p /\ p < 100 /\ SetPartial(d, p, age) /\ canLimit
    <2>. DEFINE limited == [setpoint |-> p, limitPct |-> p, limitLeft |-> leaseLeft(age),
                            forcedOff |-> FALSE, offLeft |-> Expired]
    <2>1. Command("dv", LimitOf(p)) /\ p \in Percents
      BY <1>4 DEF SetPartial
    <2>2. sources'["dv"] = LimitOf(p)
      BY <2>1, <1>4, CommandFacts, PercentFacts, DvAssumption
    <2>3. dv' = LimitFailed(limited, age) \/ dv' = limited
      BY <1>4 DEF SetPartial
    <2>4. LimitFailed(limited, age).limitPct = None
      BY DEF LimitFailed, Off, Unlimited
    <2> QED BY <1>4, <2>2, <2>3, <2>4 DEF LimitKnown
  <1> QED BY <1>1, <1>2, <1>3, <1>4 DEF setDvLimitPct

(* So does every step: the limit of the marketer and his source with the    *)
(* arbiter change together.                                                 *)
LEMMA LimitKnownStep ==
  ASSUME CurtailedInv, LimitKnown, [DvNext]_dvVars
  PROVE  LimitKnown'
  <1>0. dv \in DvRecords /\ SourcesOK /\ "dv" \in Sources
    BY DvAssumption DEF CurtailedInv, DvTypeOK, DvRecords
  <1>1. CASE \E p \in Percents : WriteSetpoint(p) \/ WriteBoth(p)
    <2>1. watchdogRefresh(dv) \in DvRecords /\ watchdogRefresh(dv).limitPct = dv.limitPct
      BY <1>0, RefreshFacts
    <2> QED BY <1>0, <1>1, <2>1, SetpointKnown DEF WriteSetpoint, WriteBoth
  <1>2. CASE WriteWatchdog
    BY <1>0, <1>2, RefreshFacts DEF WriteWatchdog, LimitKnown, arbiter
  <1>3. CASE ExpireLease
    <2>1. CASE dv' = Full
      BY <2>1 DEF Full, LimitKnown
    <2>2. CASE dv' = Unblocked(dv) /\ UNCHANGED arbiter
      BY <1>0, <2>2, UnblockedFacts DEF LimitKnown, arbiter
    <2> QED BY <1>3, <2>1, <2>2 DEF ExpireLease, SetFull
  <1>4. CASE Tick \/ ConfigChanged
    <2>1. dv'.limitPct = dv.limitPct /\ sources' = sources
      BY <1>0, <1>4 DEF Tick, ConfigChanged, DvRecords, arbiter
    <2> QED BY <2>1 DEF LimitKnown
  <1>5. CASE DvWriteFail
    <2>1. sources' = sources
      BY <1>5 DEF DvWriteFail, WriteFail
    <2>2. LimitFailed(dv, wdAge).limitPct = None
      BY <1>0 DEF LimitFailed, Off, Unlimited, DvRecords
    <2> QED BY <1>5, <2>1, <2>2 DEF DvWriteFail, LimitKnown
  <1>6. CASE DvRestart
    BY <1>6 DEF DvRestart, Full, LimitKnown
  <1>7. CASE OthersStep
    <2>1. sources'["dv"] = sources["dv"]
      <3>1. CASE \E s \in Sources \ {"dv"}, w \in Values : SourceCommand(s, w)
        BY <1>0, <3>1, CommandFacts DEF SourceCommand
      <3>2. CASE CapTick
        BY <1>0, <3>2, CommandFacts, SourcesAssumption DEF CapTick, SourcesOK
      <3>3. CASE (\E w \in Caps : CapConfigured(w)) \/ CapReadback \/ WriteOk
        BY <3>3 DEF CapConfigured, CapReadback, Reapply, WriteOk, arbiter
      <3> QED BY <1>7, <3>1, <3>2, <3>3 DEF OthersStep
    <2> QED BY <1>7, <2>1 DEF OthersStep, marketer, LimitKnown
  <1>8. CASE UNCHANGED dvVars
    BY <1>8 DEF dvVars, arbiter, marketer, LimitKnown
  <1> QED BY <1>1, <1>2, <1>3, <1>4, <1>5, <1>6, <1>7, <1>8 DEF DvNext, MarketerStep

(* Where the arbiter's smallest limit is at the inverter, the partial limit *)
(* in force is obeyed: it is one of those the arbiter takes the minimum of. *)
LEMMA SettledObeys ==
  ASSUME CurtailedInv, LimitKnown, Settled
  PROVE  PartialReached
  <1>. SUFFICES ASSUME dv.limitPct # None, limiter = Effective(sources)
                PROVE  limiter # None /\ limiter <= LimitOf(dv.limitPct)
    BY DEF PartialReached, Settled
  <1>1. sources["dv"] = LimitOf(dv.limitPct) /\ LimitOf(dv.limitPct) \in Limits
    <2>1. dv.limitPct \in Percents /\ 0 < dv.limitPct /\ dv.limitPct < 100
      BY DEF CurtailedInv, DvTypeOK, LimitKnown
    <2> QED BY <2>1, PercentsAssumption DEF LimitKnown, LimitOf
  <1>2. LimitOf(dv.limitPct) \in Active(sources) /\ Active(sources) \in SUBSET Limits
    BY <1>1, DvAssumption, NoneAssumption DEF Active, CurtailedInv, SourcesOK, Values
  <1>3. limiter = Min(Active(sources))
    BY <1>2 DEF Effective
  <1> QED BY <1>2, <1>3, MinFacts, NoneAssumption

(* The partial setpoint in force is obeyed as soon as the arbiter's writes  *)
(* are done: a fact about both, from SerialSettled for the marketer as one  *)
(* of the sources.                                                          *)
THEOREM PartialIsReached == DvSpec => []PartialReached
  <1>1. DvInit => CurtailedInv /\ LimitKnown
    <2>1. DvInit => dv.limitPct = None
      BY DEF DvInit, Full
    <2> QED BY <2>1, CurtailedInit DEF LimitKnown
  <1>2. CurtailedInv /\ LimitKnown /\ [DvNext]_dvVars => CurtailedInv' /\ LimitKnown'
    BY CurtailedStep, LimitKnownStep
  <1>3. CurtailedInv /\ LimitKnown /\ Settled => PartialReached
    BY SettledObeys
  <1> QED BY <1>1, <1>2, <1>3, MarketerIsSource, SerialSettled, PTL DEF DvSpec
=============================================================================
