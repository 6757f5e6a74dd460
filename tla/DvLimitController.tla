-------------------------- MODULE DvLimitController --------------------------
(***************************************************************************)
(* The setpoint of the direct marketer in percent (LUOX/Lumenaza profile,  *)
(* src/dvhub/dv-interface-luox.js): a frame at the Modbus server sets the  *)
(* setpoint or touches the watchdog; 100 is full feed-in, 0 none, anything *)
(* between a limit through the arbiter (module FeedInLimitArbiter), and no *)
(* feed-in at all where the limit cannot be written.  The setpoint is a    *)
(* lease: a timer lifts it 15 min after the last watchdog.                 *)
(*                                                                         *)
(* The answers of the limiter come later than the commands, and the        *)
(* handler of a failed write acts on whatever the state has become.        *)
(* Times are kept as what is left of a lease, or the age of a write.       *)
(***************************************************************************)
EXTENDS FeedInLimitArbiter

CONSTANTS
  Percents,  \* setpoints the marketer sends
  RefW,      \* reference power of the plant in W
  Lease,     \* LUOX_WATCHDOG_MS in ticks
  Never      \* the watchdog has not been written since the start

ASSUME LeaseAssumption == Lease \in Nat \ {0} /\ Never \notin Int
ASSUME PercentsAssumption ==
  /\ Percents \subseteq 0 .. 100
  /\ None \notin Percents
  /\ \A p \in Percents : 0 < p /\ p < 100 => (p * RefW + 50) \div 100 \in Limits
ASSUME DvAssumption == "dv" \in Sources

VARIABLES
  dv,        \* state.dvLuox and state.ctrl: the setpoint and its leases
  wdAge,     \* age of the last write of the watchdog, or Never
  since,     \* history: age of the last write of the setpoint
  clean,     \* history: no limit was lost or reconfigured since the start
  canLimit   \* a limit can be computed (reference power) and the limiter is set up

marketer == <<dv, wdAge, since, clean, canLimit>>
dvVars == <<arbiter, inverter, cap, marketer>>

Expired == 0 - 1
Full == [setpoint |-> 100, limitPct |-> None, limitLeft |-> Expired,
         forcedOff |-> FALSE, offLeft |-> Expired]

(* Math.round of the percentage.                                           *)
LimitOf(p) == (p * RefW + 50) \div 100

(* Mutant: the lease of a watchdog is one tick too long.                    *)
leaseLeftLong(age) == IF age = Never THEN Lease ELSE Lease + 1 - age

(* leaseUntil(): the lease counts from the last watchdog, or from now.      *)
leaseLeft(age) == IF age = Never THEN Lease ELSE Lease - age

(* Mutant: only the lease of the block runs anew.                           *)
watchdogRefreshOff(d) ==
  [d EXCEPT !.offLeft = IF d.forcedOff THEN Lease ELSE @]

(* watchdogRefresh(): both leases run anew.                                 *)
watchdogRefresh(d) ==
  [d EXCEPT !.offLeft = IF d.forcedOff THEN Lease ELSE @,
            !.limitLeft = IF d.limitPct # None THEN Lease ELSE @]

(* Mutant: the limit is given up without a word to the arbiter.             *)
releaseLimitSilent(d) == UNCHANGED arbiter

(* releaseLimit(): the arbiter hears of it only where a limit is set.       *)
releaseLimit(d) ==
  IF d.limitPct = None THEN UNCHANGED arbiter ELSE Command("dv", None)

(* setForcedOff and the lease it is given.                                  *)
Off(d, left) == [d EXCEPT !.forcedOff = TRUE, !.offLeft = left]
Unlimited(d) == [d EXCEPT !.limitPct = None, !.limitLeft = Expired]

(* Mutant: a limit that cannot be written is only forgotten.                *)
LimitFailedOpen(d, age) == Unlimited(d)

(* A limit that cannot be written becomes a block.                          *)
LimitFailed(d, age) == Off(Unlimited(d), leaseLeft(age))

(* setDvLimitPct(p) on the state d, with the watchdog of the given age.     *)
SetFull(d) == dv' = Full /\ releaseLimit(d)

SetOff(d, age) ==
  /\ dv' = Off(Unlimited([d EXCEPT !.setpoint = 0]), leaseLeft(age))
  /\ releaseLimit(d)

SetPartial(d, p, age) ==
  \/ /\ ~canLimit
     /\ dv' = Off([d EXCEPT !.setpoint = p], leaseLeft(age))
     /\ UNCHANGED arbiter
  \/ /\ canLimit
     /\ LET limited == [setpoint |-> p, limitPct |-> p, limitLeft |-> leaseLeft(age),
                        forcedOff |-> FALSE, offLeft |-> Expired]
        IN dv' = IF RefusedAtOnce("dv", LimitOf(p)) THEN LimitFailed(limited, age)
                 ELSE limited
     /\ Command("dv", LimitOf(p))

setDvLimitPct(d, p, age) ==
  \/ p = 100 /\ SetFull(d)
  \/ p = 0 /\ SetOff(d, age)
  \/ 0 < p /\ p < 100 /\ SetPartial(d, p, age)

-----------------------------------------------------------------------------
(* The limit of p is not refused on the spot.                               *)
Accepted(p) ==
  clean' = (clean /\ ~(0 < p /\ p < 100 /\ canLimit /\ RefusedAtOnce("dv", LimitOf(p))))

(* processLuoxFrame: a write of the setpoint, of the watchdog, or of both   *)
(* in one frame; then the watchdog counts first.                            *)
WriteSetpoint(p) ==
  /\ setDvLimitPct(dv, p, wdAge)
  /\ since' = 0
  /\ Accepted(p)
  /\ UNCHANGED <<wdAge, canLimit, inverter, cap>>

WriteWatchdog ==
  /\ wdAge' = 0
  /\ dv' = watchdogRefresh(dv)
  /\ UNCHANGED <<arbiter, inverter, cap, since, clean, canLimit>>

WriteBoth(p) ==
  /\ wdAge' = 0
  /\ setDvLimitPct(watchdogRefresh(dv), p, 0)
  /\ since' = 0
  /\ Accepted(p)
  /\ UNCHANGED <<canLimit, inverter, cap>>

(* Mutant: the block ends, the setpoint stays.                              *)
UnblockedOnly(d) ==
  IF d.forcedOff /\ d.offLeft = Expired THEN [d EXCEPT !.forcedOff = FALSE] ELSE d

(* expireLeaseIfNeeded, once a second: first the block, then the limit.     *)
Unblocked(d) ==
  IF d.forcedOff /\ d.offLeft = Expired
  THEN [d EXCEPT !.forcedOff = FALSE, !.setpoint = 100] ELSE d

LimitExpired(d) == d.limitPct # None /\ d.limitLeft = Expired
Expirable == (dv.forcedOff /\ dv.offLeft = Expired) \/ LimitExpired(dv)

ExpireLease ==
  /\ Expirable
  /\ \/ LimitExpired(Unblocked(dv)) /\ SetFull(Unblocked(dv))
     \/ /\ ~LimitExpired(Unblocked(dv))
        /\ dv' = Unblocked(dv)
        /\ UNCHANGED arbiter
  /\ UNCHANGED <<wdAge, since, clean, canLimit, inverter, cap>>

(* Time passes, in steps far longer than the second of the timer.           *)
Older(age) == IF age = Never \/ age > Lease THEN age ELSE age + 1
Less(left) == IF left = Expired THEN left ELSE left - 1

Tick ==
  /\ ~Expirable
  /\ wdAge' = Older(wdAge)
  /\ since' = Older(since)
  /\ dv' = [dv EXCEPT !.limitLeft = Less(@), !.offLeft = Less(@)]
  /\ UNCHANGED <<arbiter, inverter, cap, clean, canLimit>>

(* The catch of the limit that was written: it blocks, and it gives up the  *)
(* limit of now, whatever command has come in between.                      *)
DvWriteFail ==
  /\ WriteFail
  /\ dv' = IF "dv" \in Head(chain).waiting THEN LimitFailed(dv, wdAge) ELSE dv
  /\ clean' = (clean /\ "dv" \notin Head(chain).waiting)
  /\ UNCHANGED <<wdAge, since, canLimit>>

(* The operator changes the configuration of the limiter.                   *)
ConfigChanged ==
  /\ "config" \in Faults
  /\ canLimit' = ~canLimit
  /\ clean' = FALSE
  /\ UNCHANGED <<arbiter, inverter, cap, dv, wdAge, since>>

DvRestart ==
  /\ Restart
  /\ dv' = Full
  /\ wdAge' = Never
  /\ since' = 0
  /\ clean' = TRUE
  /\ UNCHANGED canLimit

(* The other sources and the tick of the cap go on beside it.               *)
OthersStep ==
  /\ \/ \E s \in Sources \ {"dv"}, w \in Values : SourceCommand(s, w)
     \/ \E w \in Caps : CapConfigured(w)
     \/ CapTick \/ CapReadback \/ WriteOk
  /\ UNCHANGED marketer

DvInit ==
  /\ Init
  /\ dv = Full
  /\ wdAge = Never
  /\ since = 0
  /\ clean = TRUE
  /\ canLimit \in (IF "config" \in Faults THEN BOOLEAN ELSE {TRUE})

MarketerStep ==
  \/ \E p \in Percents : WriteSetpoint(p) \/ WriteBoth(p)
  \/ WriteWatchdog

DvNext ==
  \/ MarketerStep
  \/ ExpireLease \/ Tick
  \/ DvWriteFail \/ ConfigChanged \/ DvRestart
  \/ OthersStep

DvSpec == DvInit /\ [][DvNext]_dvVars

(* The timer runs, time passes, the tick of the cap repeats, and a limiter  *)
(* that can be written again and again is written at last.                  *)
DvFairness ==
  /\ WF_dvVars(ExpireLease)
  /\ WF_dvVars(Tick)
  /\ WF_dvVars(CapTick /\ UNCHANGED marketer)
  /\ WF_dvVars((WriteOk /\ UNCHANGED marketer) \/ DvWriteFail)
  /\ SF_dvVars(CapReadback /\ UNCHANGED marketer)
  /\ \A w \in Values :
       SF_dvVars(WriteOk /\ Head(chain).target = w /\ UNCHANGED marketer)

DvFairSpec == DvSpec /\ DvFairness

-----------------------------------------------------------------------------
DvTypeOK ==
  /\ dv \in [setpoint : Percents \union {100}, limitPct : Percents \union {None},
             limitLeft : Expired .. Lease, forcedOff : BOOLEAN, offLeft : Expired .. Lease]
  /\ wdAge \in 0 .. Lease + 1 \union {Never}
  /\ since \in 0 .. Lease + 1
  /\ clean \in BOOLEAN
  /\ canLimit \in BOOLEAN

(* "If the write fails, the plant is curtailed altogether: less feed-in     *)
(* always fulfils the setpoint": as long as the marketer's setpoint is      *)
(* below 100 there is a block, or its limit is one the arbiter knows.       *)
Curtailed ==
  dv.setpoint < 100 =>
    \/ dv.forcedOff
    \/ dv.limitPct = dv.setpoint /\ sources["dv"] = LimitOf(dv.setpoint)

(* "100 -> full feed-in (lift the block and the partial limit)": at 100,    *)
(* commanded or because the lease ran out, no block of the marketer is left *)
(* and no limit of his with the arbiter - as long as none was lost to a     *)
(* failed write or a change of config.                                      *)
NothingLeft ==
  (clean /\ dv.setpoint = 100) => ~dv.forcedOff /\ sources["dv"] = None

(* The same without the condition, as the comment of setDvLimitPct has it.  *)
(* A limit that could not be written stays with the arbiter.                *)
FullLiftsLimit == dv.setpoint = 100 => sources["dv"] = None

(* "The setpoint holds as long as the watchdog is written every 15 min; if  *)
(* it never is, the lease counts from the setpoint": only a command or a    *)
(* restart lifts a curtailment before its lease has run out.                *)
LeaseHeld ==
  [][ (clean /\ dv.setpoint < 100 /\ dv'.setpoint = 100) =>
        \/ MarketerStep \/ DvRestart
        \/ IF wdAge = Never THEN since > Lease ELSE wdAge > Lease ]_dvVars

(* "1-99 -> feed-in limit = percent x reference power": once the writes of  *)
(* the arbiter are done and the last succeeded, the inverter is limited at  *)
(* least as far as the partial setpoint in force, whoever else limits.      *)
PartialReached ==
  (dv.limitPct # None /\ ~overlap /\ chain = <<>> /\ ~rejected /\ applied # Undef /\ ~drifted)
    => limiter # None /\ limiter <= LimitOf(dv.limitPct)

(* A marketer that falls silent does not curtail for ever: 15 min later the *)
(* plant is back at full feed-in, failed writes and restarts or not.        *)
LeaseEnds == <>[][~MarketerStep]_dvVars => <>[](dv.setpoint = 100 /\ ~dv.forcedOff)

OthersDisturb ==
  \/ \E s \in Sources \ {"dv"}, w \in Values : SourceCommand(s, w)
  \/ cap' # cap
  \/ DvRestart

(* A partial setpoint that stands, and was not turned into a block, is      *)
(* obeyed by the inverter at last, although writes fail, overlap and        *)
(* restarts have gone before.                                               *)
PartialObeyed ==
  \A p \in Percents :
    (<>[][~OthersDisturb]_dvVars /\ <>[](dv.limitPct = p))
      => <>[](limiter # None /\ limiter <= LimitOf(p))

=============================================================================
