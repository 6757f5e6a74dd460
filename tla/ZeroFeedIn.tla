------------------------------ MODULE ZeroFeedIn ------------------------------
(***************************************************************************)
(* The two loops of schedule-eval.js that throttle an inverter without a   *)
(* feed-in limiter, beside the callers that block and release it           *)
(* (DvControl).  During a block zeroFeedInTick throttles when the battery  *)
(* takes no more, and then lets it discharge; without a block              *)
(* feedInCapTick keeps a fixed limit.  Both write the same registers, and  *)
(* the first also the charge rate that the block has written.              *)
(*                                                                         *)
(* Whether the plant wants a throttle is an input (state of charge, export *)
(* and its streaks, load); how far it is closed is left out.               *)
(***************************************************************************)
EXTENDS DvControl

CONSTANT OutPoint   \* outWRte, the last point of the block; Default at it is 100 %

(* The profile of the inverter: no feed-in limiter, so that nobody runs a   *)
(* sequence of the limit, and outWRte at the end of a block.                *)
ASSUME ProfileAssumption ==
  /\ "eval" \in Callers /\ "limit" \notin Callers
  /\ OutPoint = FlagSteps[Len(FlagSteps)]

VARIABLES
  ena,       \* WMaxLim_Ena: the inverter is throttled
  lapse,     \* WMaxLimPct_RvrtTms is set: the throttle lapses by itself
  limit,     \* a fixed limit is configured
  zfi, fic,  \* state.ctrl._zfi.capActive and state.ctrl._fic.capActive
  streak,    \* state.ctrl._zfi.blockedStreak, as far as it counts
  ztick,     \* what zeroFeedInTick still has to do
  ftick,     \* what feedInCapTick still has to do
  byLoop,    \* history: the last write to OutPoint was the loop's
  crossed    \* history: a release and a tick wrote OutPoint at the same moment

inverter == <<ena, lapse>>
others == <<saved, disk, pending, last, task>>
zvars == <<vars, inverter, limit, zfi, fic, streak, ztick, ftick, byLoop, crossed>>

MinStreak == 2
Requests == {"charge", "discharge", "revert", "pct", "on", "off"}

(* A tick: the requests it still makes, the first of them in flight, and    *)
(* capActive after the last one and after an error.                         *)
Tick(requests, ok, err) == [requests |-> requests, ok |-> ok, err |-> err]
NoTick == Tick(<<>>, FALSE, FALSE)
Busy(t) == t.requests # <<>>

-------------------------------------------------------------------------------
\* Mutant: a state that is not known yet counts as blocked.
BlockedUnlessFeed == last # "feed"

Blocked == last = "block"
Shared(r) == r \in {"charge", "discharge"}

\* Mutant: the percentage reaches the register without its scale.
EffectRaw(r) ==
  /\ ena' = IF r \in {"on", "off"} THEN r = "on" ELSE ena
  /\ lapse' = (lapse \/ r = "revert")
  /\ IF Shared(r)
     THEN /\ dev' = [dev EXCEPT ![OutPoint] = r]
          /\ mine' = [mine EXCEPT ![OutPoint] = TRUE]
          /\ byLoop' = TRUE
     ELSE UNCHANGED <<dev, mine, byLoop>>

(* The effect of a request at the inverter.                                 *)
Effect(r) ==
  /\ ena' = IF r \in {"on", "off"} THEN r = "on" ELSE ena
  /\ lapse' = (lapse \/ r = "revert")
  /\ IF Shared(r)
     THEN /\ dev' = [dev EXCEPT ![OutPoint] = IF r = "charge" THEN Block ELSE Default]
          /\ mine' = [mine EXCEPT ![OutPoint] = TRUE]
          /\ byLoop' = TRUE
     ELSE UNCHANGED <<dev, mine, byLoop>>
NoEffect == UNCHANGED <<inverter, dev, mine, byLoop>>

\* Mutant: the time after which the throttle lapses is written last.
EnterLapseLast == <<"discharge", "pct", "on", "revert">>

Enter == <<"discharge", "revert", "pct", "on">>
CapEnter == <<"revert", "pct", "on">>

Refresh == <<"pct", "on">>

\* Mutant: the throttle goes before the battery is forced to charge.
LeaveOpen == <<"off", "charge">>

Leave == <<"charge", "off">>

(* zeroFeedInTick up to its first request: without a block the throttle is  *)
(* taken away; during one it may be put in force, but not in the tick that  *)
(* first sees the block, or refreshed, or left for the forced charge.       *)
ZeroFree ==
  /\ ~Blocked /\ streak' = 0
  /\ ztick' = IF zfi THEN Tick(<<"off">>, FALSE, TRUE) ELSE NoTick

ZeroBlocked ==
  /\ Blocked /\ streak' = IF streak < MinStreak THEN streak + 1 ELSE MinStreak
  /\ \/ ~zfi /\ ztick' = NoTick
     \/ ~zfi /\ streak' = MinStreak /\ ztick' = Tick(Enter, TRUE, FALSE)
     \/ zfi /\ ztick' = Tick(Refresh, TRUE, TRUE)
     \/ zfi /\ ztick' = Tick(Leave, FALSE, TRUE)

zeroFeedInTick ==
  /\ ~Busy(ztick)
  /\ ZeroFree \/ ZeroBlocked
  /\ UNCHANGED <<vars, inverter, limit, zfi, fic, ftick, byLoop, crossed>>

(* feedInCapTick (capLoopStep): during a block it only forgets its own; a   *)
(* cap counts as in force from the start of its first tick, and as gone     *)
(* from the start of its last one.                                          *)
CapHeldOff == Blocked \/ zfi

CapOff ==
  /\ ~limit \/ CapHeldOff
  /\ IF fic /\ ~CapHeldOff
     THEN ftick' = Tick(<<"off">>, FALSE, TRUE) /\ UNCHANGED fic
     ELSE ftick' = NoTick /\ fic' = FALSE

CapStep ==
  /\ limit /\ ~CapHeldOff
  /\ \/ ~fic /\ UNCHANGED fic /\ ftick' = NoTick
     \/ ~fic /\ fic' = TRUE /\ ftick' = Tick(CapEnter, TRUE, FALSE)
     \/ fic /\ UNCHANGED fic /\ ftick' = Tick(Refresh, TRUE, TRUE)
     \/ fic /\ fic' = FALSE /\ ftick' = Tick(<<"off">>, FALSE, FALSE)

feedInCapTick ==
  /\ ~Busy(ftick)
  /\ CapOff \/ CapStep
  /\ UNCHANGED <<vars, inverter, limit, zfi, streak, ztick, byLoop, crossed>>

-------------------------------------------------------------------------------
(* A request is answered; with the answer to the last one the tick is over. *)
Answered(t) == [t EXCEPT !.requests = Tail(@)]
Last(t) == Len(t.requests) = 1

ZeroOk ==
  /\ Busy(ztick)
  /\ Effect(Head(ztick.requests)) /\ ztick' = Answered(ztick)
  /\ zfi' = IF Last(ztick) THEN ztick.ok ELSE zfi
  /\ UNCHANGED <<others, limit, fic, streak, ftick, crossed>>

CapOk ==
  /\ Busy(ftick)
  /\ Effect(Head(ftick.requests)) /\ ftick' = Answered(ftick)
  /\ fic' = IF Last(ftick) THEN ftick.ok ELSE fic
  /\ UNCHANGED <<others, limit, zfi, streak, ztick, crossed>>

(* A request fails, or only its answer is lost: the tick ends.              *)
ZeroFail ==
  /\ Busy(ztick)
  /\ Effect(Head(ztick.requests)) \/ NoEffect
  /\ ztick' = NoTick /\ zfi' = ztick.err
  /\ UNCHANGED <<others, limit, fic, streak, ftick, crossed>>

CapFail ==
  /\ Busy(ftick)
  /\ Effect(Head(ftick.requests)) \/ NoEffect
  /\ ftick' = NoTick /\ fic' = ftick.err
  /\ UNCHANGED <<others, limit, zfi, streak, ztick, crossed>>

(* The throttle lapses, or the inverter starts anew.                        *)
Lapse ==
  /\ ena /\ lapse /\ ena' = FALSE
  /\ UNCHANGED <<vars, lapse, limit, zfi, fic, streak, ztick, ftick, byLoop, crossed>>

LimitChanges ==
  /\ limit' = ~limit
  /\ UNCHANGED <<vars, inverter, zfi, fic, streak, ztick, ftick, byLoop, crossed>>

(* The callers and their sequences, and the customer.  Nothing keeps two    *)
(* sequences apart, nor the write of a release to OutPoint from that of a   *)
(* tick in flight.                                                          *)
WritesOut(c) ==
  /\ task[c].step = Len(FlagSteps)
  /\ BlockWriteOk(c) \/ RestoreWriteOk(c)

Crosses(c) ==
  WritesOut(c) /\ task[c].feedIn /\ Busy(ztick) /\ Shared(Head(ztick.requests))

Sequences ==
  /\ \/ EvalFlush /\ UNCHANGED <<byLoop, crossed>>
     \/ \E c \in Callers :
          /\ CallerStep(c)
          /\ byLoop' = (byLoop /\ ~WritesOut(c))
          /\ crossed' = (crossed \/ Crosses(c))
  /\ UNCHANGED <<inverter, limit, zfi, fic, streak, ztick, ftick>>

CustomerStep ==
  /\ \E p \in FlagPoints, v \in Customer :
       CustomerSets(p, v) /\ byLoop' = (byLoop /\ p # OutPoint)
  /\ UNCHANGED <<inverter, limit, zfi, fic, streak, ztick, ftick, crossed>>

(* The process starts anew and knows nothing of the throttle.               *)
ZRestart ==
  /\ Restart
  /\ zfi' = FALSE /\ fic' = FALSE /\ streak' = 0
  /\ ztick' = NoTick /\ ftick' = NoTick
  /\ UNCHANGED <<inverter, limit, byLoop, crossed>>

ZInit ==
  /\ Init /\ ~mine[LimitPoint]
  /\ ena = FALSE /\ lapse = FALSE /\ limit \in BOOLEAN
  /\ zfi = FALSE /\ fic = FALSE /\ streak = 0
  /\ ztick = NoTick /\ ftick = NoTick
  /\ byLoop = FALSE /\ crossed = FALSE

ZNext ==
  \/ zeroFeedInTick \/ feedInCapTick
  \/ ZeroOk \/ ZeroFail \/ CapOk \/ CapFail
  \/ Lapse \/ LimitChanges \/ Sequences \/ CustomerStep \/ ZRestart

(* The loops tick, and a request of a refresh, of leaving and of taking the *)
(* throttle away that is made again and again is answered at last; what     *)
(* neither loop refreshes any more lapses.                                  *)
ZFairness ==
  /\ WF_zvars(zeroFeedInTick) /\ WF_zvars(feedInCapTick)
  /\ WF_zvars(ZeroOk \/ ZeroFail) /\ WF_zvars(CapOk \/ CapFail)
  /\ \A n \in 1 .. Len(Refresh) : SF_zvars(ZeroOk /\ Len(ztick.requests) = n)
  /\ SF_zvars(CapOk /\ Last(ftick))
  /\ WF_zvars(Lapse /\ ~zfi /\ ~fic)

ZSpec == ZInit /\ [][ZNext]_zvars
ZFairSpec == ZSpec /\ ZFairness

(* The callers take turns, as in ApartSpec.                                 *)
ZApartSpec == ZInit /\ [][ZNext /\ Apart']_zvars /\ ZFairness

-------------------------------------------------------------------------------
Ticks == [requests : Seq(Requests), ok : BOOLEAN, err : BOOLEAN]

ZTypeOK ==
  /\ TypeOK
  /\ ena \in BOOLEAN /\ lapse \in BOOLEAN /\ limit \in BOOLEAN
  /\ zfi \in BOOLEAN /\ fic \in BOOLEAN /\ streak \in 0 .. MinStreak
  /\ ztick \in Ticks /\ ftick \in Ticks
  /\ byLoop \in BOOLEAN /\ crossed \in BOOLEAN

(* "The customer's values the block has saved already; the release restores *)
(* them independently of the loop": callers that take turns, in whatever    *)
(* order with the ticks, find what the loop writes backed like a block and  *)
(* never take it for the customer's, and it is gone once the cache says     *)
(* "feed".  Only a release and a tick that write OutPoint at the same       *)
(* moment are left out.                                                     *)
CustomersBack ==
  ~crossed => /\ BlockBacked /\ BackupGenuine
              /\ last = "feed" => ~byLoop

(* The same without the exception (ZfiRelease).                             *)
ReleaseRestores == last = "feed" => ~byLoop

(* During a block, neither the forced charge nor the throttle.              *)
Gap == Blocked /\ mine[OutPoint] /\ dev[OutPoint] = Default /\ ~ena

(* "There is no window in which neither the forced charge nor the throttle  *)
(* stands" (zeroFeedInTick, leaving): in whatever order ticks, sequences,   *)
(* failures and restarts come, one opens only when the throttle is entered  *)
(* (its first request ends the forced charge), when it lapses, or when the  *)
(* cap loop, which has begun before the block, takes its own away.          *)
GapOnlyByEntering ==
  [][~Gap /\ Gap' => \/ Lapse
                     \/ (ZeroOk \/ ZeroFail) /\ Head(ztick.requests) = "discharge"
                     \/ (CapOk \/ CapFail) /\ Head(ftick.requests) = "off"]_zvars

(* The throttle follows the loops, through failed requests, restarts and an *)
(* inverter that drops it: once neither a block nor a limit asks for it, it *)
(* is gone for good, and during a throttled block it always comes back.     *)
ThrottleFollows ==
  /\ <>[](last = "feed" /\ ~limit) => <>[]~ena
  /\ <>[](Blocked /\ zfi) => []<>ena
===============================================================================
