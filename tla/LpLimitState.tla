----------------------------- MODULE LpLimitState -----------------------------
(***************************************************************************)
(* The control box of the grid operator (EEBUS LPC / LPP): the limit it    *)
(* sets, its heartbeat and the failsafe when it falls silent               *)
(* (src/dvhub/services/eebus/limit-state.js), together with what the       *)
(* service around it does: the events of the helper process, the timer,    *)
(* the file grid-state.json, crashes, and switching EEBUS off and on.      *)
(*                                                                         *)
(* One of the two machines is modelled; the other one shares the file and  *)
(* the events, so it also saves and applies this one (OtherEvent, Timer).  *)
(* A time stamp is kept as its age, a deadline as what is left; the timer  *)
(* of one second is short against the unit of time.                        *)
(***************************************************************************)
EXTENDS Integers

CONSTANTS
  Limits,     \* limits of the control box, in W
  Own,        \* the failsafe limit of DVhub's configuration
  OwnDur,     \* its failsafe duration
  Durations,  \* failsafe durations the control box writes
  LimitTimes, \* durations of limits
  Timeout,    \* HEARTBEAT_TIMEOUT_MS
  Forever,    \* a limit without an end
  None,       \* no limit, no failsafe, never
  MaxAge,     \* bound: ages are told apart up to it
  Faults      \* bound: what may go wrong, of {"save", "exit", "restart"}

ASSUME TimeAssumption ==
  /\ Timeout \in Nat \ {0} /\ OwnDur \in Nat \ {0}
  /\ Durations \subseteq Nat \ {0} /\ LimitTimes \subseteq Nat \ {0}
ASSUME MaxAssumption ==
  MaxAge \in Nat /\ \A d \in Durations \union LimitTimes \union {Timeout, OwnDur} : d <= MaxAge
ASSUME NoneAssumption ==
  /\ None \notin Int /\ Forever \notin Int /\ Forever # None
  /\ None \notin Limits \union {Own}

VARIABLES
  mach,     \* the state machine
  disk,     \* grid-state.json
  lost,     \* history: the last write of the file failed
  applied,  \* ui.applied: the limit DVhub obeys, or None
  peer,     \* a control box is paired, by the settings
  renewing, \* reload() awaits the helper and still has the old machine
  proc,     \* the helper: "up", "down" (to be started), "stopping", "off"
  quiet     \* history: time since the control box last showed itself

vars == <<mach, disk, lost, applied, peer, renewing, proc, quiet>>

Older(age) == IF age = None \/ age > MaxAge THEN age ELSE age + 1
Shorter(left) == IF left \in {None, Forever, 0} THEN left ELSE left - 1

-----------------------------------------------------------------------------
(* A new machine, disabled until a control box is paired.                   *)
NewMachine ==
  [state |-> "disabled", initAge |-> 0, hbOk |-> FALSE, hbAge |-> None,
   limitW |-> None, left |-> None, failsafeW |-> Own, dur |-> OwnDur,
   failsafeAge |-> None]

(* go(next): the failsafe remembers when it began.                          *)
go(m, next) ==
  IF m.state = next THEN m
  ELSE [m EXCEPT !.state = next,
                 !.failsafeAge = IF next = "failsafe" THEN 0 ELSE None]

(* Mutant: a limit whose time is over still counts.                         *)
limitValidLong(m) == m.limitW # None

limitValid(m) == m.limitW # None /\ m.left # 0

controlledState(m) == IF limitValid(m) THEN "limited" ELSE "unlimited_controlled"

setEnabled(m, on) ==
  IF ~on THEN go(m, "disabled")
  ELSE IF m.state # "disabled" THEN m
  ELSE go([m EXCEPT !.initAge = 0], "init")

(* A write of the control box proves that it is alive.                      *)
onLimit(m, w, left) ==
  LET n == [m EXCEPT !.limitW = w, !.left = left, !.hbOk = TRUE, !.hbAge = 0]
  IN IF n.state = "disabled" THEN n ELSE go(n, controlledState(n))

(* Mutant: one unit of time too long.                                       *)
heartbeatLostLate(m) == ~m.hbOk /\ (m.hbAge = None \/ m.hbAge > Timeout)

heartbeatLost(m) == ~m.hbOk /\ (m.hbAge = None \/ m.hbAge >= Timeout)

(* Mutant: the heartbeat alone ends a failsafe.                             *)
afterFailsafeEarly(m) ==
  IF m.hbOk THEN controlledState(m)
  ELSE IF m.failsafeAge < m.dur THEN "failsafe" ELSE "unlimited_autonomous"

(* What becomes of a failsafe when no limit is written.  (One that is ends  *)
(* it in onLimit, so a write since its beginning is never found later.)     *)
afterFailsafe(m) ==
  IF m.failsafeAge < m.dur THEN "failsafe"
  ELSE IF m.hbOk THEN controlledState(m) ELSE "unlimited_autonomous"

nextState(m) ==
  CASE m.state = "init" ->
         IF m.hbOk THEN controlledState(m)
         ELSE IF m.initAge >= Timeout THEN "failsafe" ELSE "init"
    [] m.state \in {"limited", "unlimited_controlled"} ->
         IF heartbeatLost(m) THEN "failsafe" ELSE controlledState(m)
    [] m.state = "failsafe" -> afterFailsafe(m)
    [] m.state = "unlimited_autonomous" ->
         IF m.hbOk THEN controlledState(m) ELSE m.state
    [] OTHER -> m.state

evaluate(m) ==
  LET n == [m EXCEPT !.hbAge = IF m.hbOk THEN 0 ELSE @]
  IN go(n, nextState(n))

effective(m) ==
  CASE m.state = "limited"  -> m.limitW
    [] m.state = "failsafe" -> m.failsafeW
    [] OTHER -> None

-----------------------------------------------------------------------------
(* Mutant: the own duration is saved as nothing, and taken for a duration.  *)
toJSONNull(m) ==
  [failsafeW |-> m.failsafeW, dur |-> IF m.dur = OwnDur THEN None ELSE m.dur,
   limitW |-> m.limitW, left |-> m.left,
   failsafeAge |-> IF m.state = "failsafe" THEN m.failsafeAge ELSE None]

(* What is saved: values of the control box, its limit, a failsafe.         *)
toJSON(m) ==
  [failsafeW |-> m.failsafeW, dur |-> m.dur, limitW |-> m.limitW, left |-> m.left,
   failsafeAge |-> IF m.state = "failsafe" THEN m.failsafeAge ELSE None]

saveGridState(m) ==
  \/ disk' = toJSON(m) /\ lost' = FALSE
  \/ "save" \in Faults /\ disk' = disk /\ lost' = TRUE

(* Mutant: a saved failsafe is taken up without a control box, too.         *)
restoreAlways(m, d) ==
  LET n == [m EXCEPT !.failsafeW = d.failsafeW, !.dur = d.dur,
                     !.limitW = d.limitW, !.left = d.left]
  IN IF d.failsafeAge # None /\ d.failsafeAge < d.dur
     THEN [n EXCEPT !.state = "failsafe", !.failsafeAge = d.failsafeAge] ELSE n

(* restore(): a failsafe goes on from where it began.                       *)
restore(m, d) ==
  LET n == [m EXCEPT !.failsafeW = d.failsafeW, !.dur = d.dur,
                     !.limitW = d.limitW, !.left = d.left]
  IN IF d.failsafeAge # None /\ d.failsafeAge < d.dur /\ m.state # "disabled"
     THEN [n EXCEPT !.state = "failsafe", !.failsafeAge = d.failsafeAge] ELSE n

Started(d) == restore(setEnabled(NewMachine, peer), d)

(* apply(): evaluate, and obey what follows from it.                        *)
apply(m) == mach' = evaluate(m) /\ applied' = effective(evaluate(m))

Events == proc \in {"up", "stopping"}
Ticking == proc \in {"up", "down"}

-----------------------------------------------------------------------------
(* grid_heartbeat_state                                                     *)
Heartbeat(ok) ==
  /\ Events
  /\ apply(evaluate([mach EXCEPT !.hbOk = ok, !.hbAge = IF ok THEN 0 ELSE @]))
  /\ quiet' = IF ok THEN 0 ELSE quiet
  /\ UNCHANGED <<disk, lost, peer, renewing, proc>>

(* grid_limit: an active limit, for some time or for good, or none.  It is  *)
(* saved before it is applied.  Only one whose writer is known not to be    *)
(* the control box is passed over: one may also come without a box.         *)
GridLimit(w, left) ==
  /\ Events
  /\ saveGridState(onLimit(mach, w, left))
  /\ apply(onLimit(mach, w, left))
  /\ quiet' = 0
  /\ UNCHANGED <<peer, renewing, proc>>

(* grid_write of a failsafe limit, or of a failsafe duration.               *)
GridFailsafeLimit(w) ==
  /\ Events /\ peer
  /\ saveGridState([mach EXCEPT !.failsafeW = w])
  /\ apply([mach EXCEPT !.failsafeW = w])
  /\ UNCHANGED <<peer, renewing, proc, quiet>>

(* Mutant: the duration is not saved.                                       *)
GridFailsafeDurationUnsaved(d) ==
  /\ Events /\ peer
  /\ mach' = [mach EXCEPT !.dur = d]
  /\ UNCHANGED <<disk, lost, applied, peer, renewing, proc, quiet>>

GridFailsafeDuration(d) ==
  /\ Events /\ peer
  /\ mach' = [mach EXCEPT !.dur = d]
  /\ saveGridState(mach')
  /\ UNCHANGED <<applied, peer, renewing, proc, quiet>>

(* A device comes or goes, or the other machine is written to: apply() is   *)
(* for both machines, and so is the file.                                   *)
OtherEvent ==
  /\ Events
  /\ \/ UNCHANGED <<disk, lost>>
     \/ saveGridState(mach)
  /\ apply(mach)
  /\ UNCHANGED <<peer, renewing, proc, quiet>>

(* tick(): it saves when one of the machines has changed its state.         *)
Timer ==
  /\ Ticking
  /\ apply(mach)
  /\ \/ evaluate(mach).state = mach.state /\ UNCHANGED <<disk, lost>>
     \/ saveGridState(evaluate(mach))
  /\ UNCHANGED <<peer, renewing, proc, quiet>>

(* Time passes.  While the timer runs, it is never late.                    *)
Tick ==
  /\ Ticking => evaluate(mach) = mach /\ applied = effective(mach)
  /\ mach' = [mach EXCEPT !.initAge = IF mach.state = "init" THEN Older(@) ELSE 0, !.hbAge = Older(@),
                          !.failsafeAge = Older(@), !.left = Shorter(@)]
  /\ disk' = [disk EXCEPT !.failsafeAge = Older(@), !.left = Shorter(@)]
  /\ quiet' = IF mach.hbOk /\ proc = "up" THEN 0 ELSE Older(quiet)
  /\ UNCHANGED <<lost, applied, peer, renewing, proc>>

-----------------------------------------------------------------------------
(* The helper process exits by itself; after a delay it is started again,   *)
(* with new machines from the file.                                         *)
ChildExit ==
  /\ "exit" \in Faults
  /\ proc = "up"
  /\ proc' = "down"
  /\ UNCHANGED <<mach, disk, lost, applied, peer, renewing, quiet>>

Start ==
  /\ proc = "down" /\ ~renewing
  /\ proc' = "up"
  /\ mach' = Started(disk)
  /\ quiet' = 0
  /\ UNCHANGED <<disk, lost, applied, peer, renewing>>

(* stop(): EEBUS is switched off, or its port changes.  The limits are      *)
(* given up; the helper ends by and by.                                     *)
Stop ==
  /\ Ticking
  /\ saveGridState(mach)
  /\ applied' = None
  /\ proc' = IF proc = "up" THEN "stopping" ELSE "off"
  /\ UNCHANGED <<mach, peer, renewing, quiet>>

StopDone ==
  /\ proc = "stopping"
  /\ proc' = "off"
  /\ UNCHANGED <<mach, disk, lost, applied, peer, renewing, quiet>>

(* Started on the new port; or switched on, which stops once more before.   *)
StartAgain ==
  /\ proc = "off"
  /\ \/ UNCHANGED <<disk, lost, applied>>
     \/ saveGridState(mach) /\ applied' = None
  /\ proc' = "up"
  /\ mach' = Started(disk')
  /\ quiet' = 0
  /\ UNCHANGED <<peer, renewing>>

(* reload(): a control box is paired, exchanged or removed.  Once a helper  *)
(* that runs has answered, or has not in time, nothing of the box before    *)
(* remains.  (Bound: one change of the pairing at a time.)                  *)
Renew(on) ==
  /\ saveGridState(setEnabled(NewMachine, on))
  /\ apply(setEnabled(NewMachine, on))
  /\ quiet' = 0

PeerChanged(on) ==
  /\ peer \/ on
  /\ ~renewing
  /\ peer' = on
  /\ \/ proc = "up" /\ renewing' = TRUE /\ UNCHANGED <<mach, disk, lost, applied, quiet>>
     \/ proc # "up" /\ Renew(on) /\ UNCHANGED renewing
  /\ UNCHANGED proc

Renewed ==
  /\ renewing /\ renewing' = FALSE
  /\ Renew(peer)
  /\ UNCHANGED <<peer, proc>>

(* DVhub stops and starts again; only the file is left.                     *)
Restart ==
  /\ "restart" \in Faults
  /\ Ticking
  /\ mach' = Started(disk)
  /\ applied' = None
  /\ proc' = "up"
  /\ quiet' = 0
  /\ renewing' = FALSE
  /\ UNCHANGED <<disk, lost, peer>>

Init ==
  /\ peer \in BOOLEAN /\ renewing = FALSE
  /\ mach = setEnabled(NewMachine, peer)
  /\ disk = toJSON(NewMachine)
  /\ lost = FALSE
  /\ applied = None
  /\ proc = "up"
  /\ quiet = 0

BoxWrites ==
  \/ \E w \in Limits, left \in LimitTimes \union {Forever} : GridLimit(w, left)
  \/ GridLimit(None, None)

Next ==
  \/ \E ok \in BOOLEAN : Heartbeat(ok)
  \/ BoxWrites
  \/ \E w \in Limits : GridFailsafeLimit(w)
  \/ \E d \in Durations : GridFailsafeDuration(d)
  \/ OtherEvent \/ Timer \/ Tick
  \/ ChildExit \/ Start \/ Stop \/ StopDone \/ StartAgain \/ Restart
  \/ \E on \in BOOLEAN : PeerChanged(on)
  \/ Renewed

Spec == Init /\ [][Next]_vars

(* The timer runs and time passes.                                          *)
FairSpec == Spec /\ WF_vars(Timer) /\ WF_vars(Tick)

-----------------------------------------------------------------------------
Ages == 0 .. MaxAge + 1
Lefts == 0 .. MaxAge \union {None, Forever}
States == {"disabled", "init", "unlimited_controlled", "limited", "failsafe",
           "unlimited_autonomous"}

TypeOK ==
  /\ mach \in [state : States, initAge : Ages, hbOk : BOOLEAN, hbAge : Ages \union {None},
               limitW : Limits \union {None}, left : Lefts,
               failsafeW : Limits \union {Own}, dur : Durations \union {OwnDur},
               failsafeAge : Ages \union {None}]
  /\ disk \in [failsafeW : Limits \union {Own}, dur : Durations \union {OwnDur},
               limitW : Limits \union {None}, left : Lefts,
               failsafeAge : Ages \union {None}]
  /\ lost \in BOOLEAN
  /\ applied \in Limits \union {Own, None}
  /\ peer \in BOOLEAN /\ renewing \in BOOLEAN
  /\ proc \in {"up", "down", "stopping", "off"}
  /\ quiet \in Ages

(* "Without a paired control box there is never a failsafe" (the header of  *)
(* limit-state.js): nor any limit, although the file and the helper may     *)
(* still know one.                                                          *)
NoBoxNoLimit == ~peer /\ ~renewing => mach.state = "disabled" /\ applied = None

(* The silence is over when the longest failsafe there is must be.          *)
Outlasted(age) == \A d \in Durations \union {OwnDur} : age > Timeout + d

(* A control box that has been silent for longer than the timeout leads to  *)
(* the failsafe, or its end (heartbeatLost and the timer), also after a     *)
(* restart, which counts the timeout anew.  And no failsafe is for ever:    *)
(* one that has been silent for the timeout and the longest duration there  *)
(* is limits nothing any more, whatever it has written before, and whatever *)
(* other duration it has set in the meantime (afterFailsafe).               *)
SilenceIsFailsafe ==
  proc = "up" =>
    /\ (peer /\ ~renewing /\ quiet > Timeout) => mach.state \in {"failsafe", "unlimited_autonomous"}
    /\ Outlasted(quiet) => applied = None

(* "Failsafe limit, for at least the failsafe duration; a new limit ends it *)
(* before" (the header): nothing but a write of the control box, another    *)
(* pairing or a start of the machine ends a failsafe early, in particular   *)
(* no heartbeat that comes back.                                            *)
FailsafeHeld ==
  [][ (mach.state = "failsafe" /\ mach'.state # "failsafe") =>
        \/ mach.failsafeAge >= mach.dur
        \/ BoxWrites \/ Restart \/ Start \/ StartAgain
        \/ Renewed \/ \E on \in BOOLEAN : PeerChanged(on) ]_vars

(* What a start finds: as long as the last write of the file succeeded, the *)
(* limit and failsafe values of the control box are the ones in force, and  *)
(* unless there is no box a failsafe in the file is one that is going on.   *)
FileTrue ==
  ~lost =>
    /\ disk.failsafeW = mach.failsafeW /\ disk.dur = mach.dur
    /\ disk.limitW = mach.limitW /\ disk.left = mach.left
    /\ (mach.state # "disabled" /\ disk.failsafeAge # None /\ disk.failsafeAge < disk.dur) =>
          mach.state = "failsafe" /\ mach.failsafeAge = disk.failsafeAge

Undisturbed == Timer \/ Tick \/ OtherEvent \/ Renewed

(* Every limit ends: when nothing happens any more, nothing is limited at   *)
(* last, unless a limit without an end stands and the control box is alive. *)
(* No failsafe is for ever.                                                 *)
LimitsEnd ==
  (<>[][Undisturbed]_vars /\ <>[]Ticking)
    => <>[](applied = None \/ (mach.state = "limited" /\ mach.hbOk /\ mach.left = Forever))

(* "Failsafe values and a running failsafe must outlast a restart" (the     *)
(* header of limit-state.js): with a file that can be written, a restart    *)
(* goes on with the failsafe.  It does not when an event has found the      *)
(* timeout over before the timer did: only the timer saves.                 *)
FailsafeOutlasts ==
  [][ (Restart /\ peer /\ ~lost /\ mach.state = "failsafe" /\ mach.failsafeAge < mach.dur)
        => mach'.state = "failsafe" ]_vars

(* It is the timer that finds the timeout over, or a start that goes on     *)
(* with a failsafe.                                                         *)
TimerFinds ==
  (mach.state # "failsafe" /\ mach'.state = "failsafe")
    => Timer \/ Restart \/ Start \/ StartAgain

(* "Do not leave limits behind when EEBUS is switched off" (stop()): when   *)
(* the helper is gone nothing is limited.  An event that was still in the   *)
(* pipe applies the limit again, and no timer will lift it.                 *)
StoppedIsFree == proc = "off" => applied = None

(* The pipe of a helper that is stopping holds no event that is applied.    *)
PipeEmpty ==
  proc = "stopping" =>
    /\ ~\E ok \in BOOLEAN : Heartbeat(ok)
    /\ ~BoxWrites /\ ~OtherEvent
    /\ ~\E w \in Limits : GridFailsafeLimit(w)

=============================================================================
