------------------------------ MODULE EebusHelper ------------------------------
(***************************************************************************)
(* The life of the EEBUS helper, a child process that services/eebus       *)
(* starts, watches and stops.  Starting waits for a key pair, stopping for *)
(* the exit of the helper, a crash is followed by a start after a delay,   *)
(* and a change of the settings by a stop and a start; each of these may   *)
(* find another one under way.  What the helper reports is LpLimitState.   *)
(*                                                                         *)
(* Code between two awaits is one step.  What goes on at once when an      *)
(* await ends does so before any other event: it is counted in due.        *)
(***************************************************************************)
EXTENDS Naturals, FiniteSets

CONSTANTS
  Helpers,    \* child processes; one that is gone may come again
  Configs,    \* settings that need a new helper: [enabled, port]
  Faults,     \* the faults of this instance
  None

FaultKinds == {"crash", "cert", "spawn", "slow"}

ASSUME HelpersAssumption ==
  /\ Helpers # {} /\ IsFiniteSet(Helpers) /\ None \notin Helpers
  /\ Faults \subseteq FaultKinds
ASSUME ConfigsAssumption ==
  /\ \A c \in Configs : c.enabled \in BOOLEAN
  /\ Configs # {} /\ None \notin Configs

VARIABLES
  cfg, lastKey,        \* the settings, and those the last start or reload has seen
  installed, cert,     \* is there a binary; is there a key pair?
  helper,              \* dead: could not be spawned, and will never exit
  child, stopping,
  timers, held,        \* pending restart timers; is restartTimer one of them?
  ticking,             \* tickTimer
  starts,              \* calls of start that wait for the key pair
  waiting,             \* waiting[h]: calls of stop that wait for the exit of h
  due,                 \* calls of start that follow now
  raced                \* history: have two calls met, or has a stop not waited?

setup == <<cfg, installed, cert>>
watch == <<timers, held, ticking>>
calls == <<starts, waiting, due>>
vars == <<setup, lastKey, helper, child, stopping, watch, calls, raced>>

TypeOK ==
  /\ cfg \in Configs /\ lastKey \in Configs \union {None}
  /\ installed \in BOOLEAN /\ cert \in BOOLEAN
  /\ helper \in [Helpers -> {"none", "runs", "ending", "dead"}]
  /\ child \in Helpers \union {None} /\ stopping \in BOOLEAN
  /\ timers \in Nat /\ held \in BOOLEAN /\ ticking \in BOOLEAN
  /\ starts \in Nat /\ waiting \in [Helpers -> Nat] /\ due \in Nat
  /\ raced \in BOOLEAN

(* server.js calls start.                                                   *)
Init ==
  /\ cfg \in Configs /\ lastKey = None
  /\ installed \in BOOLEAN /\ cert \in BOOLEAN
  /\ helper = [h \in Helpers |-> "none"] /\ child = None /\ stopping = FALSE
  /\ timers = 0 /\ held = FALSE /\ ticking = FALSE
  /\ starts = 0 /\ waiting = [h \in Helpers |-> 0] /\ due = 1
  /\ raced = FALSE

Alive(h) == helper[h] \in {"runs", "ending"}
Busy == starts > 0 \/ \E h \in Helpers : waiting[h] > 0

\* A process nobody refers to any more and that does not run.
Free(h) ==
  /\ helper[h] = "none" \/ (helper[h] = "dead" /\ child # h)
  /\ waiting[h] = 0

\* Bound: as many calls of start are to come as there are helpers left.
Room ==
  LET stops == {t \in Helpers \X (1 .. Cardinality(Helpers)) : t[2] <= waiting[t[1]]}
  IN  starts + timers + Cardinality(stops) < Cardinality({h \in Helpers : Free(h)})

\* Mutant: a new helper does not end the time of stopping.
SpawnStopping(h) ==
  /\ Free(h)
  /\ \/ helper' = [helper EXCEPT ![h] = "runs"]
     \/ "spawn" \in Faults /\ helper' = [helper EXCEPT ![h] = "dead"]
  /\ child' = h /\ UNCHANGED stopping
  /\ ticking' = TRUE

spawnChild(h) ==
  /\ Free(h)
  /\ \/ helper' = [helper EXCEPT ![h] = "runs"]
     \/ "spawn" \in Faults /\ helper' = [helper EXCEPT ![h] = "dead"]
  /\ child' = h /\ stopping' = FALSE
  /\ ticking' = TRUE

\* start with t timers pending, of which restartTimer is one if it is set.
Start(t, set, s) ==
  /\ lastKey' = cfg
  /\ \/ /\ ~cfg.enabled
        /\ timers' = t /\ held' = set /\ starts' = s
        /\ UNCHANGED <<helper, child, stopping, ticking>>
     \/ /\ cfg.enabled /\ ~installed
        /\ timers' = IF set THEN t ELSE t + 1
        /\ held' = TRUE /\ starts' = s
        /\ UNCHANGED <<helper, child, stopping, ticking>>
     \/ /\ cfg.enabled /\ installed /\ ~cert
        /\ starts' = s + 1 /\ timers' = t /\ held' = set
        /\ UNCHANGED <<helper, child, stopping, ticking>>
     \/ /\ cfg.enabled /\ installed /\ cert
        /\ \E h \in Helpers : spawnChild(h)
        /\ timers' = t /\ held' = set /\ starts' = s

(* A reload whose stop is over goes on, or the server starts.               *)
Continue ==
  /\ due > 0 /\ due' = due - 1
  /\ Start(timers, held, starts)
  /\ UNCHANGED <<setup, waiting, raced>>

(* The restart timer.                                                       *)
Fire ==
  /\ due = 0 /\ timers > 0
  /\ Start(timers - 1, FALSE, starts)
  /\ UNCHANGED <<setup, waiting, due, raced>>

(* The key pair has been made, or could not be.                             *)
CertMade ==
  /\ due = 0 /\ starts > 0 /\ starts' = starts - 1
  /\ cert' = TRUE
  /\ \E h \in Helpers : spawnChild(h)
  /\ UNCHANGED <<cfg, installed, lastKey, timers, held, waiting, due, raced>>

CertFails ==
  /\ "cert" \in Faults /\ due = 0 /\ starts > 0 /\ starts' = starts - 1
  /\ UNCHANGED <<setup, lastKey, helper, child, stopping, watch, waiting, due, raced>>

-------------------------------------------------------------------------------
\* Mutant: stop clears a timer that has fired already.
ClearAlways == timers' = timers - 1 /\ held' = FALSE

\* Mutant: stop forgets the restart timer without clearing it.
ClearNothing == held' = FALSE /\ UNCHANGED timers

ClearTimer == held' = FALSE /\ timers' = IF held THEN timers - 1 ELSE timers

(* The settings have changed: the tick sees it, or the route of pairings    *)
(* asks.  stop, then start when the helper has ended.                       *)
Reload ==
  /\ due = 0 /\ cfg # lastKey /\ Room
  /\ lastKey' = cfg
  /\ stopping' = TRUE /\ ClearTimer /\ ticking' = FALSE
  /\ raced' = (raced \/ Busy)
  /\ IF child = None
     THEN due' = 1 /\ UNCHANGED <<helper, waiting>>
     ELSE /\ waiting' = [waiting EXCEPT ![child] = @ + 1]
          /\ helper' = [helper EXCEPT ![child] = IF @ = "runs" THEN "ending" ELSE @]
          /\ UNCHANGED due
  /\ UNCHANGED <<setup, child, starts>>

(* stop waits for 5 s and no longer.                                        *)
StopTimer(h) ==
  /\ due = 0 /\ waiting[h] > 0
  /\ "slow" \in Faults \/ ~Alive(h)
  /\ waiting' = [waiting EXCEPT ![h] = @ - 1] /\ due' = 1
  /\ raced' = (raced \/ Alive(h))
  /\ UNCHANGED <<setup, lastKey, helper, child, stopping, watch, starts>>

(* A helper exits: it was stopped, or it crashed.                           *)
Exit(h) ==
  /\ due = 0
  /\ helper[h] = "ending" \/ (helper[h] = "runs" /\ "crash" \in Faults)
  /\ helper' = [helper EXCEPT ![h] = "none"] /\ child' = None
  /\ IF stopping THEN UNCHANGED <<timers, held>>
     ELSE timers' = timers + 1 /\ held' = TRUE
  /\ due' = waiting[h] /\ waiting' = [waiting EXCEPT ![h] = 0]
  /\ UNCHANGED <<setup, lastKey, stopping, ticking, starts, raced>>

SettingsChange ==
  /\ due = 0 /\ cfg' \in Configs
  /\ UNCHANGED <<installed, cert, lastKey, helper, child, stopping, watch, calls, raced>>

(* The binary is built in the background.                                   *)
Built ==
  /\ due = 0 /\ ~installed /\ installed' = TRUE
  /\ UNCHANGED <<cfg, cert, lastKey, helper, child, stopping, watch, calls, raced>>

Next ==
  \/ Continue \/ Fire \/ CertMade \/ CertFails \/ Reload
  \/ \E h \in Helpers : StopTimer(h) \/ Exit(h)
  \/ SettingsChange \/ Built

Fairness ==
  /\ WF_vars(Continue) /\ WF_vars(Fire) /\ WF_vars(CertMade \/ CertFails)
  /\ WF_vars(ticking /\ Reload)
  /\ \A h \in Helpers : /\ WF_vars(helper[h] = "ending" /\ Exit(h))
                        /\ WF_vars(~Alive(h) /\ StopTimer(h))

Spec == Init /\ [][Next]_vars
FairSpec == Spec /\ Fairness

-------------------------------------------------------------------------------
(* The helper that runs is the one the service holds, and it is the only    *)
(* one (start, the exit handler, reload and stop, in any order), as long as *)
(* no two of them have met and each stop has waited for the exit.           *)
Supervised == ~raced => \A h \in Helpers : Alive(h) => child = h

(* The helper follows the settings.  Switched off for good it does not run  *)
(* in the end; switched on for good, and once there has been a key pair, it *)
(* comes back after every crash, unless a spawn fails (which is not tried   *)
(* again).                                                                  *)
FollowsSettings ==
  []~raced =>
    /\ <>[]~cfg.enabled => <>[](\A h \in Helpers : helper[h] # "runs")
    /\ /\ <>[](cfg.enabled /\ lastKey = cfg /\ cert /\ installed)
       /\ <>[](\A h \in Helpers : helper[h] # "dead")
       => []<>(\E h \in Helpers : helper[h] = "runs")

(* The service supervises the helper it has started (head of the file): one *)
(* that runs and has not been told to end is the one it holds, in whatever  *)
(* order the calls come and however long a helper takes to end.             *)
AlwaysSupervised == \A h \in Helpers : helper[h] = "runs" => child = h
===============================================================================
