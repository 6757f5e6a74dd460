------------------------------ MODULE ControlGate ------------------------------
(***************************************************************************)
(* Everything DVhub writes to the grid setpoint passes one function,       *)
(* applyControlTarget.  Its gates decide what may be written, its memory   *)
(* of the last write whether anything has to be; then it awaits the        *)
(* device.  Two evaluations (the first of a process and the looped one),   *)
(* the commands of the operator and the emergency stop call it, and each   *)
(* goes on where it is when its own request is settled.                    *)
(*                                                                         *)
(* Requests to one device settle in the order of the calls, each with      *)
(* success, with failure and no effect, with failure and an effect, or     *)
(* with failure and an effect later on (RequestService).  Between the      *)
(* gates and the request there is no await: a call is one step.  A failed  *)
(* request with an effect is one whose write lands later on, or at once.   *)
(* That the device carries a write out and that its answer arrives is one  *)
(* step, too: only a readback looks at the register, and it is served      *)
(* after the answer, so what lands between the two lands after both here.  *)
(***************************************************************************)
EXTENDS Integers, FiniteSets, Sequences

CONSTANTS
  Values,        \* setpoints in W; negative is export, positive is import
  ForcedExport,  \* FORCED_EXPORT_THRESHOLD_W: at or below it energy is sold
  Default,       \* schedule.defaultGridSetpointW, also the export buffer
  Keepalive,     \* is controlKeepaliveMs set?
  Verify,        \* is controlWriteVerify on?
  Commands,      \* what operators may want: [value, persistent]
  Operators,     \* the operators
  Envs,          \* what the evaluation and the gates read: see EnvType
  Faults,        \* the faults of this instance
  MaxChain,      \* bound on the requests in flight beside one of the loop
  None, Refused

FaultKinds == {"lost", "late", "drift", "crash"}

RuleSources == {"rule", "rule:eos", "eos_grid_hold", "dc_export_mode"}

EnvType ==
  [rule : [value : Values, source : RuleSources] \union {None}, \* what the schedule wants
   soc : {"fit", "low", "floor", "stale", "unknown"}, \* low: under manualOverrideMinSocPct
   price : {"negative", "cheap", "fair", "unknown"},
   charge : BOOLEAN, discharge : BOOLEAN,  \* allowGridCharge, allowGridDischarge
   share : {v \in Values : v >= 0} \union {None}, \* gridShareLiveCapW while locked
   peak : Values \union {None},            \* what clampGridSetpoint caps at
   limit : Values \union {None}]           \* section 14a: p14aBatteryGridW

ASSUME ValuesAssumption ==
  /\ Values \subseteq Int /\ 0 \in Values /\ None \notin Values /\ Refused \notin Values
  /\ ForcedExport \in Values /\ Default \in Values
  /\ Keepalive \in BOOLEAN /\ Verify \in BOOLEAN
ASSUME CallersAssumption ==
  /\ Commands \subseteq [value : Values, persistent : BOOLEAN] /\ None \notin Commands
  /\ Operators \intersect {"first", "loop", "stop", "verify"} = {}
  /\ MaxChain \in Nat \ {0}
  /\ Envs \subseteq EnvType /\ (\A e \in Envs : e.share # None => -e.share \in Values)
  /\ Faults \subseteq FaultKinds

VARIABLES
  paused, disk,        \* discretionaryWritesPaused and control_state.json
  override, env,       \* what the evaluation reads
  lastWrite, due,      \* lastWrite[target].value; is it older than the keepalive?
  timer, moved,        \* verifyTimers; was lastWrite replaced during the read?
  chain,               \* requests in flight, the first one is with the device
  dev, late,           \* the register; a write that may still reach it
  first,               \* is the first evaluation of this process to come?
  asked,               \* what an evaluation asks for once it has gone on
  stop, doubt, granted \* history: see Init

gate == <<paused, disk, env>>
memory == <<lastWrite, due, timer, moved>>
plant == <<dev, late>>
evals == <<first, asked>>
history == <<stop, doubt, granted>>
vars == <<gate, override, memory, chain, plant, evals, history>>

Evaluations == {"first", "loop"}
Writers == Evaluations \union Operators \union {"stop"}
Lower(a, b) == IF a < b THEN a ELSE b
Higher(a, b) == IF a > b THEN a ELSE b

\* Mutant: the buffer loses its sign.
NppUnsigned == -Higher(Default, ForcedExport)

\* Values of mandatory sources: the curtailment buffer, or no export at all.
NppLimit == Lower(0, Higher(Default, ForcedExport))

Safe == {0, NppLimit}

\* What an evaluation asks for.
Wishes ==
  [value : Values,
   source : RuleSources \union
            {"manual_override", "manual_override_persistent", "default", "sell_price_floor",
             "manual_override_soc_floor", "paragraph14a_limit", "negative_price_protection"}]

Requests ==
  [by : Writers \union {"verify"}, value : Values, mandatory : BOOLEAN, again : BOOLEAN,
   command : Commands \union {None}, before : Commands \union {None}]

TypeOK ==
  /\ paused \in BOOLEAN /\ disk \in BOOLEAN
  /\ override \in Commands \union {None} /\ env \in Envs
  /\ lastWrite \in Values \union {None} /\ due \in BOOLEAN
  /\ timer \in BOOLEAN /\ moved \in BOOLEAN
  /\ chain \in Seq(Requests)
  /\ dev \in Values /\ late \in Values \union {None}
  /\ first \in BOOLEAN /\ asked \in [Evaluations -> Wishes \union {None}]
  /\ stop \in {"none", "asked", "done", "failed", "raced"}
  /\ doubt \in BOOLEAN /\ granted \in Commands \union {None}

(* stop: how the emergency stop in force went; "raced" if its own write was *)
(* skipped while one it does not allow was in flight.  doubt: has the       *)
(* register been changed other than by a confirmed write since the last     *)
(* one?  granted: the last command of an operator that was answered as done. *)
Init ==
  /\ paused = FALSE /\ disk = FALSE
  /\ override = None /\ env \in Envs
  /\ lastWrite = None /\ due = FALSE /\ timer = FALSE /\ moved = FALSE
  /\ chain = <<>> /\ dev \in Values /\ late = None
  /\ first = TRUE /\ asked = [c \in Evaluations |-> None]
  /\ stop = "none" /\ doubt = FALSE /\ granted = None

-------------------------------------------------------------------------------
(* The gates, in the order of the code.                                     *)

Mandatory(source) ==
  source \in {"negative_price_protection", "manual_override_soc_floor", "emergency_stop"}

\* The export buffer is a lower bound for what is not sold already.
Buffered(v, source) ==
  IF /\ Default < 0 /\ ~Mandatory(source) /\ source # "sell_price_floor"
     /\ env.price \in {"cheap", "fair"} /\ v <= 0 /\ v > Default
  THEN Default ELSE v

Illegal(v, source) ==
  \/ v > 0 /\ ~env.charge /\ source # "eos_grid_hold"
  \/ /\ v <= ForcedExport /\ ~env.discharge
     /\ ~Mandatory(source) /\ source # "dc_export_mode"

ShareCapped(v, source) ==
  IF env.share # None /\ ~Mandatory(source) /\ v < 0 /\ v < -env.share THEN -env.share ELSE v

PeakCapped(v, source) ==
  IF env.peak # None /\ ~Mandatory(source) /\ v > env.peak THEN env.peak ELSE v

\* No discharge on a state of charge that is unknown, stale or at the floor.
Held(v) == IF v < 0 /\ env.soc \in {"floor", "stale", "unknown"} THEN 0 ELSE v

\* What is written when source asks for v, or Refused.
Gate(v, source) ==
  LET buffered == Buffered(v, source)
  IN  IF (paused /\ ~Mandatory(source)) \/ Illegal(buffered, source) THEN Refused
      ELSE Held(PeakCapped(ShareCapped(buffered, source), source))

-------------------------------------------------------------------------------
(* Calls of applyControlTarget.                                             *)

InFlight(c) == \E i \in DOMAIN chain : chain[i].by = c
Write(r) == r.by # "verify"

\* Mutant: a write that is due for the keepalive is skipped as unchanged.
UnchangedAlways(w) == lastWrite = w

Unchanged(w) == lastWrite = w /\ ~due

Request(c, w, source, command) ==
  [by |-> c, value |-> w, mandatory |-> Mandatory(source), again |-> lastWrite = w,
   command |-> command, before |-> override]

Send(r) ==
  /\ Cardinality({i \in DOMAIN chain : chain[i].by # "loop"}) < MaxChain \/ r.by = "loop"
  /\ chain' = Append(chain, r)

\* What the schedule, an override or the default want (effectiveTargetValue).
\* The export of the DC side, a write of its own before the others, counts as a
\* rule: an evaluation writes once here.
Effective ==
  IF env.rule # None THEN env.rule
  ELSE IF override # None
    THEN [value |-> override.value,
          source |-> IF override.persistent THEN "manual_override_persistent" ELSE "manual_override"]
  ELSE [value |-> Default, source |-> "default"]

\* What the evaluation asks for instead (evaluateSchedule).
Wish ==
  LET v == Effective.value
      source == Effective.source
      hold == Lower(0, Default)
  IN  CASE source = "manual_override_persistent" /\ v < 0 /\ env.soc \in {"low", "floor", "unknown"} ->
             [value |-> 0, source |-> "manual_override_soc_floor"]
        [] env.limit # None /\ v > 0 /\ v > Higher(hold, env.limit) ->
             [value |-> Higher(hold, env.limit), source |-> "paragraph14a_limit"]
        [] env.price = "negative" /\ v <= 0 ->
             [value |-> NppLimit, source |-> "negative_price_protection"]
        [] env.price = "cheap" /\ v <= ForcedExport /\ source \notin {"rule:eos", "dc_export_mode"} ->
             [value |-> Default, source |-> "sell_price_floor"]
        [] OTHER -> [value |-> v, source |-> source]

Wanted == Gate(Wish.value, Wish.source)

\* applyControlTarget for an evaluation.
AskFor(c, wish) ==
  LET w == Gate(wish.value, wish.source)
  IN  IF w = Refused \/ Unchanged(w) THEN UNCHANGED chain
      ELSE Send(Request(c, w, wish.source, None))

(* An evaluation asserts what is wanted; a rule ends the override.  At a    *)
(* negative price it may have to block the feed-in first, and waits for     *)
(* that.  The first one of a process is not waited for by the loop.         *)
EvalAsk(c) ==
  /\ c = "first" => first
  /\ asked[c] = None /\ ~InFlight(c)
  /\ first' = (first /\ c # "first")
  /\ override' = IF env.rule # None /\ env.rule.source # "dc_export_mode" THEN None ELSE override
  /\ \/ AskFor(c, Wish) /\ UNCHANGED asked
     \/ /\ env.price = "negative"
        /\ Wish.source \notin {"manual_override_soc_floor", "paragraph14a_limit"}
        /\ asked' = [asked EXCEPT ![c] = Wish] /\ UNCHANGED chain
  /\ UNCHANGED <<gate, memory, plant, history>>

\* The feed-in is blocked, or could not be: now it asks for what was wanted then.
EvalGoesOn(c) ==
  /\ asked[c] # None /\ asked' = [asked EXCEPT ![c] = None]
  /\ AskFor(c, asked[c])
  /\ UNCHANGED <<gate, override, memory, plant, first, history>>

(* An operator commands a setpoint: the override is in force at once, and   *)
(* what the gates refuse has never been.                                    *)
Command(c, m) ==
  LET w == Gate(m.value, "api_manual_write")
  IN  /\ ~InFlight(c) /\ w # Refused
      /\ override' = m
      /\ IF Unchanged(w) THEN granted' = m /\ UNCHANGED chain
         ELSE Send(Request(c, w, "api_manual_write", m)) /\ UNCHANGED granted
      /\ UNCHANGED <<gate, memory, plant, evals, stop, doubt>>

(* An override ends: its time is over, or an operator clears it.            *)
OverrideEnds ==
  /\ override # None
  /\ override' = None
  /\ UNCHANGED <<gate, memory, chain, plant, evals, history>>

persistControlState(on) == disk' = on

(* The emergency stop: first the flag, then one neutralisation.             *)
Stop ==
  LET raced == \E i \in DOMAIN chain : Write(chain[i]) /\ ~chain[i].mandatory
  IN  /\ ~paused
      /\ paused' = TRUE /\ persistControlState(TRUE)
      /\ IF Unchanged(0)
         THEN stop' = (IF raced THEN "raced" ELSE "done") /\ UNCHANGED chain
         ELSE stop' = "asked" /\ Send(Request("stop", 0, "emergency_stop", None))
      /\ UNCHANGED <<override, env, memory, plant, evals, doubt, granted>>

Resume ==
  /\ paused
  /\ paused' = FALSE /\ persistControlState(FALSE) /\ stop' = "none"
  /\ UNCHANGED <<override, env, memory, chain, plant, evals, doubt, granted>>

-------------------------------------------------------------------------------
(* Requests are settled.                                                    *)

\* Mutant: what was written is not remembered as such, but what is wanted.
RecordWanted(r) == lastWrite' = IF Wanted = Refused THEN r.value ELSE Wanted

Record(r) == lastWrite' = r.value

\* Is r the write of the stop in force, not one of a stop before?
OfTheStop(r) ==
  r.by = "stop" /\ stop = "asked" /\ \A i \in DOMAIN chain : i > 1 => chain[i].by # "stop"

(* The device has confirmed a write: it is the last one from now on, and    *)
(* unless it repeats the one before, its readback is planned.               *)
WriteOk ==
  LET r == Head(chain)
  IN  /\ chain # <<>> /\ Write(r)
      /\ chain' = Tail(chain) /\ dev' = r.value
      /\ Record(r) /\ due' = FALSE
      /\ timer' = (timer \/ (Verify /\ ~r.again)) /\ moved' = (moved \/ InFlight("verify"))
      /\ doubt' = FALSE
      /\ granted' = IF r.by \in Operators THEN r.command ELSE granted
      /\ stop' = IF OfTheStop(r) THEN "done" ELSE stop
      /\ UNCHANGED <<gate, override, late, evals>>

\* Mutant: a command that failed stays in force.
RestoreNot(r) == UNCHANGED override

\* A command that failed gives back the override that was in force before.
Restore(r) == override' = IF r.by \in Operators THEN r.before ELSE override

WriteFail ==
  LET r == Head(chain)
  IN  /\ chain # <<>> /\ Write(r)
      /\ chain' = Tail(chain)
      /\ Restore(r)
      /\ stop' = IF OfTheStop(r) THEN "failed" ELSE stop
      /\ \/ "lost" \in Faults /\ UNCHANGED <<plant, doubt>>
         \/ "late" \in Faults /\ late = None /\ late' = r.value /\ UNCHANGED <<dev, doubt>>
      /\ UNCHANGED <<gate, memory, evals, granted>>

KeepaliveDue ==
  /\ Keepalive /\ lastWrite # None /\ ~due
  /\ due' = TRUE
  /\ UNCHANGED <<gate, override, lastWrite, timer, moved, chain, plant, evals, history>>

(* The readback of the last write is sent; one at a time.                   *)
VerifyFires ==
  /\ timer /\ ~InFlight("verify")
  /\ timer' = FALSE /\ moved' = FALSE
  /\ IF lastWrite = None THEN UNCHANGED chain
     ELSE Send([by |-> "verify", value |-> lastWrite, mandatory |-> FALSE, again |-> FALSE,
                command |-> None, before |-> None])
  /\ UNCHANGED <<gate, override, lastWrite, due, plant, evals, history>>

\* Mutant: a write that came during the read is not looked for.
SupersededNever == lastWrite = None

Superseded == lastWrite = None \/ moved

(* What does not read back is forgotten, so that it is written again.       *)
VerifyReads ==
  LET r == Head(chain)
  IN  /\ chain # <<>> /\ ~Write(r)
      /\ chain' = Tail(chain)
      /\ IF ~Superseded /\ dev # r.value THEN lastWrite' = None /\ due' = FALSE
         ELSE UNCHANGED <<lastWrite, due>>
      /\ moved' = FALSE
      /\ UNCHANGED <<gate, override, timer, plant, evals, history>>

VerifyFails ==
  /\ "lost" \in Faults
  /\ chain # <<>> /\ ~Write(Head(chain))
  /\ chain' = Tail(chain) /\ moved' = FALSE
  /\ UNCHANGED <<gate, override, lastWrite, due, timer, plant, evals, history>>

-------------------------------------------------------------------------------
(* The world.                                                               *)

(* A write that had failed reaches the device on its old socket.            *)
LateLands ==
  /\ late # None
  /\ dev' = late /\ late' = None /\ doubt' = TRUE
  /\ UNCHANGED <<gate, override, memory, chain, evals, stop, granted>>

(* The GX restarts and falls back to its default.                           *)
Drift ==
  /\ "drift" \in Faults
  /\ dev' = Default /\ doubt' = TRUE
  /\ UNCHANGED <<gate, override, memory, chain, late, evals, stop, granted>>

WorldChanges ==
  /\ env' \in Envs
  /\ UNCHANGED <<paused, disk, override, memory, chain, plant, evals, history>>

\* Mutant: the emergency stop is not read back at the start.
LoadNothing == paused' = FALSE

loadControlState == paused' = disk

(* The process ends and another one starts; the request with the device may *)
(* have been carried out.                                                   *)
Restart ==
  /\ "crash" \in Faults
  /\ loadControlState
  /\ override' = None /\ lastWrite' = None /\ due' = FALSE /\ timer' = FALSE /\ moved' = FALSE
  /\ chain' = <<>> /\ first' = TRUE /\ asked' = [c \in Evaluations |-> None]
  /\ \/ UNCHANGED dev
     \/ chain # <<>> /\ Write(Head(chain)) /\ dev' = Head(chain).value
  /\ stop' = IF ~disk THEN "none" ELSE IF stop = "asked" THEN "failed" ELSE stop
  /\ granted' = None
  /\ UNCHANGED <<disk, env, late, doubt>>

Next ==
  \/ \E c \in Evaluations : EvalAsk(c) \/ EvalGoesOn(c)
  \/ \E c \in Operators, m \in Commands : Command(c, m)
  \/ OverrideEnds \/ Stop \/ Resume
  \/ WriteOk \/ WriteFail \/ KeepaliveDue
  \/ VerifyFires \/ VerifyReads \/ VerifyFails
  \/ LateLands \/ Drift \/ WorldChanges \/ Restart

Settle == WriteOk \/ WriteFail \/ VerifyReads \/ VerifyFails

Fairness ==
  /\ WF_vars(EvalAsk("loop")) /\ WF_vars(EvalGoesOn("loop"))
  /\ WF_vars(KeepaliveDue) /\ WF_vars(Settle)
  /\ \A v \in Values :
       SF_vars(WriteOk /\ Head(chain).by = "loop" /\ Head(chain).value = v)

Spec == Init /\ [][Next]_vars
FairSpec == Spec /\ Fairness

(* No operator commands while a command is under way.                       *)
CommandsApart ==
  (\E c \in Operators, m \in Commands : Command(c, m)) => \A d \in Operators : ~InFlight(d)

-------------------------------------------------------------------------------
(* The last write is what the device holds, unless the register has been    *)
(* changed by something else since: this is what "unchanged" relies on when *)
(* it skips a write, however the calls of evaluations, operators and the    *)
(* stop overlap (applyControlTarget records after its await).               *)
LastWriteTrue == (lastWrite # None /\ ~doubt) => dev = lastWrite

(* After an emergency stop that was carried out nothing is sold or bought   *)
(* any more: the device holds 0 or what a mandatory source wrote, also in   *)
(* the next process, as long as no write has reached the device unconfirmed *)
(* (setEmergencyStop, the first gate, loadControlState).  It counts as      *)
(* carried out when its write is confirmed, whatever was in flight before   *)
(* it, or when it was skipped and nothing was.                              *)
StopNeutral == (stop = "done" /\ ~doubt) => dev \in Safe

(* The readback never forgets a write that the device holds, whatever is    *)
(* written while it is on its way (runWriteVerify).                         *)
VerifyHonest ==
  [][ (lastWrite # None /\ lastWrite' = None /\ ~Restart) => dev # lastWrite ]_vars

(* A command that was reported as failed leaves no override behind, however *)
(* commands, evaluations, the end of an override and a stop come between    *)
(* its call and its answer: with none under way the override is none or the *)
(* last one that was reported as done (applyManualControlWrite).  The       *)
(* setpoint is another matter: an evaluation that has seen the command may  *)
(* have written it; HoldsWanted says that it does not stay.                 *)
FailedHasNoEffect ==
  (\A c \in Operators : ~InFlight(c)) => override \in {None, granted}

(* With a keepalive the device holds again and again what the gates make    *)
(* of the schedule, once that stays and the process lives on, in spite of   *)
(* lost answers, late writes, restarts of the device and whatever was       *)
(* wanted before.                                                           *)
HoldsWanted ==
  Keepalive /\ <>[][Wanted' = Wanted /\ ~Restart]_vars => []<>(Wanted \in {dev, Refused})

(* The same for a stop whose write was skipped with one in flight: no       *)
(* discretionary write comes between the flag and the neutralisation        *)
(* (comment of setEmergencyStop).                                           *)
StopNeutralises ==
  (stop \in {"done", "raced"} /\ chain = <<>> /\ ~doubt) => dev \in Safe

(* No stop is skipped as unchanged with a discretionary write in flight.    *)
StopSeesAll ==
  (Stop /\ Unchanged(0)) => \A i \in DOMAIN chain : Write(chain[i]) => chain[i].mandatory
===============================================================================
