------------------------------ MODULE DvControl ------------------------------
(***************************************************************************)
(* The feed-in block and the feed-in limit of DVhub as they are written to *)
(* the inverter by control sequences (src/dvhub/schedule-eval.js,          *)
(* runDvControlSequence and its callers).                                  *)
(*                                                                         *)
(* A block first reads and saves the customer's value of every point it is *)
(* about to overwrite (dv_seq_saved.json), then writes its own values; a   *)
(* release writes the saved values back and uses the backup up.  Several   *)
(* callers run such sequences at the same time, each with an await at      *)
(* every Modbus request; any request, and any write of the backup file,    *)
(* may fail, and the process may stop at any moment.                       *)
(***************************************************************************)
EXTENDS Integers, Sequences, FiniteSets

CONSTANTS
  FlagSteps,   \* points the block of the feed-in flag writes, in order
  LimitPoint,  \* the point of the feed-in limit (dvFeedInLimitW)
  Customer,    \* values a customer or installer may have set at a point
  Block,       \* the value DVhub writes to block or to limit
  Default,     \* restoreDefault of the points of the flag
  Legacy,      \* a backup of an older version that can no longer be encoded
  None,        \* no value
  Callers      \* who runs sequences: "eval", "dv", "api" and "limit"

FlagPoints == {FlagSteps[i] : i \in 1 .. Len(FlagSteps)}
Points == FlagPoints \union {LimitPoint}
DeviceValues == Customer \union {Block, Default}
Backups == DeviceValues \union {Legacy, None}

ASSUME StepsAssumption ==
  /\ FlagSteps \in Seq(FlagPoints)
  /\ Len(FlagSteps) > 0
  /\ LimitPoint \notin FlagPoints
  /\ \A i, j \in 1 .. Len(FlagSteps) : FlagSteps[i] = FlagSteps[j] => i = j

ASSUME ValuesAssumption ==
  /\ Block \notin Customer \union {Default}
  /\ None \notin DeviceValues \union {Legacy}
  /\ Legacy \notin DeviceValues

ASSUME CallersAssumption == Callers \subseteq {"eval", "dv", "api", "limit"}

VARIABLES
  dev,      \* what the inverter holds at each point
  mine,     \* history: the last write to the point was DVhub's block value
  saved,    \* state.ctrl._dvSeqSaved, the backups in memory
  disk,     \* dv_seq_saved.json
  pending,  \* state.ctrl._dvSeqSavedPending: the file is behind the memory
  last,     \* state.ctrl._lastDvFeedIn: "undef", "feed" or "block"
  task      \* the sequence each caller is running

vars == <<dev, mine, saved, disk, pending, last, task>>
files == <<disk, pending>>

FlagCallers == Callers \ {"limit"}
Steps(c) == IF c = "limit" THEN <<LimitPoint>> ELSE FlagSteps
DefaultOf(p) == IF p = LimitPoint THEN None ELSE Default

(* One sequence in flight.  "save" awaits the read of step, "write" the     *)
(* write of value at step.  fresh are the points this sequence has saved.   *)
Idle == [pc |-> "idle", feedIn |-> TRUE, own |-> FALSE, step |-> 1,
         fresh |-> {}, value |-> None]

Tasks(c) ==
  [pc : {"idle", "save", "write"}, feedIn : BOOLEAN, own : BOOLEAN,
   step : 1 .. Len(Steps(c)), fresh : SUBSET Points,
   value : DeviceValues \union {None}]

IsFirst(j, S) == j \in S /\ \A k \in S : j <= k

-----------------------------------------------------------------------------
(* The backup file is replaced as a whole; a failure is only remembered.    *)
persistDvSeqSaved(sv) ==
  \/ disk' = sv /\ pending' = FALSE
  \/ disk' = disk /\ pending' = TRUE

(* Every sequence first makes up for a write of the file that failed.       *)
flushPending ==
  \/ pending /\ persistDvSeqSaved(saved)
  \/ ~pending /\ UNCHANGED files

(* Mutant: the backups of a block that failed stay in memory.               *)
DroppedNothing(sv, points) == sv

(* Backups taken for a block that is not written are not kept.              *)
Dropped(sv, points) == [p \in Points |-> IF p \in points THEN None ELSE sv[p]]

(* The value a release writes to p: the backup, or the default where the    *)
(* backup cannot be encoded or, unless only own blocks are released, where  *)
(* there is none.  None means that nothing is written.                      *)
resolveRestoreValue(p, own, sv) ==
  CASE sv[p] \in DeviceValues -> sv[p]
    [] sv[p] = Legacy         -> DefaultOf(p)
    [] OTHER                  -> IF own THEN None ELSE DefaultOf(p)

(* Mutant: a point is read and saved again although it has a backup.        *)
UnsavedAlways(c, from, sv) == from .. Len(Steps(c))

(* The steps from one on whose points have no backup yet (saveBefore).      *)
Unsaved(c, from, sv) ==
  {i \in from .. Len(Steps(c)) : sv[Steps(c)[i]] = None}

(* The steps from one on at which a release has something to write.         *)
Restorable(c, from, own, sv) ==
  {i \in from .. Len(Steps(c)) : resolveRestoreValue(Steps(c)[i], own, sv) # None}

BlockWrite(i) ==
  [pc |-> "write", feedIn |-> FALSE, own |-> FALSE, step |-> i,
   fresh |-> {}, value |-> Block]

(* Mutant: the backup is written as it is, encodable or not.                *)
RestoreWriteRaw(c, i, own, sv) ==
  [pc |-> "write", feedIn |-> TRUE, own |-> own, step |-> i,
   fresh |-> {}, value |-> sv[Steps(c)[i]]]

RestoreWrite(c, i, own, sv) ==
  [pc |-> "write", feedIn |-> TRUE, own |-> own, step |-> i,
   fresh |-> {}, value |-> resolveRestoreValue(Steps(c)[i], own, sv)]

SavingRead(i, fresh) ==
  [pc |-> "save", feedIn |-> FALSE, own |-> FALSE, step |-> i,
   fresh |-> fresh, value |-> None]

(* The cache of the applied state moves only with a complete sequence, and  *)
(* never with one of the feed-in limit.                                     *)
Complete(c, feedIn) ==
  last' = IF c = "limit" THEN last ELSE IF feedIn THEN "feed" ELSE "block"

Begin(c, t) == task' = [task EXCEPT ![c] = t]

-----------------------------------------------------------------------------
(* applyDvVictronControl(false) and applyDvFeedInLimit(limitW): nothing to  *)
(* do when the block is cached as applied; else save what is not saved yet, *)
(* or write at once.  The evaluation and the API ask only while the control *)
(* is enabled; so does applyDvVictronControl for the signal of the "dv".    *)
CallBlock(c) ==
  /\ task[c].pc = "idle"
  /\ c # "limit" => last # "block"
  /\ flushPending
  /\ \/ \E i \in Unsaved(c, 1, saved) :
           IsFirst(i, Unsaved(c, 1, saved)) /\ Begin(c, SavingRead(i, {}))
     \/ Unsaved(c, 1, saved) = {} /\ Begin(c, BlockWrite(1))
  /\ UNCHANGED <<dev, mine, saved, last>>

(* The first release after a start that nobody asked for by name.           *)
bootRelease(c) == c # "api" /\ c # "limit" /\ last = "undef"

(* applyDvVictronControl(true).  After a start only a block that DVhub can  *)
(* prove to be its own is released, and only at the points it saved.        *)
CallRelease(c) ==
  /\ c \in {"eval", "api"}
  /\ task[c].pc = "idle"
  /\ last # "feed"
  /\ \E i \in Restorable(c, 1, bootRelease(c), saved) :
        /\ IsFirst(i, Restorable(c, 1, bootRelease(c), saved))
        /\ Begin(c, RestoreWrite(c, i, bootRelease(c), saved))
  /\ flushPending
  /\ UNCHANGED <<dev, mine, saved, last>>

(* Mutant: one point without a backup is enough to skip the boot release.   *)
SkipBootReleaseSome(c) ==
  /\ c \in {"eval", "api"}
  /\ task[c].pc = "idle"
  /\ bootRelease(c)
  /\ \E p \in FlagPoints : saved[p] = None
  /\ Complete(c, TRUE)
  /\ UNCHANGED <<dev, mine, saved, disk, pending, task>>

(* Every evaluation starts by making up for a failed write of the file.     *)
EvalFlush ==
  /\ "eval" \in Callers /\ task["eval"].pc = "idle"
  /\ pending
  /\ persistDvSeqSaved(saved)
  /\ UNCHANGED <<dev, mine, saved, last, task>>

(* runFlagSequence: without a backup of its own the boot release writes     *)
(* nothing and counts as done.                                              *)
SkipBootRelease(c) ==
  /\ c \in {"eval", "api"}
  /\ task[c].pc = "idle"
  /\ bootRelease(c)
  /\ \A p \in FlagPoints : saved[p] = None
  /\ Complete(c, TRUE)
  /\ UNCHANGED <<dev, mine, saved, disk, pending, task>>

(* applyDvFeedInLimit(null) with something to write back.                   *)
CallLift(c) ==
  /\ c = "limit"
  /\ task[c].pc = "idle"
  /\ Restorable(c, 1, FALSE, saved) # {}
  /\ Begin(c, RestoreWrite(c, 1, FALSE, saved))
  /\ flushPending
  /\ UNCHANGED <<dev, mine, saved, last>>

(* applyDvFeedInLimit(null) with a backup that cannot be encoded: the limit *)
(* has no default, the backup is thrown away and nothing is written.        *)
DiscardBackup(c) ==
  /\ c = "limit"
  /\ task[c].pc = "idle"
  /\ saved[LimitPoint] = Legacy
  /\ saved' = [saved EXCEPT ![LimitPoint] = None]
  /\ \/ disk' = saved' /\ pending' = FALSE
     \/ disk' \in (IF pending THEN {disk, saved} ELSE {disk}) /\ pending' = TRUE
  /\ UNCHANGED <<dev, mine, last, task>>

-----------------------------------------------------------------------------
(* The answer to a read arrives: keep the value and read the next point; at *)
(* the last one put all of them on disk together.  Only a block of the flag *)
(* insists on the file (requirePersist): without it nothing is written.     *)
ReadOk(c) ==
  LET t == task[c]
      p == Steps(c)[t.step]
      sv == [saved EXCEPT ![p] = dev[p]]
      rest == Unsaved(c, t.step + 1, sv)
  IN /\ t.pc = "save"
     /\ \/ /\ \E i \in rest : /\ IsFirst(i, rest)
                              /\ Begin(c, SavingRead(i, t.fresh \union {p}))
           /\ saved' = sv
           /\ UNCHANGED files
        \/ /\ rest = {}
           /\ disk' = sv /\ pending' = FALSE
           /\ saved' = sv
           /\ Begin(c, BlockWrite(1))
        \/ /\ rest = {}
           /\ disk' = disk /\ pending' = TRUE
           /\ \/ /\ c = "limit"
                 /\ saved' = sv
                 /\ Begin(c, BlockWrite(1))
              \/ /\ c # "limit"
                 /\ saved' = Dropped(sv, t.fresh \union {p})
                 /\ Begin(c, Idle)
     /\ UNCHANGED <<dev, mine, last>>

(* A read fails: half a backup is not kept.                                 *)
ReadFail(c) ==
  /\ task[c].pc = "save"
  /\ saved' = Dropped(saved, task[c].fresh)
  /\ Begin(c, Idle)
  /\ UNCHANGED <<dev, mine, disk, pending, last>>

(* A write of the block is confirmed; the next step follows, or the end.    *)
BlockWriteOk(c) ==
  LET t == task[c]
      p == Steps(c)[t.step]
  IN /\ t.pc = "write" /\ ~t.feedIn
     /\ dev' = [dev EXCEPT ![p] = t.value]
     /\ mine' = [mine EXCEPT ![p] = TRUE]
     /\ \/ /\ t.step < Len(Steps(c))
           /\ Begin(c, BlockWrite(t.step + 1))
           /\ UNCHANGED last
        \/ /\ t.step = Len(Steps(c))
           /\ Begin(c, Idle)
           /\ Complete(c, FALSE)
     /\ UNCHANGED <<saved, disk, pending>>

(* A write of a release is confirmed: only now its backup is used up.       *)
RestoreWriteOk(c) ==
  LET t == task[c]
      p == Steps(c)[t.step]
      sv == [saved EXCEPT ![p] = None]
      rest == Restorable(c, t.step + 1, t.own, sv)
  IN /\ t.pc = "write" /\ t.feedIn
     /\ dev' = [dev EXCEPT ![p] = t.value]
     /\ mine' = [mine EXCEPT ![p] = FALSE]
     /\ saved' = sv
     /\ \/ saved[p] # None /\ persistDvSeqSaved(sv)
        \/ saved[p] = None /\ UNCHANGED files
     /\ \/ /\ \E i \in rest : /\ IsFirst(i, rest)
                              /\ Begin(c, RestoreWrite(c, i, t.own, sv))
           /\ UNCHANGED last
        \/ /\ rest = {}
           /\ Begin(c, Idle)
           /\ Complete(c, TRUE)

(* A write fails.  The inverter may have taken the value all the same: only *)
(* the answer was lost.  The sequence ends, the cache stays.                *)
WriteFail(c) ==
  LET t == task[c]
      p == Steps(c)[t.step]
  IN /\ t.pc = "write"
     /\ \/ UNCHANGED <<dev, mine>>
        \/ /\ dev' = [dev EXCEPT ![p] = t.value]
           /\ mine' = [mine EXCEPT ![p] = ~t.feedIn]
     /\ Begin(c, Idle)
     /\ UNCHANGED <<saved, disk, pending, last>>

-----------------------------------------------------------------------------
(* The process stops; the new one reads the backup file and knows nothing   *)
(* else about what it has written.                                          *)
Restart ==
  /\ task' = [c \in Callers |-> Idle]
  /\ saved' = disk
  /\ pending' = FALSE
  /\ last' = "undef"
  /\ UNCHANGED <<dev, mine, disk>>

(* The customer changes a value at the inverter or in its portal.           *)
CustomerSets(p, v) ==
  /\ dev' = [dev EXCEPT ![p] = v]
  /\ mine' = [mine EXCEPT ![p] = FALSE]
  /\ UNCHANGED <<saved, disk, pending, last, task>>

(* An installation starts with the values of its customer, or with blocks   *)
(* of an older version whose backups are still on disk.                     *)
Init ==
  /\ \E old \in SUBSET Points, v \in [Points -> Customer] :
        /\ mine = [p \in Points |-> p \in old]
        /\ dev = [p \in Points |-> IF p \in old THEN Block ELSE v[p]]
        /\ disk = [p \in Points |-> IF p \in old THEN Legacy ELSE None]
  /\ saved = disk
  /\ pending = FALSE
  /\ last = "undef"
  /\ task = [c \in Callers |-> Idle]

SequenceStep(c) ==
  \/ ReadOk(c) \/ ReadFail(c)
  \/ BlockWriteOk(c) \/ RestoreWriteOk(c) \/ WriteFail(c)

Release(c) == CallRelease(c) \/ SkipBootRelease(c)

CallerStep(c) ==
  \/ CallBlock(c) \/ Release(c) \/ CallLift(c) \/ DiscardBackup(c)
  \/ SequenceStep(c)

Next ==
  \/ \E c \in Callers : CallerStep(c)
  \/ EvalFlush \/ Restart
  \/ \E p \in Points, v \in Customer : CustomerSets(p, v)

Spec == Init /\ [][Next]_vars

(* No block is wanted for ever: the evaluation asks every cycle, and where  *)
(* it asks for no block any more it asks for the release until that is done *)
(* (asking for a block that is cached as applied is no step).  A sequence   *)
(* goes on, and a point written again and again is written at last.         *)
Fairness ==
  /\ WF_vars(Release("eval"))
  /\ WF_vars(SequenceStep("eval"))
  /\ \A i \in 1 .. Len(FlagSteps) :
        SF_vars(RestoreWriteOk("eval") /\ task["eval"].step = i)

FairSpec == Spec /\ Fairness

(* The evaluation, the signal of the "dv" and the API have no two sequences *)
(* under way at once.  Nothing in the code sees to it (DvControlOverlap).   *)
Apart ==
  \A c, d \in FlagCallers :
     (task[c].pc # "idle" /\ task[d].pc # "idle") => c = d

(* The behaviours of FairSpec in which they have not.                       *)
ApartSpec == Init /\ [][Next /\ Apart']_vars /\ Fairness

-----------------------------------------------------------------------------
TypeOK ==
  /\ dev \in [Points -> DeviceValues]
  /\ mine \in [Points -> BOOLEAN]
  /\ saved \in [Points -> Backups]
  /\ disk \in [Points -> Backups]
  /\ pending \in BOOLEAN
  /\ last \in {"undef", "feed", "block"}
  /\ DOMAIN task = Callers
  /\ \A c \in Callers : task[c] \in Tasks(c)

(* "For block sequences there is a block only when its backup is on disk":  *)
(* whatever fails and whenever the process stops, DVhub finds the proof of  *)
(* its own block after a restart and can lift it (requirePersist).          *)
BlockBacked == \A p \in FlagPoints : mine[p] => disk[p] # None

(* A backup holds what the customer had set (or a release default), never   *)
(* DVhub's own block value: writing it back can not block again.  One block *)
(* read as a customer value would stay for good.                            *)
BackupGenuine ==
  \A p \in FlagPoints : saved[p] # Block /\ disk[p] # Block

(* What the arbiter of the feed-in limit takes for granted: as long as a    *)
(* limit of DVhub may be at the inverter there is a backup to lift it with, *)
(* and it is not a limit of DVhub itself.  Unlike a block a limit is        *)
(* written without its backup on disk ("Andere Sequenzen ... schreiben      *)
(* trotzdem", runDvControlSequence).                                        *)
LimitBacked ==
  /\ mine[LimitPoint] => saved[LimitPoint] # None
  /\ saved[LimitPoint] # Block

(* No process ends while the file is behind the memory, and no backup that  *)
(* cannot be encoded is thrown away below a limit.                          *)
LimitKept ==
  /\ Restart => ~pending
  /\ \A c \in Callers : DiscardBackup(c) => ~mine[LimitPoint]

(* When the cache turns to "feed", because a release came to its end or     *)
(* because the boot release found nothing to do, no own block is left at    *)
(* the inverter: a later release would be answered from the cache.          *)
ReleaseComplete ==
  [][(last # "feed" /\ last' = "feed") => \A p \in FlagPoints : ~mine'[p]]_vars

(* "With control disabled DVhub must leave no block of its own at the       *)
(* device" (evaluateSchedule, the branch of dvControl.enabled = false): once *)
(* the cache says "feed" every release is answered from it, so nothing of a *)
(* block may be left at the inverter between two sequences.                 *)
NoBlockBehindCache ==
  (last = "feed" /\ \A c \in FlagCallers : task[c].pc = "idle")
     => \A p \in FlagPoints : ~mine[p]

(* No block is given up half-way: a write of it that fails is its first one *)
(* and has not reached the inverter.  Nothing sees to that either           *)
(* (DvControlCache).                                                        *)
NoneHalfway ==
  \A c \in FlagCallers :
     (WriteFail(c) /\ ~task[c].feedIn) => task[c].step = 1 /\ UNCHANGED mine

(* A block that came to its end, and what is found after a start, leaves    *)
(* the inverter, and not only the cache, in spite of failing requests, if   *)
(* from some time on nobody asks for a block and the process keeps running. *)
(* A block given up half-way while the cache says "feed" is the exception:  *)
(* no release looks for it (NoBlockBehindCache).                            *)
SomeBlockCall == \E c \in Callers : CallBlock(c)
EventuallyReleased ==
  <>[][~SomeBlockCall /\ ~Restart]_vars =>
    (last # "feed" ~> last = "feed" /\ \A p \in FlagPoints : ~mine[p])

=============================================================================
