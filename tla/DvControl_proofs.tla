-------------------------- MODULE DvControl_proofs --------------------------
(***************************************************************************)
(* Proofs about DvControl, for any number of points, any values and any    *)
(* number of restarts and failures, as long as no two callers block or     *)
(* release at the same time (Apart; the feed-in limit may always overlap). *)
(* When they do BlockBacked does not hold: run DvControlOverlap.           *)
(*                                                                         *)
(* BlockBacked is not inductive.  It needs to know that a sequence that is *)
(* writing its block has all of its backups on disk (BlockingOK), that a   *)
(* sequence which is still saving has blocked none of the points it saved  *)
(* (FreshOK), that a backup in memory that is not on disk belongs to such  *)
(* a sequence (BackupOnDisk), and that a backup survives as long as the    *)
(* block it belongs to (BackupOfMine, BlockIsMine).                        *)
(***************************************************************************)
EXTENDS DvControl, TLAPS

(* The points a sequence has saved and may have to forget again.            *)
FreshOf(c) == task[c].fresh

(* A point DVhub has blocked has a backup, in memory and on disk.           *)
BackupOfMine ==
  \A p \in FlagPoints : mine[p] => saved[p] # None /\ disk[p] # None

(* Nobody but DVhub sets the block value of the flag.                       *)
BlockIsMine == \A p \in FlagPoints : dev[p] = Block => mine[p]

(* A backup in memory is on disk, unless a sequence has only just read it.  *)
BackupOnDisk ==
  \A p \in FlagPoints :
     saved[p] # None => disk[p] # None \/ \E c \in FlagCallers : p \in FreshOf(c)

(* What a sequence has just saved it has not blocked.                       *)
FreshOK ==
  \A c \in Callers :
     /\ task[c].pc # "save" => FreshOf(c) = {}
     /\ FreshOf(c) \subseteq {Steps(c)[i] : i \in 1 .. Len(Steps(c))}
     /\ \A p \in FreshOf(c) : p \in FlagPoints => ~mine[p]

(* Points are saved in order, and each is read only while it has no backup. *)
SavingOK ==
  \A c \in FlagCallers :
     task[c].pc = "save" =>
       /\ saved[Steps(c)[task[c].step]] = None
       /\ \A i \in 1 .. task[c].step - 1 : saved[Steps(c)[i]] # None

(* A sequence that writes its block has every backup in memory and on disk. *)
BlockingOK ==
  \A c \in FlagCallers :
     (task[c].pc = "write" /\ ~task[c].feedIn) =>
       /\ task[c].value = Block
       /\ \A p \in FlagPoints : saved[p] # None /\ disk[p] # None

(* A release writes no block value and has lifted the block of each step    *)
(* before the one it is at.                                                 *)
ReleasingOK ==
  \A c \in FlagCallers :
     (task[c].pc = "write" /\ task[c].feedIn) =>
       /\ task[c].value \in DeviceValues \ {Block}
       /\ \A i \in 1 .. task[c].step - 1 : ~mine[Steps(c)[i]]

(* A sequence that writes has a value to write.                             *)
WritingOK ==
  \A c \in Callers : task[c].pc = "write" => task[c].value # None

(* The inductive invariant.                                                 *)
IInv ==
  /\ TypeOK
  /\ WritingOK
  /\ BackupOfMine
  /\ BlockIsMine
  /\ BackupGenuine
  /\ BackupOnDisk
  /\ FreshOK
  /\ SavingOK
  /\ BlockingOK
  /\ ReleasingOK

-----------------------------------------------------------------------------
(* What the assumptions say of the steps of a caller.                       *)
LEMMA StepsFacts ==
  ASSUME NEW c \in Callers
  PROVE  /\ Len(Steps(c)) \in Nat
         /\ Len(Steps(c)) > 0
         /\ \A i \in 1 .. Len(Steps(c)) :
               /\ Steps(c)[i] \in Points
               /\ c = "limit" => Steps(c)[i] = LimitPoint
               /\ c # "limit" => Steps(c)[i] \in FlagPoints
         /\ c \in FlagCallers => Steps(c) = FlagSteps
         /\ c \notin FlagCallers => c = "limit"
  BY StepsAssumption DEF Steps, Points, FlagPoints, FlagCallers

(* While a sequence of the flag is under way, no other is.                  *)
LEMMA OthersIdle ==
  ASSUME Apart, NEW c \in FlagCallers, task[c].pc # "idle",
         NEW d \in FlagCallers, d # c
  PROVE  task[d].pc = "idle"
  BY DEF Apart

(* A restored value can be written, is a block only if the backup was one,  *)
(* and exists for every point of the flag that has a backup.                *)
LEMMA RestoreFacts ==
  ASSUME NEW p \in Points, NEW own \in BOOLEAN, NEW sv \in [Points -> Backups]
  PROVE  /\ resolveRestoreValue(p, own, sv) \in DeviceValues \union {None}
         /\ sv[p] # Block => resolveRestoreValue(p, own, sv) # Block
         /\ (p \in FlagPoints /\ sv[p] # None)
               => resolveRestoreValue(p, own, sv) # None
  <1>1. p \in FlagPoints => p # LimitPoint
    BY StepsAssumption
  <1>2. Default # Block /\ Default # None /\ None # Block
    BY ValuesAssumption DEF DeviceValues
  <1>3. CASE sv[p] \in DeviceValues
    BY <1>3, <1>1, <1>2, ValuesAssumption DEF resolveRestoreValue, DeviceValues
  <1>4. CASE sv[p] = Legacy
    BY <1>4, <1>1, <1>2, ValuesAssumption DEF resolveRestoreValue, DefaultOf, DeviceValues
  <1>5. CASE sv[p] = None
    BY <1>5, <1>1, <1>2, ValuesAssumption DEF resolveRestoreValue, DefaultOf, DeviceValues
  <1> QED BY <1>3, <1>4, <1>5 DEF Backups

(* The records of the sequences have the type of a task.                    *)
LEMMA IdleFacts ==
  ASSUME NEW c \in Callers
  PROVE  Idle \in Tasks(c)
  BY StepsFacts DEF Idle, Tasks, DeviceValues

(* A write of the block is a task.                                          *)
LEMMA BlockWriteFacts ==
  ASSUME NEW c \in Callers, NEW i \in 1 .. Len(Steps(c))
  PROVE  BlockWrite(i) \in Tasks(c)
  BY StepsFacts DEF BlockWrite, Tasks, DeviceValues

(* A read for the backup is a task.                                         *)
LEMMA SavingReadFacts ==
  ASSUME NEW c \in Callers, NEW i \in 1 .. Len(Steps(c)), NEW fresh \in SUBSET Points
  PROVE  SavingRead(i, fresh) \in Tasks(c)
  BY StepsFacts DEF SavingRead, Tasks, DeviceValues

(* A write of a release is a task.                                          *)
LEMMA RestoreWriteFacts ==
  ASSUME NEW c \in Callers, NEW i \in 1 .. Len(Steps(c)), NEW own \in BOOLEAN,
         NEW sv \in [Points -> Backups]
  PROVE  RestoreWrite(c, i, own, sv) \in Tasks(c)
  BY StepsFacts, RestoreFacts DEF RestoreWrite, Tasks

(* The invariant holds at the start, also over blocks of an older version.  *)
LEMMA InitIInv == Init => IInv
  <1> SUFFICES ASSUME Init PROVE IInv
    OBVIOUS
  <1>1. PICK old \in SUBSET Points, v \in [Points -> Customer] :
          /\ mine = [p \in Points |-> p \in old]
          /\ dev = [p \in Points |-> IF p \in old THEN Block ELSE v[p]]
          /\ disk = [p \in Points |-> IF p \in old THEN Legacy ELSE None]
    BY DEF Init
  <1>2. FlagPoints \subseteq Points
    BY DEF Points
  <1>3. TypeOK
    <2>1. mine \in [Points -> BOOLEAN]
      BY <1>1
    <2>2. dev \in [Points -> DeviceValues] /\ disk \in [Points -> Backups]
      BY <1>1 DEF DeviceValues, Backups
    <2>3. DOMAIN task = Callers /\ \A c \in Callers : task[c] \in Tasks(c)
      BY IdleFacts DEF Init
    <2> QED BY <2>1, <2>2, <2>3 DEF Init, TypeOK
  <1>4. BackupOfMine /\ BlockIsMine /\ BackupGenuine /\ BackupOnDisk
    <2>1. \A p \in FlagPoints : mine[p] <=> p \in old
      BY <1>1, <1>2, Zenon
    <2>2. \A p \in FlagPoints : dev[p] = IF p \in old THEN Block ELSE v[p]
      BY <1>1, <1>2
    <2>3. \A p \in FlagPoints : disk[p] = IF p \in old THEN Legacy ELSE None
      BY <1>1, <1>2
    <2>4. /\ None # Legacy /\ None # Block /\ Legacy # Block
          /\ \A p \in FlagPoints : v[p] # Block
      BY <1>2, ValuesAssumption DEF DeviceValues
    <2>5. saved = disk
      BY DEF Init
    <2>6. BackupOfMine
      BY <2>1, <2>3, <2>4, <2>5 DEF BackupOfMine
    <2>7. BlockIsMine
      BY <2>1, <2>2, <2>4, Zenon DEF BlockIsMine
    <2>8. BackupGenuine /\ BackupOnDisk
      BY <2>3, <2>4, <2>5 DEF BackupGenuine, BackupOnDisk
    <2> QED BY <2>6, <2>7, <2>8
  <1>5. \A c \in Callers : task[c] = Idle
    BY DEF Init
  <1>6. WritingOK /\ FreshOK /\ SavingOK /\ BlockingOK /\ ReleasingOK
    BY <1>5 DEF WritingOK, FreshOK, SavingOK, BlockingOK, ReleasingOK, FreshOf, Idle, FlagCallers
  <1> QED BY <1>3, <1>4, <1>6 DEF IInv

-----------------------------------------------------------------------------
(* A step of one caller leaves the sequences of the others alone.           *)
LEMMA BeginFacts ==
  ASSUME NEW c \in Callers, NEW t, DOMAIN task = Callers, Begin(c, t),
         t \in Tasks(c), \A d \in Callers : task[d] \in Tasks(d)
  PROVE  /\ task'[c] = t
         /\ \A d \in Callers : d # c => task'[d] = task[d]
         /\ DOMAIN task' = Callers
         /\ \A d \in Callers : task'[d] \in Tasks(d)
  BY DEF Begin

(* The fields of a sequence, from the type invariant.                       *)
LEMMA TaskFacts ==
  ASSUME TypeOK, NEW c \in Callers
  PROVE  /\ task[c].pc \in {"idle", "save", "write"}
         /\ task[c].feedIn \in BOOLEAN
         /\ task[c].own \in BOOLEAN
         /\ task[c].step \in 1 .. Len(Steps(c))
         /\ task[c].fresh \in SUBSET Points
         /\ task[c].value \in DeviceValues \union {None}
  BY DEF TypeOK, Tasks

(* The steps of a caller of the flag are at points of the flag.             *)
LEMMA FlagStepFacts ==
  ASSUME TypeOK, NEW d \in FlagCallers
  PROVE  /\ Steps(d)[task[d].step] \in FlagPoints
         /\ \A i \in 1 .. task[d].step - 1 : Steps(d)[i] \in FlagPoints
  BY TaskFacts, StepsFacts DEF FlagCallers

(* Dropping backups keeps the type and forgets exactly those points.        *)
LEMMA DroppedFacts ==
  ASSUME NEW sv \in [Points -> Backups], NEW S
  PROVE  /\ Dropped(sv, S) \in [Points -> Backups]
         /\ \A p \in Points : Dropped(sv, S)[p] = IF p \in S THEN None ELSE sv[p]
  BY DEF Dropped, Backups

(* WritingOK is kept by a step that begins a task with a value.             *)
LEMMA WritingStep ==
  ASSUME WritingOK, NEW c \in Callers, NEW u, task'[c] = u,
         \A d \in Callers : d # c => task'[d] = task[d],
         u.pc = "write" => u.value # None
  PROVE  WritingOK'
  BY DEF WritingOK

(* A step that begins a task keeps the types if the task has a value to     *)
(* write and the other variables keep theirs.                               *)
LEMMA BegunTypes ==
  ASSUME TypeOK, WritingOK, NEW c \in Callers, NEW u \in Tasks(c), Begin(c, u),
         u.pc = "write" => u.value # None,
         dev' \in [Points -> DeviceValues], mine' \in [Points -> BOOLEAN],
         saved' \in [Points -> Backups], disk' \in [Points -> Backups],
         pending' \in BOOLEAN, last' \in {"undef", "feed", "block"}
  PROVE  TypeOK' /\ WritingOK'
  <1>1. /\ task'[c] = u
        /\ \A d \in Callers : d # c => task'[d] = task[d]
        /\ DOMAIN task' = Callers
        /\ \A d \in Callers : task'[d] \in Tasks(d)
    BY BeginFacts DEF TypeOK
  <1>2. WritingOK'
    BY <1>1, WritingStep
  <1> QED BY <1>1, <1>2 DEF TypeOK

(* A step that begins no task keeps the types if the variables keep theirs. *)
LEMMA UnbegunTypes ==
  ASSUME TypeOK, WritingOK, task' = task,
         dev' \in [Points -> DeviceValues], mine' \in [Points -> BOOLEAN],
         saved' \in [Points -> Backups], disk' \in [Points -> Backups],
         pending' \in BOOLEAN, last' \in {"undef", "feed", "block"}
  PROVE  TypeOK' /\ WritingOK'
  BY DEF TypeOK, WritingOK

(* A write of the backup file keeps the types.                              *)
LEMMA FileTypes ==
  ASSUME TypeOK, NEW sv \in [Points -> Backups],
         persistDvSeqSaved(sv) \/ flushPending \/ UNCHANGED files
  PROVE  disk' \in [Points -> Backups] /\ pending' \in BOOLEAN
  BY DEF TypeOK, persistDvSeqSaved, flushPending, files

(* The writes of a block and of a release are tasks with a value.           *)
LEMMA WriteTasks ==
  ASSUME NEW c \in Callers, NEW i \in 1 .. Len(Steps(c)), NEW own \in BOOLEAN,
         NEW sv \in [Points -> Backups]
  PROVE  /\ BlockWrite(i) \in Tasks(c) /\ BlockWrite(i).value # None
         /\ RestoreWrite(c, i, own, sv) \in Tasks(c)
         /\ \A from \in Nat :
              i \in Restorable(c, from, own, sv)
                => RestoreWrite(c, i, own, sv).value # None
  <1>1. Block # None
    BY ValuesAssumption DEF DeviceValues
  <1> QED
    BY <1>1, BlockWriteFacts, RestoreWriteFacts DEF BlockWrite, RestoreWrite, Restorable

(* The calls of the evaluation keep the types.                              *)
LEMMA CallTypes ==
  ASSUME TypeOK, WritingOK, NEW c \in Callers, CallBlock(c) \/ Release(c)
  PROVE  TypeOK' /\ WritingOK'
  <1>1. CASE CallBlock(c)
    <2>1. PICK u \in Tasks(c) : Begin(c, u) /\ (u.pc = "write" => u.value # None)
      <3>1. CASE Unsaved(c, 1, saved) = {}
        BY <3>1, <1>1, WriteTasks, StepsFacts DEF CallBlock, TypeOK
      <3>2. CASE Unsaved(c, 1, saved) # {}
        <4>1. PICK i \in Unsaved(c, 1, saved) : Begin(c, SavingRead(i, {}))
          BY <3>2, <1>1 DEF CallBlock
        <4>2. i \in 1 .. Len(Steps(c))
          BY DEF Unsaved
        <4>3. SavingRead(i, {}) \in Tasks(c)
          BY <4>2, SavingReadFacts
        <4> QED BY <4>1, <4>3 DEF SavingRead
      <3> QED BY <3>1, <3>2
    <2>2. disk' \in [Points -> Backups] /\ pending' \in BOOLEAN
      BY <1>1, FileTypes DEF CallBlock, TypeOK
    <2> QED BY <2>1, <2>2, <1>1, BegunTypes DEF CallBlock, TypeOK
  <1>2. CASE CallRelease(c)
    <2>. DEFINE own == bootRelease(c)
    <2>1. PICK i \in Restorable(c, 1, own, saved) : Begin(c, RestoreWrite(c, i, own, saved))
      BY <1>2 DEF CallRelease
    <2>2. own \in BOOLEAN /\ i \in 1 .. Len(Steps(c))
      BY DEF bootRelease, Restorable
    <2>3. /\ RestoreWrite(c, i, own, saved) \in Tasks(c)
          /\ RestoreWrite(c, i, own, saved).value # None
      BY <2>1, <2>2, WriteTasks DEF TypeOK
    <2>4. disk' \in [Points -> Backups] /\ pending' \in BOOLEAN
      BY <1>2, FileTypes DEF CallRelease, TypeOK
    <2> QED BY <2>1, <2>3, <2>4, <1>2, BegunTypes DEF CallRelease, TypeOK
  <1>3. CASE SkipBootRelease(c)
    BY <1>3, UnbegunTypes DEF SkipBootRelease, Complete, TypeOK
  <1> QED BY <1>1, <1>2, <1>3 DEF Release

(* The lift of the limit keeps the types, with something to restore or not. *)
LEMMA LimitTypes ==
  ASSUME TypeOK, WritingOK, NEW c \in Callers, CallLift(c) \/ DiscardBackup(c)
  PROVE  TypeOK' /\ WritingOK'
  <1>1. CASE CallLift(c)
    <2>1. Steps(c) = <<LimitPoint>>
      BY <1>1 DEF CallLift, Steps
    <2>2. 1 \in Restorable(c, 1, FALSE, saved)
      <3>1. PICK i \in Restorable(c, 1, FALSE, saved) : TRUE
        BY <1>1 DEF CallLift
      <3>2. i \in 1 .. 1
        BY <2>1 DEF Restorable
      <3>3. i = 1
        BY <3>2
      <3> QED BY <3>1, <3>3
    <2>3. /\ RestoreWrite(c, 1, FALSE, saved) \in Tasks(c)
          /\ RestoreWrite(c, 1, FALSE, saved).value # None
      <3>1. saved \in [Points -> Backups] /\ 1 \in Nat /\ 1 \in 1 .. Len(Steps(c))
        BY StepsFacts DEF TypeOK
      <3> QED BY <3>1, <2>2, WriteTasks
    <2>4. disk' \in [Points -> Backups] /\ pending' \in BOOLEAN
      BY <1>1, FileTypes DEF CallLift, TypeOK
    <2> QED BY <1>1, <2>3, <2>4, BegunTypes DEF CallLift, TypeOK
  <1>2. CASE DiscardBackup(c)
    <2>1. saved' \in [Points -> Backups]
      BY <1>2 DEF DiscardBackup, TypeOK, Backups
    <2>2. disk' \in {disk, saved, saved'} /\ pending' \in BOOLEAN
      BY <1>2 DEF DiscardBackup
    <2>3. disk' \in [Points -> Backups]
      BY <2>1, <2>2 DEF TypeOK
    <2> QED BY <1>2, <2>1, <2>2, <2>3, UnbegunTypes DEF DiscardBackup, TypeOK
  <1> QED BY <1>1, <1>2

(* The answers keep the types.                                              *)
LEMMA ReadTypes ==
  ASSUME TypeOK, WritingOK, NEW c \in Callers, ReadOk(c) \/ ReadFail(c)
  PROVE  TypeOK' /\ WritingOK'
  <1>. DEFINE t == task[c]
              p == Steps(c)[t.step]
              sv == [saved EXCEPT ![p] = dev[p]]
              rest == Unsaved(c, t.step + 1, sv)
  <1>1. /\ p \in Points /\ t.step \in 1 .. Len(Steps(c)) /\ t.fresh \in SUBSET Points
        /\ Len(Steps(c)) \in Nat /\ 1 \in 1 .. Len(Steps(c))
    BY TaskFacts, StepsFacts
  <1>2. sv \in [Points -> Backups]
    BY <1>1 DEF TypeOK, Backups
  <1>3. Idle \in Tasks(c) /\ Idle.pc = "idle"
    BY IdleFacts DEF Idle
  <1>4. CASE ReadOk(c)
    <2>1. PICK u \in Tasks(c) : Begin(c, u) /\ (u.pc = "write" => u.value # None)
      <3>1. ASSUME NEW i \in rest, Begin(c, SavingRead(i, t.fresh \union {p}))
            PROVE  \E u \in Tasks(c) : Begin(c, u) /\ (u.pc = "write" => u.value # None)
        <4>1. i \in 1 .. Len(Steps(c))
          BY <1>1 DEF Unsaved
        <4>2. SavingRead(i, t.fresh \union {p}) \in Tasks(c)
          BY <4>1, <1>1, SavingReadFacts
        <4> QED BY <4>2, <3>1 DEF SavingRead
      <3>2. BlockWrite(1) \in Tasks(c) /\ BlockWrite(1).value # None
        BY <1>1, WriteTasks DEF TypeOK
      <3> QED BY <1>4, <1>3, <3>1, <3>2 DEF ReadOk
    <2>2. saved' \in [Points -> Backups] /\ disk' \in [Points -> Backups] /\ pending' \in BOOLEAN
      <3>1. Dropped(sv, t.fresh \union {p}) \in [Points -> Backups]
        <4> HIDE DEF sv
        <4> QED BY <1>2, DroppedFacts
      <3>2. /\ saved' \in {sv, Dropped(sv, t.fresh \union {p})}
            /\ disk' \in {disk, sv}
            /\ pending' \in {pending, TRUE, FALSE}
        BY <1>4 DEF ReadOk, files
      <3> HIDE DEF sv
      <3> QED BY <3>1, <3>2, <1>2 DEF TypeOK
    <2> QED BY <2>1, <2>2, <1>4, BegunTypes DEF ReadOk, TypeOK
  <1>5. CASE ReadFail(c)
    BY <1>3, <1>5, DroppedFacts, BegunTypes DEF ReadFail, TypeOK
  <1> QED BY <1>4, <1>5

(* So do the answers to the writes.                                         *)
LEMMA WriteTypes ==
  ASSUME TypeOK, WritingOK, NEW c \in Callers,
         BlockWriteOk(c) \/ RestoreWriteOk(c) \/ WriteFail(c)
  PROVE  TypeOK' /\ WritingOK'
  <1>. DEFINE t == task[c]
              p == Steps(c)[t.step]
              sv == [saved EXCEPT ![p] = None]
              rest == Restorable(c, t.step + 1, t.own, sv)
  <1>1. /\ p \in Points /\ t.step \in 1 .. Len(Steps(c)) /\ t.own \in BOOLEAN
        /\ Len(Steps(c)) \in Nat /\ t.feedIn \in BOOLEAN
    BY TaskFacts, StepsFacts
  <1>2. sv \in [Points -> Backups]
    BY <1>1 DEF TypeOK, Backups
  <1>3. Idle \in Tasks(c) /\ Idle.pc = "idle"
    BY IdleFacts DEF Idle
  <1>4. t.value \in DeviceValues
    BY TaskFacts DEF WritingOK, BlockWriteOk, RestoreWriteOk, WriteFail
  <1>5. dev' \in [Points -> DeviceValues] /\ mine' \in [Points -> BOOLEAN]
    BY <1>1, <1>4 DEF BlockWriteOk, RestoreWriteOk, WriteFail, TypeOK
  <1>6. CASE BlockWriteOk(c)
    <2>1. PICK u \in Tasks(c) : Begin(c, u) /\ (u.pc = "write" => u.value # None)
      <3>1. CASE t.step < Len(Steps(c))
        <4>1. t.step + 1 \in 1 .. Len(Steps(c)) /\ t.step # Len(Steps(c))
          BY <3>1, <1>1
        <4>2. Begin(c, BlockWrite(t.step + 1))
          BY <4>1, <1>6 DEF BlockWriteOk
        <4>3. BlockWrite(t.step + 1) \in Tasks(c) /\ BlockWrite(t.step + 1).value # None
          BY <4>1, WriteTasks DEF TypeOK
        <4> QED BY <4>2, <4>3
      <3>2. CASE ~(t.step < Len(Steps(c)))
        BY <3>2, <1>3, <1>6 DEF BlockWriteOk
      <3> QED BY <3>1, <3>2
    <2>2. last' \in {"undef", "feed", "block"}
      BY <1>6 DEF BlockWriteOk, Complete, TypeOK
    <2> QED BY <2>1, <2>2, <1>5, <1>6, BegunTypes DEF BlockWriteOk, TypeOK
  <1>7. CASE RestoreWriteOk(c)
    <2>1. PICK u \in Tasks(c) : Begin(c, u) /\ (u.pc = "write" => u.value # None)
      <3>1. ASSUME NEW i \in rest, Begin(c, RestoreWrite(c, i, t.own, sv))
            PROVE  \E u \in Tasks(c) : Begin(c, u) /\ (u.pc = "write" => u.value # None)
        <4>1. i \in 1 .. Len(Steps(c)) /\ t.step + 1 \in Nat
          BY <1>1 DEF Restorable
        <4>2. /\ RestoreWrite(c, i, t.own, sv) \in Tasks(c)
              /\ RestoreWrite(c, i, t.own, sv).value # None
          BY <4>1, <1>1, <1>2, WriteTasks
        <4> QED BY <4>2, <3>1
      <3> QED BY <1>3, <1>7, <3>1 DEF RestoreWriteOk
    <2>2. saved' = sv /\ disk' \in [Points -> Backups] /\ pending' \in BOOLEAN
      BY <1>2, <1>7, FileTypes DEF RestoreWriteOk
    <2>3. last' \in {"undef", "feed", "block"}
      BY <1>7 DEF RestoreWriteOk, Complete, TypeOK
    <2> QED BY <2>1, <2>2, <2>3, <1>2, <1>5, <1>7, BegunTypes
  <1>8. CASE WriteFail(c)
    BY <1>3, <1>5, <1>8, BegunTypes DEF WriteFail, TypeOK
  <1> QED BY <1>6, <1>7, <1>8

(* The call of a block keeps the invariant: without anything left to save   *)
(* every backup is in memory, and on disk because nothing is being saved.   *)
LEMMA CallBlockIInv ==
  ASSUME IInv, Apart', NEW c \in Callers, CallBlock(c)
  PROVE  IInv'
  <1>0. TypeOK /\ FlagPoints \subseteq Points
    BY DEF IInv, Points
  <1>. DEFINE S == Unsaved(c, 1, saved)
  <1>1. /\ disk' \in {disk, saved} /\ pending' \in BOOLEAN
        /\ UNCHANGED <<dev, mine, saved, last>>
    BY <1>0 DEF CallBlock, flushPending, persistDvSeqSaved, files, TypeOK
  <1>2. PICK t \in Tasks(c) :
          /\ Begin(c, t)
          /\ t.fresh = {}
          /\ \/ /\ t.pc = "save" /\ saved[Steps(c)[t.step]] = None
                /\ \A i \in 1 .. t.step - 1 : saved[Steps(c)[i]] # None
             \/ /\ t.pc = "write" /\ ~t.feedIn /\ t.value = Block
                /\ \A i \in 1 .. Len(Steps(c)) : saved[Steps(c)[i]] # None
    <2>1. CASE S = {}
      <3>1. Begin(c, BlockWrite(1))
        BY <2>1 DEF CallBlock
      <3>2. BlockWrite(1) \in Tasks(c)
        BY BlockWriteFacts, StepsFacts
      <3>3. \A i \in 1 .. Len(Steps(c)) : saved[Steps(c)[i]] # None
        BY <2>1 DEF Unsaved
      <3> QED BY <3>1, <3>2, <3>3 DEF BlockWrite
    <2>2. CASE S # {}
      <3>1. PICK i \in S : IsFirst(i, S) /\ Begin(c, SavingRead(i, {}))
        BY <2>2 DEF CallBlock
      <3>2. i \in 1 .. Len(Steps(c))
        BY DEF Unsaved
      <3>3. SavingRead(i, {}) \in Tasks(c)
        BY <3>2, SavingReadFacts
      <3>4. /\ saved[Steps(c)[i]] = None
            /\ \A j \in 1 .. i - 1 : saved[Steps(c)[j]] # None
        BY <3>1, <3>2, StepsFacts DEF IsFirst, Unsaved
      <3> QED BY <3>1, <3>3, <3>4 DEF SavingRead
    <2> QED BY <2>1, <2>2
  <1>3. /\ task'[c] = t
        /\ \A d \in Callers : d # c => task'[d] = task[d]
        /\ DOMAIN task' = Callers
        /\ \A d \in Callers : task'[d] \in Tasks(d)
    BY <1>0, <1>2, BeginFacts DEF TypeOK
  <1>4. TypeOK'
    BY <1>0, <1>1, <1>3 DEF TypeOK, Tasks, Points
  <1>5. task[c].pc = "idle" /\ FreshOf(c) = {}
    BY DEF CallBlock, IInv, FreshOK
  <1>6. (BackupOfMine /\ BlockIsMine /\ BackupGenuine)'
    BY <1>0, <1>1 DEF IInv, BackupOfMine, BlockIsMine, BackupGenuine
  <1>7. BackupOnDisk'
    BY <1>0, <1>1, <1>2, <1>3, <1>5 DEF IInv, BackupOnDisk, FreshOf, FlagCallers
  <1>8. FreshOK'
    BY <1>0, <1>1, <1>2, <1>3 DEF IInv, FreshOK, FreshOf
  <1>9. SavingOK' /\ ReleasingOK'
    BY <1>0, <1>1, <1>2, <1>3 DEF IInv, SavingOK, ReleasingOK, FlagCallers
  <1>10. BlockingOK'
    <2> SUFFICES ASSUME NEW d \in FlagCallers, (task[d].pc = "write" /\ ~task[d].feedIn)'
                 PROVE  /\ task'[d].value = Block
                        /\ \A p \in FlagPoints : saved'[p] # None /\ disk'[p] # None
      BY DEF BlockingOK
    <2>1. CASE d = c
      <3>1. \A p \in FlagPoints : saved[p] # None
        BY <2>1, <1>2, <1>3, StepsFacts DEF FlagPoints
      <3>2. \A e \in FlagCallers : FreshOf(e) = {}
        <4>1. t.pc # "idle"
          BY <1>2
        <4>2. \A e \in FlagCallers : e # c => task[e].pc = "idle"
          BY <4>1, <2>1, <1>3 DEF Apart, FlagCallers
        <4> QED BY <4>2, <1>5 DEF IInv, FreshOK, FlagCallers
      <3>3. \A p \in FlagPoints : disk[p] # None
        BY <3>1, <3>2 DEF IInv, BackupOnDisk
      <3> QED BY <2>1, <3>1, <3>3, <1>1, <1>2, <1>3
    <2>2. CASE d # c
      BY <2>2, <1>1, <1>3 DEF IInv, BlockingOK, FlagCallers
    <2> QED BY <2>1, <2>2
  <1>20. WritingOK'
    BY <1>2, <1>3, ValuesAssumption, WritingStep DEF IInv, DeviceValues
  <1> QED BY <1>4, <1>6, <1>7, <1>8, <1>9, <1>10, <1>20 DEF IInv

(* A release and the lift of the limit begin alike: the file may be made up *)
(* for, and the caller is about to write what it will restore first.        *)
LEMMA BeginRestoreIInv ==
  ASSUME IInv, NEW c \in Callers, task[c].pc = "idle", NEW own \in BOOLEAN,
         NEW i \in Restorable(c, 1, own, saved),
         c \in FlagCallers => IsFirst(i, Restorable(c, 1, own, saved)),
         Begin(c, RestoreWrite(c, i, own, saved)), flushPending,
         UNCHANGED <<dev, mine, saved, last>>
  PROVE  IInv'
  <1>0. TypeOK /\ FlagPoints \subseteq Points
    BY DEF IInv, Points
  <1>1. disk' \in {disk, saved} /\ pending' \in BOOLEAN
    BY <1>0 DEF flushPending, persistDvSeqSaved, files, TypeOK
  <1>. DEFINE t == RestoreWrite(c, i, own, saved)
              p == Steps(c)[i]
  <1>2. i \in 1 .. Len(Steps(c)) /\ resolveRestoreValue(p, own, saved) # None
    BY DEF Restorable
  <1>3. /\ t \in Tasks(c)
        /\ t.fresh = {} /\ t.pc = "write" /\ t.feedIn = TRUE /\ t.step = i
        /\ t.value = resolveRestoreValue(p, own, saved)
    BY <1>0, <1>2, RestoreWriteFacts DEF RestoreWrite, TypeOK
  <1>. HIDE DEF t
  <1>4. /\ task'[c] = t
        /\ \A d \in Callers : d # c => task'[d] = task[d]
        /\ DOMAIN task' = Callers
        /\ \A d \in Callers : task'[d] \in Tasks(d)
    BY <1>0, <1>3, BeginFacts DEF TypeOK, t
  <1>5. FreshOf(c) = {}
    BY DEF IInv, FreshOK
  <1>6. TypeOK'
    BY <1>0, <1>1, <1>4 DEF TypeOK
  <1>7. (BackupOfMine /\ BlockIsMine /\ BackupGenuine)'
    BY <1>0, <1>1 DEF IInv, BackupOfMine, BlockIsMine, BackupGenuine
  <1>8. BackupOnDisk'
    BY <1>0, <1>1, <1>3, <1>4, <1>5 DEF IInv, BackupOnDisk, FreshOf, FlagCallers
  <1>9. FreshOK'
    BY <1>0, <1>3, <1>4 DEF IInv, FreshOK, FreshOf
  <1>10. SavingOK' /\ BlockingOK'
    BY <1>0, <1>1, <1>3, <1>4 DEF IInv, SavingOK, BlockingOK, FlagCallers
  <1>11. ReleasingOK'
    <2> SUFFICES ASSUME NEW d \in FlagCallers, (task[d].pc = "write" /\ task[d].feedIn)'
                 PROVE  /\ task'[d].value \in DeviceValues \ {Block}
                        /\ \A j \in 1 .. task'[d].step - 1 : ~mine'[Steps(d)[j]]
      BY DEF ReleasingOK
    <2>1. CASE d = c
      <3>1. p \in FlagPoints
        BY <2>1, <1>2, StepsFacts DEF FlagCallers
      <3>2. t.value \in DeviceValues \ {Block}
        BY <1>0, <1>2, <1>3, <3>1, RestoreFacts DEF TypeOK, IInv, BackupGenuine
      <3>3. ASSUME NEW j \in 1 .. i - 1, mine[Steps(c)[j]] PROVE FALSE
        <4>1. j \in 1 .. Len(Steps(c)) /\ Steps(c)[j] \in FlagPoints
          BY <1>2, <2>1, StepsFacts DEF FlagCallers
        <4>2. saved[Steps(c)[j]] # None
          BY <4>1, <3>3 DEF IInv, BackupOfMine
        <4>3. resolveRestoreValue(Steps(c)[j], own, saved) # None
          BY <1>0, <4>1, <4>2, RestoreFacts DEF TypeOK
        <4>4. j \in Restorable(c, 1, own, saved)
          BY <4>1, <4>3 DEF Restorable
        <4> QED BY <4>4, <2>1, <1>2 DEF IsFirst
      <3> QED BY <2>1, <3>2, <3>3, <1>3, <1>4
    <2>2. CASE d # c
      BY <2>2, <1>4 DEF IInv, ReleasingOK, FlagCallers
    <2> QED BY <2>1, <2>2
  <1>20. WritingOK'
    BY <1>2, <1>3, <1>4, WritingStep DEF IInv
  <1> QED BY <1>6, <1>7, <1>8, <1>9, <1>10, <1>11, <1>20 DEF IInv

(* The call of a release keeps the invariant.                               *)
LEMMA CallReleaseIInv ==
  ASSUME IInv, NEW c \in Callers, CallRelease(c)
  PROVE  IInv'
  <1>1. bootRelease(c) \in BOOLEAN
    BY DEF bootRelease
  <1>2. PICK i \in Restorable(c, 1, bootRelease(c), saved) :
          /\ IsFirst(i, Restorable(c, 1, bootRelease(c), saved))
          /\ Begin(c, RestoreWrite(c, i, bootRelease(c), saved))
    BY DEF CallRelease
  <1> QED BY <1>1, <1>2, BeginRestoreIInv DEF CallRelease

(* The call that lifts the limit keeps the invariant.                       *)
LEMMA CallLiftIInv ==
  ASSUME IInv, NEW c \in Callers, CallLift(c)
  PROVE  IInv'
  <1>1. Restorable(c, 1, FALSE, saved) # {} /\ c = "limit"
    BY DEF CallLift
  <1>2. Len(Steps(c)) = 1
    BY <1>1 DEF Steps
  <1>3. 1 \in Restorable(c, 1, FALSE, saved)
    <2>1. PICK i \in Restorable(c, 1, FALSE, saved) : TRUE
      BY <1>1
    <2>2. i \in 1 .. 1
      BY <1>2 DEF Restorable
    <2>3. i = 1
      BY <2>2
    <2> QED BY <2>1, <2>3
  <1>4. c \notin FlagCallers
    BY <1>1 DEF FlagCallers
  <1> QED BY <1>3, <1>4, BeginRestoreIInv DEF CallLift

(* The boot release that writes nothing keeps the invariant.                *)
LEMMA SkipBootReleaseIInv ==
  ASSUME IInv, NEW c \in Callers, SkipBootRelease(c)
  PROVE  IInv'
  <1>1. last' \in {"undef", "feed", "block"}
    BY DEF SkipBootRelease, Complete, IInv, TypeOK
  <1>2. UNCHANGED <<dev, mine, saved, disk, pending, task>>
    BY DEF SkipBootRelease
  <1>3. TypeOK'
    BY <1>1, <1>2 DEF IInv, TypeOK, Tasks
  <1> QED
    BY <1>2, <1>3
    DEF IInv, BackupOfMine, BlockIsMine, BackupGenuine, BackupOnDisk, FreshOf,
        FreshOK, SavingOK, BlockingOK, ReleasingOK, WritingOK

(* Throwing away a backup of the limit keeps the invariant.                 *)
LEMMA DiscardBackupIInv ==
  ASSUME IInv, NEW c \in Callers, DiscardBackup(c)
  PROVE  IInv'
  <1>0. TypeOK /\ FlagPoints \subseteq Points /\ LimitPoint \in Points
    BY DEF IInv, Points
  <1>1. /\ saved' \in [Points -> Backups]
        /\ \A p \in FlagPoints : saved'[p] = saved[p]
    BY <1>0, StepsAssumption DEF DiscardBackup, TypeOK, Backups
  <1>2. /\ disk' \in {disk, saved, saved'} /\ pending' \in BOOLEAN
        /\ UNCHANGED <<dev, mine, last, task>>
    BY DEF DiscardBackup
  <1>3. TypeOK'
    BY <1>0, <1>1, <1>2 DEF TypeOK, Tasks
  <1>4. (BackupOfMine /\ BlockIsMine /\ BackupGenuine /\ BackupOnDisk)'
    BY <1>1, <1>2
    DEF IInv, BackupOfMine, BlockIsMine, BackupGenuine, BackupOnDisk, FreshOf
  <1>5. (FreshOK /\ BlockingOK /\ ReleasingOK)'
    BY <1>1, <1>2 DEF IInv, FreshOK, BlockingOK, ReleasingOK, FreshOf
  <1>6. SavingOK'
    <2>1. ASSUME NEW d \in FlagCallers, NEW i \in 1 .. task[d].step
          PROVE  Steps(d)[i] \in FlagPoints
      BY <1>0, TaskFacts, StepsFacts DEF FlagCallers
    <2>2. \A d \in FlagCallers : task[d].step \in Nat \ {0}
      BY <1>0, TaskFacts DEF FlagCallers
    <2> QED BY <2>1, <2>2, <1>1, <1>2 DEF IInv, SavingOK
  <1>20. WritingOK'
    BY <1>2 DEF IInv, WritingOK
  <1> QED BY <1>3, <1>4, <1>5, <1>6, <1>20 DEF IInv

(* A failed read keeps the invariant: the points forgotten are not blocked. *)
LEMMA ReadFailIInv ==
  ASSUME IInv, Apart, NEW c \in Callers, ReadFail(c)
  PROVE  IInv'
  <1>0. TypeOK /\ FlagPoints \subseteq Points
    BY DEF IInv, Points
  <1>1. /\ saved' \in [Points -> Backups]
        /\ \A p \in Points : saved'[p] = IF p \in FreshOf(c) THEN None ELSE saved[p]
        /\ UNCHANGED <<dev, mine, disk, pending, last>>
    BY <1>0, DroppedFacts DEF ReadFail, TypeOK, FreshOf
  <1>2. /\ task'[c] = Idle
        /\ \A d \in Callers : d # c => task'[d] = task[d]
        /\ DOMAIN task' = Callers
        /\ \A d \in Callers : task'[d] \in Tasks(d)
    BY <1>0, IdleFacts, BeginFacts DEF ReadFail, TypeOK
  <1>3. Idle.pc = "idle" /\ Idle.fresh = {}
    BY DEF Idle
  <1>4. TypeOK'
    BY <1>0, <1>1, <1>2 DEF TypeOK
  <1>5. c = "limit" => \A p \in FlagPoints : p \notin FreshOf(c)
    BY StepsFacts, StepsAssumption DEF IInv, FreshOK
  <1>6. (BackupOfMine /\ BlockIsMine /\ BackupGenuine)'
    <2>1. None # Block
      BY ValuesAssumption DEF DeviceValues
    <2> QED
      BY <2>1, <1>0, <1>1 DEF IInv, BackupOfMine, BlockIsMine, BackupGenuine, FreshOK
  <1>7. BackupOnDisk'
    BY <1>0, <1>1, <1>2 DEF IInv, BackupOnDisk, FreshOf, FlagCallers
  <1>8. FreshOK' /\ ReleasingOK'
    BY <1>1, <1>2, <1>3 DEF IInv, FreshOK, ReleasingOK, FreshOf, FlagCallers
  <1>9. SavingOK' /\ BlockingOK'
    <2>1. CASE c \in FlagCallers
      <3>1. \A d \in FlagCallers : task'[d].pc = "idle"
        BY <2>1, <1>2, <1>3, OthersIdle DEF ReadFail, FlagCallers
      <3> QED BY <3>1 DEF SavingOK, BlockingOK
    <2>2. CASE c \notin FlagCallers
      <3>1. \A p \in FlagPoints : saved'[p] = saved[p]
        BY <2>2, <1>0, <1>1, <1>5, StepsFacts
      <3>2. \A d \in FlagCallers : task'[d] = task[d]
        BY <2>2, <1>2 DEF FlagCallers
      <3>3. \A d \in FlagCallers :
              /\ Steps(d)[task[d].step] \in FlagPoints
              /\ \A i \in 1 .. task[d].step - 1 : Steps(d)[i] \in FlagPoints
        BY <1>0, FlagStepFacts
      <3> QED BY <3>1, <3>2, <3>3, <1>1 DEF IInv, SavingOK, BlockingOK
    <2> QED BY <2>1, <2>2
  <1>20. WritingOK'
    BY <1>2, <1>3, WritingStep DEF IInv
  <1> QED BY <1>4, <1>6, <1>7, <1>8, <1>9, <1>20 DEF IInv

(* A confirmed write of the block keeps the invariant: its backup is on disk. *)
LEMMA BlockWriteOkIInv ==
  ASSUME IInv, Apart, NEW c \in Callers, BlockWriteOk(c)
  PROVE  IInv'
  <1>. DEFINE t == task[c]
              p == Steps(c)[t.step]
  <1>0. TypeOK /\ FlagPoints \subseteq Points
    BY DEF IInv, Points
  <1>1. /\ t.pc = "write" /\ ~t.feedIn
        /\ p \in Points
        /\ t.step \in 1 .. Len(Steps(c))
    BY <1>0, TaskFacts, StepsFacts DEF BlockWriteOk
  <1>2. t.value \in DeviceValues \union {None}
    BY <1>0, TaskFacts
  <1>3. UNCHANGED <<saved, disk, pending>> /\ last' \in {"undef", "feed", "block"}
    BY <1>0 DEF BlockWriteOk, Complete, TypeOK
  <1>4. PICK u \in Tasks(c) :
          /\ Begin(c, u)
          /\ u.fresh = {}
          /\ \/ u.pc = "idle"
             \/ u.pc = "write" /\ ~u.feedIn /\ u.value = Block
    <2>1. CASE Begin(c, Idle)
      BY <2>1, IdleFacts DEF Idle
    <2>2. CASE t.step < Len(Steps(c)) /\ Begin(c, BlockWrite(t.step + 1))
      <3>1. t.step + 1 \in 1 .. Len(Steps(c))
        BY <2>2, <1>1, StepsFacts
      <3>2. BlockWrite(t.step + 1) \in Tasks(c)
        BY <3>1, BlockWriteFacts
      <3> QED BY <2>2, <3>2 DEF BlockWrite
    <2> QED BY <2>1, <2>2 DEF BlockWriteOk
  <1>5. /\ task'[c] = u
        /\ \A d \in Callers : d # c => task'[d] = task[d]
        /\ DOMAIN task' = Callers
        /\ \A d \in Callers : task'[d] \in Tasks(d)
    BY <1>0, <1>4, BeginFacts DEF TypeOK
  <1>6. FreshOf(c) = {}
    BY <1>1 DEF IInv, FreshOK
  <1>7. \A q \in Points : q # p => dev'[q] = dev[q] /\ mine'[q] = mine[q]
    BY <1>0 DEF BlockWriteOk, TypeOK
  <1>8. dev'[p] = t.value /\ mine'[p] = TRUE
    BY <1>0, <1>1 DEF BlockWriteOk, TypeOK
  <1>9. c \in FlagCallers =>
          /\ t.value = Block
          /\ \A q \in FlagPoints : saved[q] # None /\ disk[q] # None
    BY <1>1 DEF IInv, BlockingOK
  <1>10. c \notin FlagCallers => p \notin FlagPoints
    BY <1>1, StepsFacts, StepsAssumption
  <1>11. TypeOK'
    <2>1. t.value # None
      BY <1>1, <1>2 DEF IInv, WritingOK, BlockingOK
    <2>2. dev' \in [Points -> DeviceValues]
      BY <2>1, <1>0, <1>1, <1>2 DEF BlockWriteOk, TypeOK
    <2>3. mine' \in [Points -> BOOLEAN]
      BY <1>0, <1>1 DEF BlockWriteOk, TypeOK
    <2> QED BY <2>2, <2>3, <1>0, <1>3, <1>5 DEF TypeOK
  <1>12. (BackupOfMine /\ BackupGenuine)'
    BY <1>0, <1>3, <1>7, <1>9, <1>10 DEF IInv, BackupOfMine, BackupGenuine
  <1>13. BlockIsMine'
    BY <1>0, <1>7, <1>8 DEF IInv, BlockIsMine
  <1>14. BackupOnDisk'
    BY <1>3, <1>5, <1>6 DEF IInv, BackupOnDisk, FreshOf, FlagCallers
  <1>15. FreshOK'
    <2>1. CASE c \in FlagCallers
      <3>1. \A d \in FlagCallers : d # c => FreshOf(d) = {}
        BY <2>1, <1>1, OthersIdle DEF IInv, FreshOK, FlagCallers
      <3>2. \A d \in Callers : d # c => \A q \in FreshOf(d) : q \notin FlagPoints
        BY <3>1, StepsFacts, StepsAssumption DEF IInv, FreshOK
      <3> QED BY <3>2, <1>4, <1>5 DEF IInv, FreshOK, FreshOf
    <2>2. CASE c \notin FlagCallers
      <3>1. \A q \in FlagPoints : mine'[q] = mine[q]
        BY <2>2, <1>0, <1>7, <1>10
      <3> QED BY <3>1, <1>4, <1>5 DEF IInv, FreshOK, FreshOf
    <2> QED BY <2>1, <2>2
  <1>16. SavingOK' /\ BlockingOK'
    BY <1>3, <1>4, <1>5, <1>9 DEF IInv, SavingOK, BlockingOK, FlagCallers
  <1>17. ReleasingOK'
    <2>1. CASE c \in FlagCallers
      <3>1. \A d \in FlagCallers : d # c => task'[d].pc = "idle"
        BY <2>1, <1>1, <1>5, OthersIdle DEF FlagCallers
      <3> QED BY <3>1, <1>4, <1>5 DEF ReleasingOK
    <2>2. CASE c \notin FlagCallers
      <3>1. \A q \in FlagPoints : mine'[q] = mine[q]
        BY <2>2, <1>0, <1>7, <1>10
      <3>2. \A d \in FlagCallers :
              /\ Steps(d)[task[d].step] \in FlagPoints
              /\ \A i \in 1 .. task[d].step - 1 : Steps(d)[i] \in FlagPoints
        BY <1>0, FlagStepFacts
      <3>3. \A d \in FlagCallers : task'[d] = task[d]
        BY <2>2, <1>5 DEF FlagCallers
      <3> QED BY <3>1, <3>2, <3>3 DEF IInv, ReleasingOK
    <2> QED BY <2>1, <2>2
  <1>20. WritingOK'
    BY <1>4, <1>5, ValuesAssumption, WritingStep DEF IInv, DeviceValues
  <1> QED BY <1>11, <1>12, <1>13, <1>14, <1>15, <1>16, <1>17, <1>20 DEF IInv

(* The answer to a read keeps the invariant: the value read is not a block, *)
(* for a blocked point would have a backup and would not be read.           *)
LEMMA ReadOkIInv ==
  ASSUME IInv, Apart, NEW c \in Callers, ReadOk(c)
  PROVE  IInv'
  <1>. DEFINE t == task[c]
              p == Steps(c)[t.step]
              sv == [saved EXCEPT ![p] = dev[p]]
              rest == Unsaved(c, t.step + 1, sv)
              fresh == t.fresh \union {p}
  <1>0. TypeOK /\ FlagPoints \subseteq Points
    BY DEF IInv, Points
  <1>1. /\ t.pc = "save" /\ p \in Points /\ t.step \in 1 .. Len(Steps(c))
        /\ fresh \in SUBSET Points
        /\ fresh \subseteq {Steps(c)[i] : i \in 1 .. Len(Steps(c))}
    BY <1>0, TaskFacts, StepsFacts DEF ReadOk, IInv, FreshOK, FreshOf
  <1>2. /\ sv \in [Points -> Backups]
        /\ sv[p] = dev[p] /\ dev[p] \in DeviceValues
        /\ \A q \in Points : q # p => sv[q] = saved[q]
    BY <1>0, <1>1 DEF TypeOK, Backups
  <1>. HIDE DEF sv
  <1>3. sv[p] # None
    BY <1>2, ValuesAssumption
  <1>4. UNCHANGED <<dev, mine, last>>
    BY DEF ReadOk
  <1>5. c \notin FlagCallers => p \notin FlagPoints
    BY <1>1, StepsFacts, StepsAssumption
  <1>6. \A q \in FlagPoints : q \in fresh => ~mine[q]
    <2>1. c \in FlagCallers => saved[p] = None
      BY <1>1 DEF IInv, SavingOK
    <2>2. p \in FlagPoints => ~mine[p]
      BY <2>1, <1>5 DEF IInv, BackupOfMine
    <2> QED BY <2>2 DEF IInv, FreshOK, FreshOf
  <1>7. \A q \in FlagPoints : sv[q] # Block
    BY <1>0, <1>2, <1>6 DEF IInv, BackupGenuine, BlockIsMine
  <1>8. c \in FlagCallers => \A i \in 1 .. t.step : sv[Steps(c)[i]] # None
    <2> SUFFICES ASSUME c \in FlagCallers, NEW i \in 1 .. t.step
                 PROVE  sv[Steps(c)[i]] # None
      OBVIOUS
    <2>1. Steps(c)[i] \in Points
      BY <1>1, StepsFacts
    <2>2. i # t.step => saved[Steps(c)[i]] # None
      BY <1>1 DEF IInv, SavingOK
    <2> QED BY <2>1, <2>2, <1>2, <1>3
  <1>9. rest = {} /\ c \in FlagCallers => \A q \in FlagPoints : sv[q] # None
    <2> SUFFICES ASSUME rest = {}, c \in FlagCallers, NEW i \in 1 .. Len(Steps(c))
                 PROVE  sv[Steps(c)[i]] # None
      BY StepsFacts DEF FlagPoints
    <2>1. CASE i <= t.step
      BY <2>1, <1>1, <1>8
    <2>2. CASE i > t.step
      BY <2>2, <1>1 DEF Unsaved
    <2> QED BY <2>1, <2>2, <1>1
  <1>10. \A q \in FlagPoints : mine[q] => sv[q] # None
    BY <1>0, <1>2, <1>3 DEF IInv, BackupOfMine
  <1>11. ASSUME NEW q \in FlagPoints, sv[q] # None, q \notin fresh
         PROVE  disk[q] # None \/ \E d \in FlagCallers : d # c /\ q \in FreshOf(d)
    BY <1>0, <1>2, <1>11 DEF IInv, BackupOnDisk, FreshOf
  <1>12. WritingOK /\ FreshOK /\ BackupOnDisk /\ BackupOfMine /\ SavingOK
         /\ BlockingOK /\ ReleasingOK /\ BackupGenuine /\ BlockIsMine
    BY DEF IInv
  <1>13. ASSUME \E u \in Tasks(c) :
                  /\ Begin(c, u)
                  /\ saved' = sv
                  /\ \/ /\ u.pc = "save" /\ u.fresh = fresh /\ UNCHANGED files
                        /\ c \in FlagCallers =>
                             /\ sv[Steps(c)[u.step]] = None
                             /\ \A i \in 1 .. u.step - 1 : sv[Steps(c)[i]] # None
                     \/ /\ u.pc = "write" /\ ~u.feedIn /\ u.value = Block
                        /\ u.fresh = {} /\ rest = {}
                        /\ pending' \in BOOLEAN
                        /\ \/ disk' = sv
                           \/ disk' = disk /\ c = "limit"
         PROVE  IInv'
    <2>1. PICK u \in Tasks(c) : <1>13!1!(u)
      BY <1>13
    <2>2. /\ task'[c] = u
          /\ \A d \in Callers : d # c => task'[d] = task[d]
          /\ DOMAIN task' = Callers
          /\ \A d \in Callers : task'[d] \in Tasks(d)
      BY <1>0, <2>1, BeginFacts DEF TypeOK
    <2>3. c = "limit" => c \notin FlagCallers
      BY DEF FlagCallers
    <2>4. TypeOK'
      BY <1>0, <1>2, <1>4, <2>1, <2>2 DEF TypeOK, files
    <2>5. disk' \in {disk, sv}
      BY <2>1 DEF files
    <2>6. (BackupOfMine /\ BlockIsMine /\ BackupGenuine)'
      BY <1>4, <1>7, <1>10, <1>12, <2>1, <2>5
      DEF BackupOfMine, BlockIsMine, BackupGenuine
    <2>7. BackupOnDisk'
      <3> SUFFICES ASSUME NEW q \in FlagPoints, sv[q] # None, disk'[q] = None
                   PROVE  \E d \in FlagCallers : q \in FreshOf(d)'
        BY <2>1 DEF BackupOnDisk
      <3>1. disk' = disk
        BY <2>5
      <3>2. CASE \E d \in FlagCallers : d # c /\ q \in FreshOf(d)
        BY <3>2, <2>2 DEF FreshOf, FlagCallers
      <3>3. CASE ~\E d \in FlagCallers : d # c /\ q \in FreshOf(d)
        <4>1. q \in fresh
          BY <3>1, <3>3, <1>11
        <4>2. c \in FlagCallers
          BY <4>1, <1>1, StepsFacts, StepsAssumption
        <4>3. u.fresh = fresh
          BY <2>1, <2>3, <4>2, <3>1
        <4> QED BY <4>1, <4>2, <4>3, <2>2 DEF FreshOf
      <3> QED BY <3>2, <3>3
    <2>8. FreshOK'
      BY <1>1, <1>4, <1>6, <1>12, <2>1, <2>2 DEF FreshOK, FreshOf
    <2>9. WritingOK'
      BY <1>12, <2>1, <2>2, WritingStep, ValuesAssumption DEF DeviceValues
    <2>10. ReleasingOK'
      BY <1>4, <1>12, <2>1, <2>2 DEF ReleasingOK, FlagCallers
    <2>11. SavingOK' /\ BlockingOK'
      <3>1. CASE c \in FlagCallers
        <4>1. \A d \in FlagCallers : d # c => task'[d].pc = "idle"
          BY <3>1, <2>2, OthersIdle DEF ReadOk, FlagCallers
        <4> QED BY <4>1, <3>1, <1>9, <2>1, <2>2, <2>3 DEF SavingOK, BlockingOK
      <3>2. CASE c \notin FlagCallers
        <4>1. \A q \in FlagPoints : sv[q] = saved[q]
          BY <3>2, <1>0, <1>2, <1>5
        <4>2. \A d \in FlagCallers : task'[d] = task[d]
          BY <3>2, <2>2 DEF FlagCallers
        <4>3. \A d \in FlagCallers :
              /\ Steps(d)[task[d].step] \in FlagPoints
              /\ \A i \in 1 .. task[d].step - 1 : Steps(d)[i] \in FlagPoints
          BY <1>0, FlagStepFacts
        <4> QED BY <4>1, <4>2, <4>3, <1>12, <2>1, <2>5 DEF SavingOK, BlockingOK
      <3> QED BY <3>1, <3>2
    <2> QED BY <2>4, <2>6, <2>7, <2>8, <2>9, <2>10, <2>11 DEF IInv
  <1>14. CASE \E i \in rest : /\ IsFirst(i, rest)
                              /\ Begin(c, SavingRead(i, fresh))
                              /\ saved' = sv /\ UNCHANGED files
    <2>1. PICK i \in rest : IsFirst(i, rest) /\ Begin(c, SavingRead(i, fresh))
      BY <1>14
    <2>2. i \in t.step + 1 .. Len(Steps(c)) /\ sv[Steps(c)[i]] = None
      BY DEF Unsaved
    <2>3. i \in 1 .. Len(Steps(c))
      BY <2>2, <1>1, StepsFacts
    <2>4. SavingRead(i, fresh) \in Tasks(c)
      BY <2>3, <1>1, SavingReadFacts
    <2>5. ASSUME c \in FlagCallers, NEW j \in 1 .. i - 1
          PROVE  sv[Steps(c)[j]] # None
      <3>1. CASE j <= t.step
        BY <3>1, <2>5, <1>1, <1>8
      <3>2. CASE j > t.step
        BY <3>2, <2>1, <2>2, <2>3, <1>1 DEF IsFirst, Unsaved
      <3> QED BY <3>1, <3>2, <1>1, <2>3
    <2> QED BY <2>1, <2>2, <2>4, <2>5, <1>13, <1>14 DEF SavingRead
  <1>15. CASE rest = {} /\ saved' = sv /\ Begin(c, BlockWrite(1))
              /\ pending' \in BOOLEAN
              /\ (disk' = sv \/ (disk' = disk /\ c = "limit"))
    <2>1. BlockWrite(1) \in Tasks(c)
      BY StepsFacts, BlockWriteFacts
    <2> QED BY <2>1, <1>13, <1>15 DEF BlockWrite
  <1>16. CASE /\ c # "limit" /\ saved' = Dropped(sv, fresh) /\ Begin(c, Idle)
              /\ disk' = disk /\ pending' \in BOOLEAN
    <2>1. /\ saved' \in [Points -> Backups]
          /\ \A q \in Points : saved'[q] = IF q \in fresh THEN None ELSE sv[q]
      BY <1>2, <1>16, DroppedFacts
    <2>2. /\ task'[c] = Idle
          /\ \A d \in Callers : d # c => task'[d] = task[d]
          /\ DOMAIN task' = Callers
          /\ \A d \in Callers : task'[d] \in Tasks(d)
      BY <1>0, <1>16, IdleFacts, BeginFacts DEF TypeOK
    <2>3. Idle.pc = "idle" /\ Idle.fresh = {}
      BY DEF Idle
    <2>4. TypeOK'
      BY <1>0, <1>4, <1>16, <2>1, <2>2 DEF TypeOK
    <2>5. None # Block
      BY ValuesAssumption DEF DeviceValues
    <2>6. (BackupOfMine /\ BlockIsMine /\ BackupGenuine)'
      BY <1>0, <1>4, <1>6, <1>7, <1>10, <1>12, <1>16, <2>1, <2>5
      DEF BackupOfMine, BlockIsMine, BackupGenuine
    <2>7. BackupOnDisk'
      BY <1>0, <1>11, <1>16, <2>1, <2>2 DEF BackupOnDisk, FreshOf, FlagCallers
    <2>8. FreshOK' /\ WritingOK' /\ ReleasingOK'
      BY <1>4, <1>12, <2>2, <2>3 DEF FreshOK, FreshOf, WritingOK, ReleasingOK, FlagCallers
    <2>9. SavingOK' /\ BlockingOK'
      <3>1. \A d \in FlagCallers : task'[d].pc = "idle"
        BY <1>16, <2>2, <2>3, OthersIdle DEF ReadOk, FlagCallers
      <3> QED BY <3>1 DEF SavingOK, BlockingOK
    <2> QED BY <2>4, <2>6, <2>7, <2>8, <2>9 DEF IInv
  <1>17. \/ /\ \E i \in rest : IsFirst(i, rest) /\ Begin(c, SavingRead(i, fresh))
            /\ saved' = sv
            /\ UNCHANGED files
         \/ rest = {} /\ disk' = sv /\ pending' = FALSE /\ saved' = sv
              /\ Begin(c, BlockWrite(1))
         \/ rest = {} /\ disk' = disk /\ pending' = TRUE /\ c = "limit"
              /\ saved' = sv /\ Begin(c, BlockWrite(1))
         \/ rest = {} /\ disk' = disk /\ pending' = TRUE /\ c # "limit"
              /\ saved' = Dropped(sv, fresh) /\ Begin(c, Idle)
    BY DEF ReadOk, sv
  <1> QED BY <1>14, <1>15, <1>16, <1>17

(* What a confirmed write of a release leaves to do for the points of the   *)
(* flag: nothing before the next step is DVhub's any more, and nothing at   *)
(* all when no step follows.                                                *)
LEMMA RestoredPrefix ==
  ASSUME IInv, NEW c \in FlagCallers, RestoreWriteOk(c),
         NEW sv, sv = [saved EXCEPT ![Steps(c)[task[c].step]] = None],
         NEW j \in 1 .. Len(Steps(c)), mine'[Steps(c)[j]]
  PROVE  j \in Restorable(c, task[c].step + 1, task[c].own, sv)
  <1>. DEFINE t == task[c]
              p == Steps(c)[t.step]
              q == Steps(c)[j]
  <1>0. TypeOK /\ FlagPoints \subseteq Points /\ c \in Callers
    BY DEF IInv, Points, FlagCallers
  <1>1. /\ t.pc = "write" /\ t.feedIn
        /\ t.step \in 1 .. Len(Steps(c)) /\ t.own \in BOOLEAN
    BY <1>0, TaskFacts DEF RestoreWriteOk
  <1>2. p \in FlagPoints /\ q \in FlagPoints
    BY <1>0, <1>1, StepsFacts DEF FlagCallers
  <1>3. q # p /\ mine[q]
    BY <1>0, <1>2 DEF RestoreWriteOk, TypeOK
  <1>4. j \notin 1 .. t.step - 1 /\ j # t.step
    BY <1>1, <1>3 DEF IInv, ReleasingOK
  <1>5. j \in t.step + 1 .. Len(Steps(c))
    BY <1>1, <1>4, StepsFacts, <1>0
  <1>6. sv[q] # None /\ sv \in [Points -> Backups]
    BY <1>0, <1>2, <1>3 DEF IInv, BackupOfMine, TypeOK, Backups
  <1>7. resolveRestoreValue(q, t.own, sv) # None
    BY <1>0, <1>1, <1>2, <1>6, RestoreFacts
  <1> QED BY <1>5, <1>7 DEF Restorable

(* A confirmed write of a release keeps the invariant: the backup it uses up *)
(* belongs to a block that is gone.                                         *)
LEMMA RestoreWriteOkIInv ==
  ASSUME IInv, Apart, NEW c \in Callers, RestoreWriteOk(c)
  PROVE  IInv'
  <1>. DEFINE t == task[c]
              p == Steps(c)[t.step]
              sv == [saved EXCEPT ![p] = None]
              rest == Restorable(c, t.step + 1, t.own, sv)
  <1>0. TypeOK /\ FlagPoints \subseteq Points
    BY DEF IInv, Points
  <1>1. /\ t.pc = "write" /\ t.feedIn /\ p \in Points
        /\ t.step \in 1 .. Len(Steps(c)) /\ t.own \in BOOLEAN
        /\ t.value \in DeviceValues \union {None}
    BY <1>0, TaskFacts, StepsFacts DEF RestoreWriteOk
  <1>2. /\ sv \in [Points -> Backups]
        /\ sv[p] = None
        /\ \A q \in Points : q # p => sv[q] = saved[q]
    BY <1>0, <1>1 DEF TypeOK, Backups
  <1>3. saved' = sv /\ disk' \in {disk, sv} /\ pending' \in BOOLEAN
    BY <1>0 DEF RestoreWriteOk, persistDvSeqSaved, files, TypeOK
  <1>4. last' \in {"undef", "feed", "block"}
    BY <1>0 DEF RestoreWriteOk, Complete, TypeOK
  <1>5. \/ Begin(c, Idle)
        \/ \E i \in rest : IsFirst(i, rest) /\ Begin(c, RestoreWrite(c, i, t.own, sv))
    BY DEF RestoreWriteOk
  <1>6. dev' = [dev EXCEPT ![p] = t.value] /\ mine' = [mine EXCEPT ![p] = FALSE]
    BY DEF RestoreWriteOk
  <1>7. /\ t.value # None
        /\ c \in FlagCallers => t.value # Block
    BY <1>1 DEF IInv, WritingOK, ReleasingOK
  <1>8. c \notin FlagCallers => p \notin FlagPoints
    BY <1>1, StepsFacts, StepsAssumption
  <1>9. /\ \A q \in Points : q # p => dev'[q] = dev[q] /\ mine'[q] = mine[q]
        /\ dev'[p] = t.value /\ ~mine'[p]
    BY <1>0, <1>1, <1>6 DEF TypeOK
  <1>10. c \in FlagCallers =>
           \A j \in 1 .. Len(Steps(c)) : mine'[Steps(c)[j]] => j \in rest
    BY RestoredPrefix
  <1>. HIDE DEF sv
  <1>11. PICK u \in Tasks(c) :
           /\ Begin(c, u)
           /\ u.fresh = {}
           /\ \/ u.pc = "idle"
              \/ /\ u.pc = "write" /\ u.feedIn = TRUE /\ u.value # None
                 /\ c \in FlagCallers =>
                      /\ u.value \in DeviceValues \ {Block}
                      /\ \A j \in 1 .. u.step - 1 : ~mine'[Steps(c)[j]]
    <2>1. CASE Begin(c, Idle)
      BY <2>1, IdleFacts DEF Idle
    <2>2. CASE \E i \in rest : IsFirst(i, rest) /\ Begin(c, RestoreWrite(c, i, t.own, sv))
      <3>1. PICK i \in rest : IsFirst(i, rest) /\ Begin(c, RestoreWrite(c, i, t.own, sv))
        BY <2>2
      <3>2. /\ i \in t.step + 1 .. Len(Steps(c))
            /\ resolveRestoreValue(Steps(c)[i], t.own, sv) # None
        BY DEF Restorable
      <3>3. i \in 1 .. Len(Steps(c))
        BY <3>2, <1>1, StepsFacts
      <3>4. RestoreWrite(c, i, t.own, sv) \in Tasks(c)
        BY <3>3, <1>1, <1>2, RestoreWriteFacts
      <3>5. ASSUME c \in FlagCallers
            PROVE  resolveRestoreValue(Steps(c)[i], t.own, sv) \in DeviceValues \ {Block}
        <4>1. Steps(c)[i] \in FlagPoints
          BY <3>3, <3>5, StepsFacts DEF FlagCallers
        <4>2. sv[Steps(c)[i]] # Block
          BY <4>1, <1>0, <1>2, ValuesAssumption DEF IInv, BackupGenuine, DeviceValues
        <4> QED BY <4>1, <4>2, <3>2, <1>0, <1>1, <1>2, RestoreFacts
      <3>6. ASSUME c \in FlagCallers, NEW j \in 1 .. i - 1
            PROVE  ~mine'[Steps(c)[j]]
        BY <3>6, <3>1, <3>3, <1>10 DEF IsFirst
      <3> QED BY <3>1, <3>2, <3>4, <3>5, <3>6 DEF RestoreWrite
    <2> QED BY <1>5, <2>1, <2>2
  <1>12. /\ task'[c] = u
         /\ \A d \in Callers : d # c => task'[d] = task[d]
         /\ DOMAIN task' = Callers
         /\ \A d \in Callers : task'[d] \in Tasks(d)
    BY <1>0, <1>11, BeginFacts DEF TypeOK
  <1>13. FreshOf(c) = {}
    BY <1>1 DEF IInv, FreshOK
  <1>14. TypeOK'
    <2>1. dev' \in [Points -> DeviceValues]
      BY <1>0, <1>1, <1>6, <1>7 DEF TypeOK
    <2>2. mine' \in [Points -> BOOLEAN]
      BY <1>0, <1>1, <1>6 DEF TypeOK
    <2> QED BY <2>1, <2>2, <1>0, <1>2, <1>3, <1>4, <1>12 DEF TypeOK
  <1>15. BackupOfMine'
    BY <1>0, <1>1, <1>2, <1>3, <1>9 DEF IInv, BackupOfMine
  <1>16. BlockIsMine' /\ BackupGenuine'
    <2>1. None # Block
      BY ValuesAssumption DEF DeviceValues
    <2>2. BackupGenuine'
      BY <2>1, <1>0, <1>2, <1>3 DEF IInv, BackupGenuine
    <2>3. ASSUME NEW q \in FlagPoints, dev'[q] = Block PROVE mine'[q]
      <3>1. q # p
        BY <2>3, <1>7, <1>8, <1>9
      <3> QED BY <3>1, <2>3, <1>0, <1>9 DEF IInv, BlockIsMine
    <2> QED BY <2>2, <2>3 DEF BlockIsMine
  <1>17. BackupOnDisk'
    BY <1>0, <1>2, <1>3, <1>11, <1>12, <1>13 DEF IInv, BackupOnDisk, FreshOf, FlagCallers
  <1>18. FreshOK'
    BY <1>0, <1>9, <1>11, <1>12 DEF IInv, FreshOK, FreshOf
  <1>19. WritingOK'
    BY <1>11, <1>12, WritingStep DEF IInv
  <1>20. SavingOK' /\ BlockingOK' /\ ReleasingOK'
    <2>1. CASE c \in FlagCallers
      <3>1. \A d \in FlagCallers : d # c => task'[d].pc = "idle"
        BY <2>1, <1>12, OthersIdle DEF RestoreWriteOk, FlagCallers
      <3> QED BY <3>1, <2>1, <1>11, <1>12 DEF SavingOK, BlockingOK, ReleasingOK
    <2>2. CASE c \notin FlagCallers
      <3>1. \A q \in FlagPoints : mine'[q] = mine[q] /\ sv[q] = saved[q]
        BY <2>2, <1>0, <1>2, <1>8, <1>9
      <3>2. \A d \in FlagCallers :
              /\ Steps(d)[task[d].step] \in FlagPoints
              /\ \A i \in 1 .. task[d].step - 1 : Steps(d)[i] \in FlagPoints
        BY <1>0, FlagStepFacts
      <3>3. \A d \in FlagCallers : task'[d] = task[d]
        BY <2>2, <1>12 DEF FlagCallers
      <3> QED
        BY <3>1, <3>2, <3>3, <1>3 DEF IInv, SavingOK, BlockingOK, ReleasingOK
    <2> QED BY <2>1, <2>2
  <1> QED BY <1>14, <1>15, <1>16, <1>17, <1>18, <1>19, <1>20 DEF IInv

(* A failed write keeps the invariant, whether the inverter took it or not. *)
LEMMA WriteFailIInv ==
  ASSUME IInv, Apart, NEW c \in Callers, WriteFail(c)
  PROVE  IInv'
  <1>. DEFINE t == task[c]
              p == Steps(c)[t.step]
  <1>0. TypeOK /\ FlagPoints \subseteq Points
    BY DEF IInv, Points
  <1>1. /\ t.pc = "write" /\ p \in Points /\ t.feedIn \in BOOLEAN
        /\ t.step \in 1 .. Len(Steps(c))
        /\ t.value \in DeviceValues
    BY <1>0, TaskFacts, StepsFacts DEF WriteFail, IInv, WritingOK
  <1>2. UNCHANGED <<saved, disk, pending, last>>
    BY DEF WriteFail
  <1>3. /\ task'[c] = Idle
        /\ \A d \in Callers : d # c => task'[d] = task[d]
        /\ DOMAIN task' = Callers
        /\ \A d \in Callers : task'[d] \in Tasks(d)
    BY <1>0, IdleFacts, BeginFacts DEF WriteFail, TypeOK
  <1>4. Idle.pc = "idle" /\ Idle.fresh = {}
    BY DEF Idle
  <1>5. c \notin FlagCallers => p \notin FlagPoints
    BY <1>1, StepsFacts, StepsAssumption
  <1>6. \A q \in Points : q # p => dev'[q] = dev[q] /\ mine'[q] = mine[q]
    BY <1>0 DEF WriteFail, TypeOK
  <1>7. \/ dev' = dev /\ mine' = mine
        \/ dev'[p] = t.value /\ mine'[p] = ~t.feedIn
    BY <1>0, <1>1 DEF WriteFail, TypeOK
  <1>8. TypeOK'
    <2>1. dev' \in [Points -> DeviceValues]
      BY <1>0, <1>1 DEF WriteFail, TypeOK
    <2>2. mine' \in [Points -> BOOLEAN]
      BY <1>0, <1>1 DEF WriteFail, TypeOK
    <2> QED BY <2>1, <2>2, <1>0, <1>2, <1>3 DEF TypeOK
  <1>9. FreshOf(c) = {}
    BY <1>1 DEF IInv, FreshOK
  <1>10. BackupGenuine' /\ BackupOnDisk'
    BY <1>2, <1>3, <1>9 DEF IInv, BackupGenuine, BackupOnDisk, FreshOf, FlagCallers
  <1>11. c \in FlagCallers =>
           /\ ~t.feedIn => \A q \in FlagPoints : saved[q] # None /\ disk[q] # None
           /\ ~t.feedIn => t.value = Block
           /\ t.feedIn => t.value # Block
    BY <1>1 DEF IInv, BlockingOK, ReleasingOK
  <1>12. BackupOfMine'
    <2> SUFFICES ASSUME NEW q \in FlagPoints, mine'[q]
                 PROVE  saved[q] # None /\ disk[q] # None
      BY <1>2 DEF BackupOfMine
    <2>1. CASE mine[q]
      BY <2>1 DEF IInv, BackupOfMine
    <2>2. CASE ~mine[q]
      <3>1. q = p /\ ~t.feedIn
        BY <2>2, <1>0, <1>6, <1>7
      <3> QED BY <3>1, <1>5, <1>11
    <2> QED BY <2>1, <2>2
  <1>13. BlockIsMine'
    <2> SUFFICES ASSUME NEW q \in FlagPoints, dev'[q] = Block
                 PROVE  mine'[q]
      BY DEF BlockIsMine
    <2>1. CASE q # p \/ (dev' = dev /\ mine' = mine)
      BY <2>1, <1>0, <1>6 DEF IInv, BlockIsMine
    <2>2. CASE q = p /\ dev'[p] = t.value /\ mine'[p] = ~t.feedIn
      BY <2>2, <1>5, <1>11
    <2> QED BY <2>1, <2>2, <1>7
  <1>14. FreshOK'
    <2>1. ASSUME NEW d \in Callers, NEW q \in FreshOf(d), q \in FlagPoints, d # c
          PROVE  ~mine'[q]
      <3>1. ~mine[q]
        BY <2>1 DEF IInv, FreshOK
      <3>2. d # "limit"
        BY <2>1, StepsFacts, StepsAssumption DEF IInv, FreshOK
      <3>3. c = "limit"
        <4>1. task[d].pc # "idle"
          BY <2>1 DEF IInv, FreshOK
        <4> QED BY <4>1, <2>1, <3>2, OthersIdle DEF WriteFail, FlagCallers
      <3>4. q # p
        BY <2>1, <3>3, <1>5 DEF FlagCallers
      <3> QED BY <3>1, <3>4, <2>1, <1>0, <1>6
    <2> QED BY <2>1, <1>3, <1>4 DEF IInv, FreshOK, FreshOf
  <1>15. WritingOK'
    BY <1>3, <1>4, WritingStep DEF IInv
  <1>16. SavingOK' /\ BlockingOK' /\ ReleasingOK'
    <2>1. CASE c \in FlagCallers
      <3>1. \A d \in FlagCallers : task'[d].pc = "idle"
        BY <2>1, <1>3, <1>4, OthersIdle DEF WriteFail, FlagCallers
      <3> QED BY <3>1 DEF SavingOK, BlockingOK, ReleasingOK
    <2>2. CASE c \notin FlagCallers
      <3>1. \A q \in FlagPoints : mine'[q] = mine[q]
        BY <2>2, <1>0, <1>5, <1>6
      <3>2. \A d \in FlagCallers :
              /\ Steps(d)[task[d].step] \in FlagPoints
              /\ \A i \in 1 .. task[d].step - 1 : Steps(d)[i] \in FlagPoints
        BY <1>0, FlagStepFacts
      <3>3. \A d \in FlagCallers : task'[d] = task[d]
        BY <2>2, <1>3 DEF FlagCallers
      <3> QED
        BY <3>1, <3>2, <3>3, <1>2 DEF IInv, SavingOK, BlockingOK, ReleasingOK
    <2> QED BY <2>1, <2>2
  <1> QED
    BY <1>8, <1>10, <1>12, <1>13, <1>14, <1>15, <1>16 DEF IInv

(* A restart keeps the invariant: the backup of every block is on disk.     *)
LEMMA RestartIInv ==
  ASSUME IInv, Restart
  PROVE  IInv'
  <1>0. TypeOK /\ FlagPoints \subseteq Points
    BY DEF IInv, Points
  <1>1. /\ UNCHANGED <<dev, mine, disk>> /\ saved' = disk
        /\ pending' = FALSE /\ last' = "undef"
    BY DEF Restart
  <1>2. DOMAIN task' = Callers /\ \A c \in Callers : task'[c] = Idle
    BY DEF Restart
  <1>3. Idle.pc = "idle" /\ Idle.fresh = {}
    BY DEF Idle
  <1>4. TypeOK'
    BY <1>0, <1>1, <1>2, IdleFacts DEF TypeOK
  <1>5. (BackupOfMine /\ BlockIsMine /\ BackupGenuine /\ BackupOnDisk)'
    BY <1>1 DEF IInv, BackupOfMine, BlockIsMine, BackupGenuine, BackupOnDisk
  <1>6. (FreshOK /\ SavingOK /\ BlockingOK /\ ReleasingOK /\ WritingOK)'
    BY <1>2, <1>3
    DEF FreshOK, SavingOK, BlockingOK, ReleasingOK, WritingOK, FreshOf, FlagCallers
  <1> QED BY <1>4, <1>5, <1>6 DEF IInv

(* Writing the file again keeps the invariant: it can only add backups.     *)
LEMMA EvalFlushIInv ==
  ASSUME IInv, EvalFlush
  PROVE  IInv'
  <1>0. TypeOK /\ FlagPoints \subseteq Points
    BY DEF IInv, Points
  <1>1. /\ UNCHANGED <<dev, mine, saved, last, task>>
        /\ pending' \in BOOLEAN
        /\ disk' = saved \/ disk' = disk
    BY <1>0 DEF EvalFlush, persistDvSeqSaved
  <1>2. TypeOK'
    BY <1>0, <1>1 DEF TypeOK
  <1>3. (BackupOfMine /\ BlockIsMine /\ BackupGenuine /\ BackupOnDisk)'
    BY <1>1 DEF IInv, BackupOfMine, BlockIsMine, BackupGenuine, BackupOnDisk, FreshOf
  <1>4. (FreshOK /\ SavingOK /\ BlockingOK /\ ReleasingOK /\ WritingOK)'
    BY <1>1 DEF IInv, FreshOK, SavingOK, BlockingOK, ReleasingOK, WritingOK, FreshOf
  <1> QED BY <1>2, <1>3, <1>4 DEF IInv

(* A change by the customer keeps the invariant.                            *)
LEMMA CustomerSetsIInv ==
  ASSUME IInv, NEW p \in Points, NEW v \in Customer, CustomerSets(p, v)
  PROVE  IInv'
  <1>0. TypeOK /\ FlagPoints \subseteq Points
    BY DEF IInv, Points
  <1>1. UNCHANGED <<saved, disk, pending, last, task>>
    BY DEF CustomerSets
  <1>2. \A q \in Points : /\ q # p => dev'[q] = dev[q] /\ mine'[q] = mine[q]
                          /\ q = p => dev'[q] = v /\ ~mine'[q]
    BY <1>0 DEF CustomerSets, TypeOK
  <1>3. TypeOK'
    <2>1. dev' \in [Points -> DeviceValues]
      BY <1>0 DEF CustomerSets, TypeOK, DeviceValues
    <2>2. mine' \in [Points -> BOOLEAN]
      BY <1>0 DEF CustomerSets, TypeOK
    <2> QED BY <2>1, <2>2, <1>0, <1>1 DEF TypeOK, Tasks
  <1>4. (BackupOfMine /\ BackupGenuine /\ BackupOnDisk)'
    BY <1>0, <1>1, <1>2 DEF IInv, BackupOfMine, BackupGenuine, BackupOnDisk, FreshOf
  <1>5. BlockIsMine'
    BY <1>0, <1>2, ValuesAssumption DEF IInv, BlockIsMine
  <1>6. (SavingOK /\ BlockingOK /\ WritingOK)'
    BY <1>1 DEF IInv, SavingOK, BlockingOK, WritingOK
  <1>7. FreshOK'
    BY <1>0, <1>1, <1>2 DEF IInv, FreshOK, FreshOf
  <1>8. ReleasingOK'
    <2>1. \A d \in FlagCallers : \A i \in 1 .. task[d].step - 1 : Steps(d)[i] \in Points
      BY <1>0, FlagStepFacts
    <2> QED BY <2>1, <1>1, <1>2 DEF IInv, ReleasingOK
  <1> QED BY <1>3, <1>4, <1>5, <1>6, <1>7, <1>8 DEF IInv

(* A stuttering step keeps the invariant.                                   *)
LEMMA StutterIInv ==
  ASSUME IInv, UNCHANGED vars
  PROVE  IInv'
  BY DEF vars, IInv, TypeOK, Tasks, BackupOfMine, BlockIsMine, BackupGenuine,
         BackupOnDisk, FreshOK, SavingOK, BlockingOK, ReleasingOK, WritingOK, FreshOf

(* Every step keeps the invariant.                                          *)
LEMMA StepIInv ==
  ASSUME IInv, Apart, Apart', [Next]_vars
  PROVE  IInv'
  <1>1. CASE \E c \in Callers : CallerStep(c)
    <2>1. PICK c \in Callers : CallerStep(c)
      BY <1>1
    <2> QED
      BY <2>1, CallBlockIInv, CallReleaseIInv, SkipBootReleaseIInv, CallLiftIInv,
         DiscardBackupIInv, ReadOkIInv, ReadFailIInv, BlockWriteOkIInv,
         RestoreWriteOkIInv, WriteFailIInv
      DEF CallerStep, Release, SequenceStep
  <1>2. CASE Restart
    BY <1>2, RestartIInv
  <1>3. CASE \E p \in Points, v \in Customer : CustomerSets(p, v)
    BY <1>3, CustomerSetsIInv
  <1>4. CASE UNCHANGED vars
    BY <1>4, StutterIInv
  <1>5. CASE EvalFlush
    BY <1>5, EvalFlushIInv
  <1> QED BY <1>1, <1>2, <1>3, <1>4, <1>5 DEF Next

-----------------------------------------------------------------------------
(* Every step keeps the types, whatever the callers do at the same time.    *)
LEMMA StepTypes ==
  ASSUME TypeOK, WritingOK, [Next]_vars
  PROVE  TypeOK' /\ WritingOK'
  <1>1. ASSUME NEW c \in Callers, CallerStep(c) PROVE TypeOK' /\ WritingOK'
    <2>1. CASE CallLift(c) \/ DiscardBackup(c)
      BY <2>1, LimitTypes
    <2>2. CASE ~(CallLift(c) \/ DiscardBackup(c))
      BY <1>1, <2>2, CallTypes, ReadTypes, WriteTypes DEF CallerStep, SequenceStep
    <2> QED BY <2>1, <2>2
  <1>2. CASE EvalFlush
    BY <1>2, FileTypes, UnbegunTypes DEF EvalFlush, TypeOK
  <1>3. CASE Restart
    <2>1. Idle.pc # "write"
      BY DEF Idle
    <2> QED BY <1>3, <2>1, IdleFacts DEF Restart, TypeOK, WritingOK
  <1>4. CASE \E p \in Points, v \in Customer : CustomerSets(p, v)
    <2>1. PICK p \in Points, v \in Customer : CustomerSets(p, v)
      BY <1>4
    <2>2. dev' \in [Points -> DeviceValues] /\ mine' \in [Points -> BOOLEAN]
      BY <2>1 DEF CustomerSets, TypeOK, DeviceValues
    <2> QED BY <2>1, <2>2, UnbegunTypes DEF CustomerSets, TypeOK
  <1>5. CASE UNCHANGED vars
    BY <1>5 DEF vars, TypeOK, WritingOK
  <1> QED BY <1>1, <1>2, <1>3, <1>4, <1>5 DEF Next

(* The variables keep their types, for any callers that overlap in any way: *)
(* runDvControlSequence never writes a value that is none, and never loses  *)
(* the place in its steps.                                                  *)
THEOREM TypeCorrect == Spec => []TypeOK
  <1>1. Init => TypeOK /\ WritingOK
    BY InitIInv DEF IInv
  <1>2. TypeOK /\ WritingOK /\ [Next]_vars => (TypeOK /\ WritingOK)'
    BY StepTypes
  <1> QED BY <1>1, <1>2, PTL DEF Spec

(* As long as no two sequences of the flag are under way at once, whoever   *)
(* runs them, with the limit at its own pace beside them, the invariant     *)
(* holds through every failure and every restart, for any number of points  *)
(* and values.                                                              *)
THEOREM FlagInvariant == Spec /\ []Apart => []IInv
  <1>1. Init => IInv
    BY InitIInv
  <1>2. IInv /\ Apart /\ Apart' /\ [Next]_vars => IInv'
    BY StepIInv
  <1> QED BY <1>1, <1>2, PTL DEF Spec

(* Then every block of DVhub at the inverter has its backup on disk.        *)
THEOREM BlockIsBacked == Spec /\ []Apart => []BlockBacked
  <1>1. IInv => BlockBacked
    BY DEF IInv, BackupOfMine, BlockBacked
  <1> QED BY <1>1, FlagInvariant, PTL

(* And no backup, in memory or on disk, ever holds DVhub's own block value. *)
THEOREM BackupIsGenuine == Spec /\ []Apart => []BackupGenuine
  <1>1. IInv => BackupGenuine
    BY DEF IInv
  <1> QED BY <1>1, FlagInvariant, PTL

(* The step that caches "feed" has lifted the block of every point.         *)
LEMMA ReleaseLeavesNothing ==
  ASSUME IInv, Next, last # "feed", last' = "feed",
         NEW p \in FlagPoints
  PROVE  ~mine'[p]
  <1>1. PICK c \in Callers : CallerStep(c)
    <2>1. ~Restart
      BY DEF Restart
    <2>2. ~\E q \in Points, v \in Customer : CustomerSets(q, v)
      BY DEF CustomerSets
    <2>3. ~EvalFlush
      BY DEF EvalFlush
    <2> QED BY <2>1, <2>2, <2>3 DEF Next
  <1>2. CASE SkipBootRelease(c)
    BY <1>2 DEF SkipBootRelease, IInv, BackupOfMine
  <1>3. CASE RestoreWriteOk(c)
    <2>. DEFINE t == task[c]
                sv == [saved EXCEPT ![Steps(c)[t.step]] = None]
    <2>1. c \in FlagCallers /\ Restorable(c, t.step + 1, t.own, sv) = {}
      BY <1>3, StepsFacts DEF RestoreWriteOk, Complete
    <2>2. PICK j \in 1 .. Len(Steps(c)) : p = Steps(c)[j]
      BY <2>1, StepsFacts DEF FlagPoints
    <2> QED BY <1>3, <2>1, <2>2, RestoredPrefix
  <1>4. CASE BlockWriteOk(c)
    BY <1>4 DEF BlockWriteOk, Complete
  <1>5. CASE CallBlock(c) \/ CallRelease(c) \/ CallLift(c) \/ DiscardBackup(c)
             \/ ReadOk(c) \/ ReadFail(c) \/ WriteFail(c)
    BY <1>5
    DEF CallBlock, CallRelease, CallLift, DiscardBackup, ReadOk, ReadFail, WriteFail
  <1> QED BY <1>1, <1>2, <1>3, <1>4, <1>5 DEF CallerStep, Release, SequenceStep

(* A release that is cached as done has left no own block at the inverter.  *)
THEOREM ReleaseIsComplete == Spec /\ []Apart => ReleaseComplete
  <1>1. IInv /\ [Next]_vars =>
          [(last # "feed" /\ last' = "feed") => \A p \in FlagPoints : ~mine'[p]]_vars
    BY ReleaseLeavesNothing
  <1> QED BY <1>1, FlagInvariant, PTL DEF Spec, ReleaseComplete

-----------------------------------------------------------------------------
(* While the cache says "feed", what is blocked has been blocked by the     *)
(* sequence that is still writing, at the steps behind it.                  *)
BlockUnderWay ==
  last = "feed" =>
    \A p \in FlagPoints : mine[p] =>
       \E c \in FlagCallers :
          /\ task[c].pc = "write" /\ ~task[c].feedIn
          /\ \E i \in 1 .. task[c].step - 1 : FlagSteps[i] = p

(* It stays so in a step that blocks nothing and goes on with each block    *)
(* that is under way.                                                       *)
LEMMA UnderWayKept ==
  ASSUME TypeOK, BlockUnderWay, last' = "feed" => last = "feed",
         \A p \in FlagPoints : mine'[p] => mine[p],
         \A c \in FlagCallers :
            (task[c].pc = "write" /\ ~task[c].feedIn) => task'[c] = task[c]
  PROVE  BlockUnderWay'
  BY DEF BlockUnderWay

(* The next write of a block adds its step to those behind it, and the last *)
(* one moves the cache.                                                     *)
LEMMA BlockWriteUnderWay ==
  ASSUME IInv, BlockUnderWay, NEW c \in Callers, BlockWriteOk(c)
  PROVE  BlockUnderWay'
  <1>. DEFINE p == Steps(c)[task[c].step]
  <1>1. /\ TypeOK /\ task[c].pc = "write" /\ ~task[c].feedIn
        /\ task[c].step \in 1 .. Len(Steps(c)) /\ Len(Steps(c)) \in Nat
        /\ c \in FlagCallers => Steps(c) = FlagSteps
    BY TaskFacts, StepsFacts DEF IInv, BlockWriteOk
  <1>2. mine' = [mine EXCEPT ![p] = TRUE] /\ FlagPoints \subseteq Points
    BY DEF BlockWriteOk, Points
  <1>3. \A q \in FlagPoints : q # p => mine'[q] = mine[q]
    BY <1>1, <1>2 DEF TypeOK
  <1>4. CASE c \notin FlagCallers
    <2>1. c = "limit" /\ p \notin FlagPoints
      BY <1>1, <1>4, StepsFacts, StepsAssumption
    <2>2. \A d \in FlagCallers : task'[d] = task[d]
      BY <1>1, <1>4 DEF BlockWriteOk, Begin, TypeOK, FlagCallers
    <2> QED BY <2>1, <2>2, <1>1, <1>3, UnderWayKept DEF BlockWriteOk, Complete
  <1>5. CASE c \in FlagCallers /\ task[c].step = Len(Steps(c))
    <2>1. last' = "block"
      BY <1>1, <1>5 DEF BlockWriteOk, Complete, FlagCallers
    <2> QED BY <2>1 DEF BlockUnderWay
  <1>6. CASE c \in FlagCallers /\ task[c].step < Len(Steps(c))
    <2>0. task[c].step # Len(Steps(c))
      BY <1>1, <1>6
    <2>1. Begin(c, BlockWrite(task[c].step + 1)) /\ last' = last
      BY <2>0, Zenon DEF BlockWriteOk
    <2>2. /\ task'[c] = BlockWrite(task[c].step + 1)
          /\ \A d \in FlagCallers : d # c => task'[d] = task[d]
      BY <1>1, <2>1 DEF Begin, TypeOK, FlagCallers
    <2>3. /\ task'[c].pc = "write" /\ ~task'[c].feedIn
          /\ task'[c].step = task[c].step + 1
      BY <2>2 DEF BlockWrite
    <2> SUFFICES ASSUME last' = "feed", NEW q \in FlagPoints, mine'[q]
                 PROVE  \E d \in FlagCallers :
                           /\ task'[d].pc = "write" /\ ~task'[d].feedIn
                           /\ \E i \in 1 .. task'[d].step - 1 : FlagSteps[i] = q
      BY DEF BlockUnderWay
    <2>4. CASE q = p
      <3>1. task[c].step \in 1 .. task'[c].step - 1 /\ FlagSteps[task[c].step] = q
        BY <2>3, <2>4, <1>1, <1>6
      <3> QED BY <3>1, <2>3, <1>6
    <2>5. CASE q # p
      <3>1. PICK d \in FlagCallers :
              /\ task[d].pc = "write" /\ ~task[d].feedIn
              /\ \E i \in 1 .. task[d].step - 1 : FlagSteps[i] = q
        BY <2>1, <2>5, <1>3 DEF BlockUnderWay
      <3>2. CASE d = c
        <4>1. PICK i \in 1 .. task[c].step - 1 : FlagSteps[i] = q
          BY <3>1, <3>2
        <4>2. i \in 1 .. task'[c].step - 1
          BY <2>3, <1>1
        <4> QED BY <4>1, <4>2, <2>3, <1>6
      <3>3. CASE d # c
        BY <3>1, <3>3, <2>2
      <3> QED BY <3>2, <3>3
    <2> QED BY <2>4, <2>5
  <1> QED BY <1>1, <1>4, <1>5, <1>6

(* The other answers keep it; a failure because no block ends half-way.     *)
LEMMA AnswerUnderWay ==
  ASSUME IInv, BlockUnderWay, NoneHalfway, NEW c \in Callers,
         ReadOk(c) \/ ReadFail(c) \/ WriteFail(c)
  PROVE  BlockUnderWay'
  <1>0. TypeOK /\ FlagPoints \subseteq Points /\ task[c].step \in 1 .. Len(Steps(c))
    BY TaskFacts DEF IInv, Points
  <1>1. last' = last /\ \A d \in FlagCallers : d # c => task'[d] = task[d]
    BY <1>0 DEF ReadOk, ReadFail, WriteFail, Begin, TypeOK, FlagCallers
  <1>2. CASE ReadOk(c) \/ ReadFail(c)
    <2>1. task[c].pc = "save" /\ mine' = mine
      BY <1>2 DEF ReadOk, ReadFail
    <2> QED BY <2>1, <1>0, <1>1, UnderWayKept
  <1>3. CASE WriteFail(c)
    <2>. DEFINE p == Steps(c)[task[c].step]
    <2>1. CASE c \notin FlagCallers
      <3>1. p \notin FlagPoints
        BY <2>1, <1>0, StepsFacts, StepsAssumption
      <3>2. \A q \in FlagPoints : mine'[q] = mine[q]
        BY <3>1, <1>0, <1>3 DEF WriteFail, TypeOK
      <3> QED BY <2>1, <3>2, <1>0, <1>1, UnderWayKept
    <2>2. CASE c \in FlagCallers /\ task[c].feedIn
      <3>1. \A q \in FlagPoints : mine'[q] => mine[q]
        BY <2>2, <1>0, <1>3 DEF WriteFail, TypeOK
      <3> QED BY <2>2, <3>1, <1>0, <1>1, UnderWayKept
    <2>3. CASE c \in FlagCallers /\ ~task[c].feedIn
      <3>1. task[c].step = 1 /\ mine' = mine
        BY <2>3, <1>3 DEF NoneHalfway
      <3>2. ~\E i \in 1 .. task[c].step - 1 : TRUE
        BY <3>1
      <3> QED BY <3>1, <3>2, <1>1 DEF BlockUnderWay
    <2> QED BY <2>1, <2>2, <2>3
  <1> QED BY <1>2, <1>3

(* A write of a release lifts a block; the last one leaves none.            *)
LEMMA RestoreUnderWay ==
  ASSUME IInv, BlockUnderWay, Next, NEW c \in Callers, RestoreWriteOk(c)
  PROVE  BlockUnderWay'
  <1>1. CASE last # "feed"
    BY <1>1, ReleaseLeavesNothing DEF BlockUnderWay
  <1>2. CASE last = "feed"
    <2>1. TypeOK /\ FlagPoints \subseteq Points /\ task[c].feedIn
      BY DEF IInv, Points, RestoreWriteOk
    <2>2. \A q \in FlagPoints : mine'[q] => mine[q]
      BY <2>1 DEF RestoreWriteOk, TypeOK
    <2>3. \A d \in FlagCallers : d # c => task'[d] = task[d]
      BY <2>1 DEF RestoreWriteOk, Begin, TypeOK, FlagCallers
    <2> QED BY <1>2, <2>1, <2>2, <2>3, UnderWayKept
  <1> QED BY <1>1, <1>2

(* Every step in which no block ends half-way keeps it.                     *)
LEMMA UnderWayStep ==
  ASSUME IInv, BlockUnderWay, [Next]_vars, [NoneHalfway]_vars
  PROVE  BlockUnderWay'
  <1>0. TypeOK /\ FlagPoints \subseteq Points
    BY DEF IInv, Points
  <1>1. CASE UNCHANGED vars
    BY <1>1 DEF vars, BlockUnderWay
  <1>2. ASSUME Next, NoneHalfway, NEW c \in Callers, CallerStep(c)
        PROVE  BlockUnderWay'
    <2>1. CASE CallBlock(c) \/ CallRelease(c) \/ CallLift(c)
      <3>1. task[c].pc = "idle" /\ mine' = mine /\ last' = last
        BY <2>1 DEF CallBlock, CallRelease, CallLift
      <3>2. \A d \in FlagCallers : d # c => task'[d] = task[d]
        BY <2>1, <1>0 DEF CallBlock, CallRelease, CallLift, Begin, TypeOK, FlagCallers
      <3> QED BY <3>1, <3>2, <1>0, UnderWayKept
    <2>2. CASE DiscardBackup(c)
      BY <2>2, <1>0, UnderWayKept DEF DiscardBackup
    <2>3. CASE SkipBootRelease(c)
      BY <2>3 DEF SkipBootRelease, IInv, BackupOfMine, BlockUnderWay
    <2>4. CASE BlockWriteOk(c)
      BY <2>4, BlockWriteUnderWay
    <2>5. CASE RestoreWriteOk(c)
      BY <2>5, <1>2, RestoreUnderWay
    <2>6. CASE ReadOk(c) \/ ReadFail(c) \/ WriteFail(c)
      BY <2>6, <1>2, AnswerUnderWay
    <2> QED BY <1>2, <2>1, <2>2, <2>3, <2>4, <2>5, <2>6
            DEF CallerStep, Release, SequenceStep
  <1>3. CASE EvalFlush
    BY <1>3, <1>0, UnderWayKept DEF EvalFlush
  <1>4. CASE Restart
    BY <1>4 DEF Restart, BlockUnderWay
  <1>5. ASSUME NEW p \in Points, NEW v \in Customer, CustomerSets(p, v)
        PROVE  BlockUnderWay'
    <2>1. \A q \in FlagPoints : mine'[q] => mine[q]
      BY <1>0, <1>5 DEF CustomerSets, TypeOK
    <2> QED BY <2>1, <1>0, <1>5, UnderWayKept DEF CustomerSets
  <1> QED BY <1>1, <1>2, <1>3, <1>4, <1>5 DEF Next, vars

(* With sequences of the flag apart, a block that is given up half-way is   *)
(* the only way to one that every release is answered around: while none    *)
(* is, nothing of a block is left behind a cache that says "feed".          *)
THEOREM NoBlockIsBehindCache ==
  Spec /\ []Apart /\ [][NoneHalfway]_vars => []NoBlockBehindCache
  <1>1. Init => BlockUnderWay
    BY DEF Init, BlockUnderWay
  <1>2. IInv /\ BlockUnderWay /\ [Next]_vars /\ [NoneHalfway]_vars => BlockUnderWay'
    BY UnderWayStep
  <1>3. BlockUnderWay => NoBlockBehindCache
    BY DEF BlockUnderWay, NoBlockBehindCache
  <1> QED BY <1>1, <1>2, <1>3, FlagInvariant, PTL DEF Spec

-----------------------------------------------------------------------------
(* The invariant of the feed-in limit, however the sequences overlap.  The  *)
(* sequences of the flag touch neither its point nor its backup, and the    *)
(* sequence of the limit is one read and one write.                         *)
LimitTask(c) ==
  /\ task[c].fresh \subseteq FlagPoints
  /\ c = "limit" =>
       /\ task[c].pc = "save" => saved[LimitPoint] = None
       /\ (task[c].pc = "write" /\ ~task[c].feedIn) => saved[LimitPoint] # None
       /\ (task[c].pc = "write" /\ task[c].feedIn) => task[c].value # Block

LimitInv ==
  /\ LimitBacked
  /\ dev[LimitPoint] = Block => mine[LimitPoint]
  /\ pending \/ saved[LimitPoint] = disk[LimitPoint]
  /\ \A c \in Callers : LimitTask(c)

(* The steps of a caller, as far as the point of the limit is concerned.    *)
LEMMA LimitSteps ==
  ASSUME TypeOK, NEW c \in Callers
  PROVE  /\ c # "limit" => /\ Steps(c)[task[c].step] \in FlagPoints
                            /\ Steps(c)[task[c].step] # LimitPoint
         /\ c = "limit" => /\ Steps(c) = <<LimitPoint>> /\ Len(Steps(c)) = 1
                            /\ task[c].step = 1 /\ Steps(c)[task[c].step] = LimitPoint
         /\ LimitPoint \in Points /\ FlagPoints \subseteq Points
         /\ None # Block /\ Legacy # Block /\ None \notin DeviceValues
  BY TaskFacts, StepsFacts, StepsAssumption, ValuesAssumption
  DEF Steps, Points, DeviceValues

(* The sequences a step may begin or end with.                              *)
LEMMA TaskRecords ==
  /\ Idle.fresh = {} /\ Idle.pc = "idle"
  /\ \A i : /\ BlockWrite(i).fresh = {} /\ BlockWrite(i).pc = "write"
            /\ BlockWrite(i).feedIn = FALSE
  /\ \A i, f : SavingRead(i, f).fresh = f /\ SavingRead(i, f).pc = "save"
  /\ \A c, i, own, sv : /\ RestoreWrite(c, i, own, sv).fresh = {}
                        /\ RestoreWrite(c, i, own, sv).pc = "write"
                        /\ RestoreWrite(c, i, own, sv).feedIn = TRUE
  BY DEF Idle, BlockWrite, SavingRead, RestoreWrite

(* The file and the memory agree on the limit after a write of the file.    *)
LEMMA LimitFile ==
  ASSUME LimitInv, flushPending \/ persistDvSeqSaved(saved)
  PROVE  pending' \/ saved[LimitPoint] = disk'[LimitPoint]
  BY DEF LimitInv, flushPending, persistDvSeqSaved, files

(* The steps that leave inverter and backup of the limit alone keep the     *)
(* invariant if the sequence they begin or end does.                        *)
LEMMA LimitAside ==
  ASSUME TypeOK, LimitInv, NEW c \in Callers, NEW u, Begin(c, u),
         u.fresh \subseteq FlagPoints,
         c = "limit" =>
           /\ u.pc = "save" => saved[LimitPoint] = None
           /\ (u.pc = "write" /\ ~u.feedIn) => saved[LimitPoint] # None
           /\ (u.pc = "write" /\ u.feedIn) => u.value # Block,
         dev'[LimitPoint] = dev[LimitPoint], mine'[LimitPoint] = mine[LimitPoint],
         saved'[LimitPoint] = saved[LimitPoint],
         pending' \/ saved[LimitPoint] = disk'[LimitPoint]
  PROVE  LimitInv'
  <1>1. task'[c] = u /\ \A d \in Callers : d # c => task'[d] = task[d]
    BY DEF Begin, TypeOK
  <1>2. \A d \in Callers : LimitTask(d)'
    BY <1>1 DEF LimitInv, LimitTask
  <1> QED BY <1>2 DEF LimitInv, LimitBacked

(* A call keeps it: a limit is saved before it is written, and what a lift  *)
(* writes is the backup.                                                    *)
LEMMA LimitCalls ==
  ASSUME TypeOK, LimitInv, NEW c \in Callers,
         CallBlock(c) \/ CallRelease(c) \/ CallLift(c)
  PROVE  LimitInv'
  <1>1. /\ UNCHANGED <<dev, mine, saved, last>>
        /\ pending' \/ saved[LimitPoint] = disk'[LimitPoint]
    BY LimitFile DEF CallBlock, CallRelease, CallLift
  <1>2. CASE CallBlock(c) /\ Unsaved(c, 1, saved) # {}
    <2>1. PICK i \in Unsaved(c, 1, saved) : Begin(c, SavingRead(i, {}))
      BY <1>2 DEF CallBlock
    <2>2. c = "limit" => saved[LimitPoint] = None
      BY LimitSteps DEF Unsaved
    <2> QED BY <1>1, <2>1, <2>2, LimitAside DEF SavingRead
  <1>3. CASE CallBlock(c) /\ Unsaved(c, 1, saved) = {}
    <2>1. Begin(c, BlockWrite(1))
      BY <1>3 DEF CallBlock
    <2>2. c = "limit" => saved[LimitPoint] # None
      <3> SUFFICES ASSUME c = "limit", saved[LimitPoint] = None PROVE FALSE
        OBVIOUS
      <3>1. 1 \in Unsaved(c, 1, saved)
        BY LimitSteps DEF Unsaved
      <3> QED BY <3>1, <1>3
    <2> QED BY <1>1, <2>1, <2>2, LimitAside DEF BlockWrite
  <1>4. CASE CallRelease(c)
    <2>1. PICK i : Begin(c, RestoreWrite(c, i, bootRelease(c), saved))
      BY <1>4 DEF CallRelease
    <2>2. c # "limit"
      BY <1>4 DEF CallRelease
    <2> QED BY <1>1, <2>1, <2>2, LimitAside DEF RestoreWrite
  <1>5. CASE CallLift(c)
    <2>1. Begin(c, RestoreWrite(c, 1, FALSE, saved)) /\ c = "limit"
      BY <1>5 DEF CallLift
    <2>2. resolveRestoreValue(LimitPoint, FALSE, saved) # Block
      BY LimitSteps, RestoreFacts DEF TypeOK, LimitInv, LimitBacked
    <2>3. /\ RestoreWrite(c, 1, FALSE, saved).fresh = {}
          /\ RestoreWrite(c, 1, FALSE, saved).pc = "write"
          /\ RestoreWrite(c, 1, FALSE, saved).feedIn = TRUE
          /\ RestoreWrite(c, 1, FALSE, saved).value # Block
      BY <2>1, <2>2, LimitSteps DEF RestoreWrite
    <2> QED BY <1>1, <2>1, <2>3, LimitAside
  <1> QED BY <1>2, <1>3, <1>4, <1>5

(* A read keeps it: what is saved for the limit is what the customer set,   *)
(* and what a sequence of the flag forgets are points of the flag.          *)
LEMMA LimitReads ==
  ASSUME TypeOK, LimitInv, NEW c \in Callers, ReadOk(c) \/ ReadFail(c)
  PROVE  LimitInv'
  <1>. DEFINE t == task[c]
              p == Steps(c)[t.step]
              sv == [saved EXCEPT ![p] = dev[p]]
  <1>0. /\ UNCHANGED <<dev, mine, last>> /\ t.pc = "save"
        /\ t.fresh \subseteq FlagPoints
        /\ \A d \in Callers : LimitTask(d)
    BY DEF ReadOk, ReadFail, LimitInv, LimitTask
  <1>1. CASE c # "limit"
    <2>1. p \in FlagPoints /\ p # LimitPoint
      BY <1>1, LimitSteps
    <2>2. sv \in [Points -> Backups] /\ sv[LimitPoint] = saved[LimitPoint]
      BY <2>1, LimitSteps DEF TypeOK, Backups
    <2>3. /\ Dropped(sv, t.fresh \union {p})[LimitPoint] = saved[LimitPoint]
          /\ Dropped(saved, t.fresh)[LimitPoint] = saved[LimitPoint]
      <3>1. LimitPoint \in Points /\ LimitPoint \notin t.fresh \union {p}
        BY <1>0, <2>1, StepsAssumption, LimitSteps
      <3>. HIDE DEF sv
      <3>2. Dropped(sv, t.fresh \union {p})[LimitPoint] = sv[LimitPoint]
        BY <2>2, <3>1, DroppedFacts
      <3>3. Dropped(saved, t.fresh)[LimitPoint] = saved[LimitPoint]
        BY <3>1, DroppedFacts DEF TypeOK
      <3> QED BY <2>2, <3>2, <3>3
    <2>. HIDE DEF sv
    <2>4. CASE ReadFail(c)
      <3>1. Begin(c, Idle) /\ saved'[LimitPoint] = saved[LimitPoint]
        BY <2>3, <2>4 DEF ReadFail
      <3> QED BY <1>0, <1>1, <2>4, <3>1, LimitAside DEF ReadFail, Idle, LimitInv
    <2>5. CASE ReadOk(c)
      <3>1. saved'[LimitPoint] = saved[LimitPoint]
        BY <2>2, <2>3, <2>5 DEF ReadOk, sv
      <3>2. pending' \/ saved[LimitPoint] = disk'[LimitPoint]
        BY <2>2, <2>5 DEF ReadOk, sv, files, LimitInv
      <3>3. PICK u : Begin(c, u) /\ u.fresh \subseteq FlagPoints
        <4>1. \/ \E i : Begin(c, SavingRead(i, t.fresh \union {p}))
              \/ Begin(c, BlockWrite(1)) \/ Begin(c, Idle)
          BY <2>5, Zenon DEF ReadOk
        <4>2. t.fresh \union {p} \subseteq FlagPoints
          BY <1>0, <2>1
        <4> QED BY <4>1, <4>2, TaskRecords
      <3> QED BY <1>0, <1>1, <3>1, <3>2, <3>3, LimitAside
    <2> QED BY <2>4, <2>5
  <1>2. CASE c = "limit"
    <2>1. /\ p = LimitPoint /\ t.step = 1 /\ Len(Steps(c)) = 1
          /\ LimitPoint \in Points /\ LimitPoint \notin FlagPoints
      BY <1>2, LimitSteps, StepsAssumption
    <2>2. saved[LimitPoint] = None /\ dev[LimitPoint] # Block /\ dev[LimitPoint] # None
      BY <1>0, <1>2, LimitSteps DEF LimitTask, LimitInv, LimitBacked, TypeOK
    <2>3. CASE ReadFail(c)
      <3>1. Dropped(saved, t.fresh)[LimitPoint] = saved[LimitPoint]
        BY <1>0, <2>1, DroppedFacts DEF TypeOK
      <3>2. Begin(c, Idle) /\ saved'[LimitPoint] = saved[LimitPoint]
        BY <3>1, <2>3 DEF ReadFail
      <3>3. Idle.fresh = {} /\ Idle.pc = "idle"
        BY DEF Idle
      <3> QED BY <1>0, <2>3, <3>2, <3>3, LimitAside DEF ReadFail, LimitInv
    <2>4. CASE ReadOk(c)
      <3>1. sv[LimitPoint] = dev[LimitPoint]
        BY <2>1 DEF TypeOK
      <3>2. Unsaved(c, t.step + 1, sv) = {}
        <4>1. t.step + 1 .. Len(Steps(c)) = {}
          BY <2>1
        <4> QED BY <4>1 DEF Unsaved
      <3>. HIDE DEF sv
      <3>3. /\ saved' = sv /\ Begin(c, BlockWrite(1))
            /\ (disk' = sv /\ pending' = FALSE) \/ pending' = TRUE
        BY <1>2, <2>4, <3>2, Zenon DEF ReadOk, sv
      <3>4. /\ task'[c] = BlockWrite(1)
            /\ \A d \in Callers : d # c => task'[d] = task[d]
        BY <3>3 DEF Begin, TypeOK
      <3>5. saved'[LimitPoint] # None /\ saved'[LimitPoint] # Block
        BY <2>2, <3>1, <3>3
      <3>6. \A d \in Callers : LimitTask(d)'
        BY <1>0, <1>2, <3>4, <3>5 DEF LimitTask, BlockWrite
      <3> QED BY <1>0, <3>3, <3>5, <3>6 DEF LimitInv, LimitBacked
    <2> QED BY <2>3, <2>4
  <1> QED BY <1>1, <1>2

(* A write of the flag keeps it; so does one of the limit, which leaves     *)
(* either a limit with its backup or what the customer had set.             *)
LEMMA LimitWrites ==
  ASSUME TypeOK, LimitInv, NEW c \in Callers, BlockWriteOk(c) \/ WriteFail(c)
  PROVE  LimitInv'
  <1>. DEFINE t == task[c]
              p == Steps(c)[t.step]
  <1>0. /\ UNCHANGED <<saved, disk, pending>> /\ t.pc = "write"
        /\ \/ UNCHANGED <<dev, mine>>
           \/ /\ dev' = [dev EXCEPT ![p] = t.value]
              /\ mine' = [mine EXCEPT ![p] = ~t.feedIn]
        /\ t.feedIn \in BOOLEAN
    BY TaskFacts DEF BlockWriteOk, WriteFail
  <1>1. PICK u : /\ Begin(c, u) /\ u.fresh = {}
                 /\ u.pc # "save" /\ (u.pc = "write" => ~u.feedIn /\ ~t.feedIn)
    <2>1. Begin(c, Idle) \/ (~t.feedIn /\ \E i : Begin(c, BlockWrite(i)))
      BY Zenon DEF BlockWriteOk, WriteFail
    <2> QED BY <2>1, TaskRecords
  <1>2. CASE c # "limit"
    <2>1. p # LimitPoint /\ LimitPoint \in Points
      BY <1>2, LimitSteps
    <2>2. dev'[LimitPoint] = dev[LimitPoint] /\ mine'[LimitPoint] = mine[LimitPoint]
      BY <1>0, <2>1 DEF TypeOK
    <2> QED BY <1>0, <1>1, <1>2, <2>2, LimitAside DEF LimitInv
  <1>3. CASE c = "limit"
    <2>1. p = LimitPoint /\ LimitPoint \in Points
      BY <1>3, LimitSteps
    <2>2. /\ ~t.feedIn => saved[LimitPoint] # None
          /\ t.feedIn => t.value # Block
      BY <1>0, <1>3 DEF LimitInv, LimitTask
    <2>3. \/ UNCHANGED <<dev, mine>>
          \/ dev'[LimitPoint] = t.value /\ mine'[LimitPoint] = ~t.feedIn
      BY <1>0, <2>1 DEF TypeOK
    <2>4. task'[c] = u /\ \A d \in Callers : d # c => task'[d] = task[d]
      BY <1>1 DEF Begin, TypeOK
    <2>5. \A d \in Callers : LimitTask(d)'
      BY <1>0, <1>1, <1>3, <2>2, <2>4 DEF LimitInv, LimitTask
    <2> QED BY <1>0, <2>2, <2>3, <2>5 DEF LimitInv, LimitBacked
  <1> QED BY <1>2, <1>3

(* A write of a release keeps it: the backup of the limit is used up by the *)
(* lift alone, and with it the limit is gone.                               *)
LEMMA LimitRestores ==
  ASSUME TypeOK, LimitInv, NEW c \in Callers, RestoreWriteOk(c)
  PROVE  LimitInv'
  <1>. DEFINE t == task[c]
              p == Steps(c)[t.step]
              sv == [saved EXCEPT ![p] = None]
  <1>0. /\ t.pc = "write" /\ t.feedIn
        /\ dev' = [dev EXCEPT ![p] = t.value]
        /\ mine' = [mine EXCEPT ![p] = FALSE]
        /\ saved' = sv
        /\ \/ disk' = sv /\ pending' = FALSE
           \/ pending' = TRUE
           \/ saved[p] = None /\ UNCHANGED <<disk, pending>>
    BY DEF RestoreWriteOk, persistDvSeqSaved, files
  <1>1. CASE c # "limit"
    <2>1. p # LimitPoint /\ LimitPoint \in Points
      BY <1>1, LimitSteps
    <2>2. /\ dev'[LimitPoint] = dev[LimitPoint] /\ mine'[LimitPoint] = mine[LimitPoint]
          /\ sv[LimitPoint] = saved[LimitPoint]
      BY <1>0, <2>1 DEF TypeOK
    <2>. HIDE DEF sv
    <2>3. PICK u : Begin(c, u) /\ u.fresh = {}
      <3>1. Begin(c, Idle) \/ \E i, own, w : Begin(c, RestoreWrite(c, i, own, w))
        BY Zenon DEF RestoreWriteOk
      <3> QED BY <3>1, TaskRecords
    <2>4. pending' \/ saved[LimitPoint] = disk'[LimitPoint]
      BY <1>0, <2>2 DEF LimitInv
    <2>5. saved'[LimitPoint] = saved[LimitPoint]
      BY <1>0, <2>2
    <2> QED BY <1>1, <2>2, <2>3, <2>4, <2>5, LimitAside
  <1>2. CASE c = "limit"
    <2>1. /\ p = LimitPoint /\ LimitPoint \in Points
          /\ t.step = 1 /\ Len(Steps(c)) = 1
      BY <1>2, LimitSteps
    <2>2. /\ dev'[LimitPoint] = t.value /\ ~mine'[LimitPoint]
          /\ sv[LimitPoint] = None /\ t.value # Block /\ None # Block
      BY <1>0, <1>2, <2>1, LimitSteps DEF TypeOK, LimitInv, LimitTask
    <2>3. Restorable(c, t.step + 1, t.own, sv) = {}
      <3>1. t.step + 1 .. Len(Steps(c)) = {}
        BY <2>1
      <3> QED BY <3>1 DEF Restorable
    <2>. HIDE DEF sv
    <2>4. Begin(c, Idle)
      BY <2>3, Zenon DEF RestoreWriteOk, sv
    <2>5. task'[c] = Idle /\ \A d \in Callers : d # c => task'[d] = task[d]
      BY <2>4 DEF Begin, TypeOK
    <2>6. \A d \in Callers : LimitTask(d)'
      BY <1>2, <2>5, TaskRecords DEF LimitInv, LimitTask
    <2>7. pending' \/ saved'[LimitPoint] = disk'[LimitPoint]
      BY <1>0, <2>1, <2>2 DEF LimitInv
    <2> QED BY <1>0, <2>2, <2>6, <2>7 DEF LimitInv, LimitBacked
  <1> QED BY <1>1, <1>2

(* Every step that keeps the backup of a limit keeps the invariant.         *)
LEMMA LimitStep ==
  ASSUME TypeOK, LimitInv, [Next]_vars, [LimitKept]_vars
  PROVE  LimitInv'
  <1>1. CASE UNCHANGED vars
    BY <1>1 DEF vars, LimitInv, LimitBacked, LimitTask
  <1>2. ASSUME LimitKept, NEW c \in Callers, CallerStep(c)
        PROVE  LimitInv'
    <2>1. CASE CallBlock(c) \/ CallRelease(c) \/ CallLift(c)
      BY <2>1, LimitCalls
    <2>2. CASE SkipBootRelease(c)
      BY <2>2 DEF SkipBootRelease, LimitInv, LimitBacked, LimitTask
    <2>3. CASE DiscardBackup(c)
      <3>1. /\ c = "limit" /\ task[c].pc = "idle" /\ ~mine[LimitPoint]
            /\ saved' = [saved EXCEPT ![LimitPoint] = None]
            /\ pending' \/ saved' = disk'
            /\ UNCHANGED <<dev, mine, last, task>>
        BY <1>2, <2>3 DEF DiscardBackup, LimitKept
      <3>2. saved'[LimitPoint] = None /\ None # Block
        BY <3>1, LimitSteps DEF TypeOK
      <3>3. \A d \in Callers : LimitTask(d)'
        BY <3>1 DEF LimitInv, LimitTask
      <3> QED BY <3>1, <3>2, <3>3 DEF LimitInv, LimitBacked
    <2>4. CASE ReadOk(c) \/ ReadFail(c)
      BY <2>4, LimitReads
    <2>5. CASE BlockWriteOk(c) \/ WriteFail(c)
      BY <2>5, LimitWrites
    <2>6. CASE RestoreWriteOk(c)
      BY <2>6, LimitRestores
    <2> QED BY <1>2, <2>1, <2>2, <2>3, <2>4, <2>5, <2>6
            DEF CallerStep, Release, SequenceStep
  <1>3. CASE EvalFlush
    BY <1>3, LimitFile DEF EvalFlush, LimitInv, LimitBacked, LimitTask
  <1>4. ASSUME Restart, LimitKept PROVE LimitInv'
    <2>1. /\ UNCHANGED <<dev, mine, disk>> /\ saved' = disk
          /\ saved[LimitPoint] = disk[LimitPoint]
          /\ \A c \in Callers : task'[c] = Idle
      BY <1>4 DEF Restart, LimitKept, LimitInv
    <2> QED BY <2>1 DEF LimitInv, LimitBacked, LimitTask, Idle
  <1>5. ASSUME NEW p \in Points, NEW v \in Customer, CustomerSets(p, v)
        PROVE  LimitInv'
    <2>1. \/ dev'[LimitPoint] = dev[LimitPoint] /\ mine'[LimitPoint] = mine[LimitPoint]
          \/ dev'[LimitPoint] = v /\ ~mine'[LimitPoint] /\ v # Block
      <3>1. v # Block
        BY ValuesAssumption
      <3>2. LimitPoint \in Points
        BY DEF Points
      <3> QED BY <1>5, <3>1, <3>2 DEF CustomerSets, TypeOK
    <2> QED BY <1>5, <2>1 DEF CustomerSets, LimitInv, LimitBacked, LimitTask
  <1> QED BY <1>1, <1>2, <1>3, <1>4, <1>5 DEF Next, vars

(* It holds at the start, where a limit of an older version has its backup. *)
LEMMA InitLimitInv == Init => LimitInv
  <1> SUFFICES ASSUME Init PROVE LimitInv
    OBVIOUS
  <1>1. PICK old \in SUBSET Points, v \in [Points -> Customer] :
          /\ mine = [p \in Points |-> p \in old]
          /\ dev = [p \in Points |-> IF p \in old THEN Block ELSE v[p]]
          /\ disk = [p \in Points |-> IF p \in old THEN Legacy ELSE None]
    BY DEF Init
  <1>2. /\ LimitPoint \in Points /\ None # Legacy /\ None # Block /\ Legacy # Block
        /\ v[LimitPoint] # Block
    BY ValuesAssumption DEF Points, DeviceValues
  <1>3. mine[LimitPoint] <=> LimitPoint \in old
    BY <1>1, <1>2, Zenon
  <1>4. /\ dev[LimitPoint] = IF LimitPoint \in old THEN Block ELSE v[LimitPoint]
        /\ disk[LimitPoint] = IF LimitPoint \in old THEN Legacy ELSE None
    BY <1>1, <1>2
  <1>5. LimitBacked
    BY <1>2, <1>3, <1>4 DEF Init, LimitBacked
  <1>6. dev[LimitPoint] = Block => mine[LimitPoint]
    BY <1>2, <1>3, <1>4, Zenon
  <1>7. \A c \in Callers : LimitTask(c)
    BY DEF Init, LimitTask, Idle
  <1> QED BY <1>5, <1>6, <1>7 DEF Init, LimitInv

(* What the arbiter takes for granted of a limit: it has a backup that is   *)
(* not a limit, whatever the callers do at the same time, unless a process  *)
(* ends with the file behind its memory or the backup of a limit has to be  *)
(* thrown away because it cannot be encoded.                                *)
THEOREM LimitIsBacked == Spec /\ [][LimitKept]_vars => []LimitBacked
  <1>1. LimitInv /\ TypeOK /\ [Next]_vars /\ [LimitKept]_vars => LimitInv'
    BY LimitStep
  <1>2. LimitInv => LimitBacked
    BY DEF LimitInv
  <1> QED BY <1>1, <1>2, InitLimitInv, TypeCorrect, PTL DEF Spec
=============================================================================
