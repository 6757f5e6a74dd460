-------------------------- MODULE EebusHelper_proofs ---------------------------
(***************************************************************************)
(* Proofs about EebusHelper: the types, and that the helper which runs is  *)
(* the one the service holds, for any number of processes and settings.    *)
(***************************************************************************)
EXTENDS EebusHelper, TLAPS

(* A timer that is held is pending: clearing it takes one away.             *)
TypeInv == TypeOK /\ (held => timers > 0)

(* As long as no two calls have met there is one of: a helper that lives, a *)
(* timer, a start that waits for the key pair, a start that follows now.    *)
Lone == \A h \in Helpers : Alive(h) => child = h /\ timers = 0 /\ starts = 0 /\ due = 0
OneStart ==
  /\ timers + starts + due <= 1
  /\ held <=> timers = 1
Awaited ==
  \A h \in Helpers : waiting[h] > 0 =>
    /\ child = h /\ stopping /\ waiting[h] = 1
    /\ timers = 0 /\ starts = 0 /\ due = 0
Tidy == Lone /\ OneStart /\ Awaited

HelperInv == TypeInv /\ (~raced => Tidy)

-------------------------------------------------------------------------------
(* What start may leave behind.                                             *)
LEMMA SpawnEffect ==
  ASSUME TypeInv, NEW h \in Helpers, spawnChild(h)
  PROVE  /\ helper' \in [Helpers -> {"none", "runs", "ending", "dead"}]
         /\ child' = h /\ ticking' \in BOOLEAN /\ stopping' \in BOOLEAN
         /\ \A k \in Helpers : k # h => helper'[k] = helper[k]
BY DEF TypeInv, TypeOK, spawnChild

LEMMA StartEffect ==
  ASSUME TypeInv, NEW t \in Nat, NEW set \in BOOLEAN, NEW s \in Nat, set => t > 0,
         Start(t, set, s)
  PROVE  /\ lastKey' = cfg
         /\ timers' \in Nat /\ held' \in BOOLEAN /\ starts' \in Nat
         /\ held' => timers' > 0
         /\ \/ \E h \in Helpers : spawnChild(h) /\ timers' = t /\ held' = set /\ starts' = s
            \/ /\ UNCHANGED <<helper, child, stopping, ticking>>
               /\ \/ timers' = t /\ held' = set /\ starts' = s
                  \/ timers' = t /\ held' = set /\ starts' = s + 1
                  \/ ~set /\ timers' = t + 1 /\ held' = TRUE /\ starts' = s
                  \/ set /\ timers' = t /\ held' = TRUE /\ starts' = s
<1>1. lastKey' = cfg
  BY DEF Start
<1>2. CASE ~cfg.enabled /\ timers' = t /\ held' = set /\ starts' = s
           /\ UNCHANGED <<helper, child, stopping, ticking>>
  BY <1>1, <1>2, Zenon
<1>3. CASE cfg.enabled /\ ~installed /\ timers' = (IF set THEN t ELSE t + 1)
           /\ held' = TRUE /\ starts' = s
           /\ UNCHANGED <<helper, child, stopping, ticking>>
  <2>1. set \/ ~set
    OBVIOUS
  <2>2. CASE set
    <3>1. timers' = t
      BY <1>3, <2>2
    <3> QED
      BY <1>1, <1>3, <2>2, <3>1, Zenon
  <2>3. CASE ~set
    <3>1. timers' = t + 1
      BY <1>3, <2>3
    <3>2. timers' \in Nat /\ timers' > 0
      BY <3>1
    <3> QED
      BY <1>1, <1>3, <2>3, <3>1, <3>2, Zenon
  <2> QED
    BY <2>1, <2>2, <2>3
<1>4. CASE cfg.enabled /\ installed /\ ~cert /\ starts' = s + 1 /\ timers' = t /\ held' = set
           /\ UNCHANGED <<helper, child, stopping, ticking>>
  <2>1. starts' \in Nat
    BY <1>4
  <2> QED
    BY <1>1, <1>4, <2>1, Zenon
<1>5. CASE /\ cfg.enabled /\ installed /\ cert
           /\ \E h \in Helpers : spawnChild(h)
           /\ timers' = t /\ held' = set /\ starts' = s
  BY <1>1, <1>5, Zenon
<1> QED
  BY <1>2, <1>3, <1>4, <1>5, Zenon DEF Start

LEMMA StartTypes ==
  ASSUME TypeInv, NEW t \in Nat, NEW set \in BOOLEAN, NEW s \in Nat, set => t > 0,
         Start(t, set, s)
  PROVE  /\ lastKey' \in Configs \union {None}
         /\ helper' \in [Helpers -> {"none", "runs", "ending", "dead"}]
         /\ child' \in Helpers \union {None} /\ stopping' \in BOOLEAN
         /\ timers' \in Nat /\ held' \in BOOLEAN /\ ticking' \in BOOLEAN
         /\ starts' \in Nat /\ (held' => timers' > 0)
<1>1. lastKey' = cfg /\ timers' \in Nat /\ held' \in BOOLEAN /\ starts' \in Nat
      /\ (held' => timers' > 0)
  BY StartEffect
<1>2. CASE \E h \in Helpers : spawnChild(h)
  BY <1>1, <1>2, SpawnEffect DEF TypeInv, TypeOK
<1>3. CASE UNCHANGED <<helper, child, stopping, ticking>>
  BY <1>1, <1>3 DEF TypeInv, TypeOK
<1> QED
  BY <1>2, <1>3, StartEffect

(* A start from a quiet state makes one thing and no more.                  *)
LEMMA StartTidy ==
  ASSUME TypeInv, Start(0, FALSE, 0), due' = 0, waiting' = waiting,
         \A h \in Helpers : ~Alive(h) /\ waiting[h] = 0
  PROVE  Tidy'
<1>a. \A h \in Helpers : ~Alive(h)
  OBVIOUS
<1>1. \A h \in Helpers : ~(waiting'[h] > 0)
  OBVIOUS
<1>2. \/ \E h \in Helpers : spawnChild(h) /\ timers' = 0 /\ held' = FALSE /\ starts' = 0
      \/ /\ UNCHANGED <<helper, child, stopping, ticking>>
         /\ \/ timers' = 0 /\ held' = FALSE /\ starts' = 0
            \/ timers' = 0 /\ held' = FALSE /\ starts' = 1
            \/ timers' = 1 /\ held' = TRUE /\ starts' = 0
  <2>1. (FALSE => 0 > 0) /\ 0 \in Nat /\ FALSE \in BOOLEAN /\ 0 + 1 = 1
    OBVIOUS
  <2>2. \/ \E h \in Helpers : spawnChild(h) /\ timers' = 0 /\ held' = FALSE /\ starts' = 0
        \/ /\ UNCHANGED <<helper, child, stopping, ticking>>
           /\ \/ timers' = 0 /\ held' = FALSE /\ starts' = 0
              \/ timers' = 0 /\ held' = FALSE /\ starts' = 0 + 1
              \/ ~FALSE /\ timers' = 0 + 1 /\ held' = TRUE /\ starts' = 0
              \/ FALSE /\ timers' = 0 /\ held' = TRUE /\ starts' = 0
    BY <2>1, StartEffect, Zenon
  <2> QED
    BY <2>1, <2>2, Zenon
<1>3. Awaited'
  BY <1>1 DEF Awaited
<1>4. CASE \E h \in Helpers : spawnChild(h) /\ timers' = 0 /\ held' = FALSE /\ starts' = 0
  <2> PICK h \in Helpers : spawnChild(h) /\ timers' = 0 /\ held' = FALSE /\ starts' = 0
    BY <1>4
  <2>1. child' = h /\ \A k \in Helpers : k # h => helper'[k] = helper[k]
    BY SpawnEffect
  <2>2. Lone'
    BY <2>1, <1>a DEF Lone, Alive
  <2> QED
    BY <2>2, <1>3 DEF Tidy, OneStart
<1>5. CASE /\ UNCHANGED <<helper, child, stopping, ticking>>
           /\ \/ timers' = 0 /\ held' = FALSE /\ starts' = 0
              \/ timers' = 0 /\ held' = FALSE /\ starts' = 1
              \/ timers' = 1 /\ held' = TRUE /\ starts' = 0
  <2>1. Lone'
    BY <1>a, <1>5 DEF Lone, Alive
  <2>2. OneStart'
    BY <1>5 DEF OneStart
  <2> QED
    BY <2>1, <2>2, <1>3 DEF Tidy
<1> QED
  BY <1>2, <1>4, <1>5
-------------------------------------------------------------------------------
LEMMA InitTypes == Init => TypeInv
<1> SUFFICES ASSUME Init PROVE TypeInv
  OBVIOUS
<1>1. cfg \in Configs /\ lastKey \in Configs \union {None} /\ child \in Helpers \union {None}
  BY DEF Init
<1>2. timers \in Nat /\ starts \in Nat /\ due \in Nat
  BY DEF Init
<1>3. /\ helper \in [Helpers -> {"none", "runs", "ending", "dead"}]
      /\ waiting \in [Helpers -> Nat]
  BY DEF Init
<1>4. installed \in BOOLEAN /\ cert \in BOOLEAN
  BY DEF Init
<1>5. stopping \in BOOLEAN /\ held \in BOOLEAN /\ ticking \in BOOLEAN /\ raced \in BOOLEAN /\ ~held
  BY DEF Init
<1> QED
  BY <1>1, <1>2, <1>3, <1>4, <1>5, Zenon DEF TypeInv, TypeOK

(* The types, one step per action.                                          *)
LEMMA TypeStep ==
  ASSUME TypeInv, [Next]_vars
  PROVE  TypeInv'
<1> USE HelpersAssumption, ConfigsAssumption
<1>1. CASE Continue
  <2>1. Start(timers, held, starts) /\ UNCHANGED <<setup, waiting, raced>>
        /\ due > 0 /\ due' = due - 1
    BY <1>1 DEF Continue
  <2>2. timers \in Nat /\ held \in BOOLEAN /\ starts \in Nat /\ (held => timers > 0)
    BY DEF TypeInv, TypeOK
  <2>3. due' \in Nat
    BY <2>1 DEF TypeInv, TypeOK
  <2> QED
    BY <2>1, <2>2, <2>3, StartTypes DEF TypeInv, TypeOK, setup
<1>2. CASE Fire
  <2>1. Start(timers - 1, FALSE, starts) /\ UNCHANGED <<setup, waiting, due, raced>>
        /\ timers > 0
    BY <1>2 DEF Fire
  <2>2. timers - 1 \in Nat /\ FALSE \in BOOLEAN /\ starts \in Nat /\ (FALSE => timers - 1 > 0)
    BY <2>1 DEF TypeInv, TypeOK
  <2> QED
    BY <2>1, <2>2, StartTypes DEF TypeInv, TypeOK, setup
<1>3. CASE CertMade
  <2>1. \E h \in Helpers : spawnChild(h)
    BY <1>3 DEF CertMade
  <2>2. /\ cert' = TRUE /\ starts > 0 /\ starts' = starts - 1
        /\ UNCHANGED <<cfg, installed, lastKey, timers, held, waiting, due, raced>>
    BY <1>3 DEF CertMade
  <2>3. starts' \in Nat
    BY <2>2 DEF TypeInv, TypeOK
  <2> QED
    BY <2>1, <2>2, <2>3, SpawnEffect DEF TypeInv, TypeOK
<1>4. CASE CertFails
  BY <1>4 DEF CertFails, TypeInv, TypeOK, setup, watch
<1>5. CASE Reload
  <2>1. timers' \in Nat /\ held' = FALSE
    BY <1>5 DEF Reload, ClearTimer, TypeInv, TypeOK
  <2>2. /\ helper' \in [Helpers -> {"none", "runs", "ending", "dead"}]
        /\ waiting' \in [Helpers -> Nat] /\ due' \in Nat
    BY <1>5 DEF Reload, TypeInv, TypeOK
  <2>3. raced' \in BOOLEAN
    BY <1>5 DEF Reload, TypeInv, TypeOK
  <2> QED
    BY <1>5, <2>1, <2>2, <2>3 DEF Reload, TypeInv, TypeOK, setup
<1>6. ASSUME NEW h \in Helpers, StopTimer(h)
      PROVE  TypeInv'
  <2>1. waiting' \in [Helpers -> Nat]
    BY <1>6 DEF StopTimer, TypeInv, TypeOK
  <2>2. raced' \in BOOLEAN
    BY <1>6 DEF StopTimer, TypeInv, TypeOK
  <2> QED
    BY <1>6, <2>1, <2>2 DEF StopTimer, TypeInv, TypeOK, setup, watch
<1>7. ASSUME NEW h \in Helpers, Exit(h)
      PROVE  TypeInv'
  <2>1. timers' \in Nat /\ held' \in BOOLEAN /\ (held' => timers' > 0)
    <3>1. CASE stopping
      <4>1. timers' = timers /\ held' = held
        BY <1>7, <3>1 DEF Exit
      <4> QED
        BY <4>1, Zenon DEF TypeInv, TypeOK
    <3>2. CASE ~stopping
      <4>1. timers' = timers + 1 /\ held' = TRUE
        BY <1>7, <3>2 DEF Exit
      <4>2. timers' \in Nat /\ timers' > 0
        BY <4>1 DEF TypeInv, TypeOK
      <4> QED
        BY <4>1, <4>2
    <3> QED
      BY <3>1, <3>2
  <2>2. /\ helper' \in [Helpers -> {"none", "runs", "ending", "dead"}]
        /\ waiting' \in [Helpers -> Nat] /\ due' \in Nat
    BY <1>7 DEF Exit, TypeInv, TypeOK
  <2> QED
    BY <1>7, <2>1, <2>2 DEF Exit, TypeInv, TypeOK, setup
<1>8. CASE SettingsChange
  BY <1>8 DEF SettingsChange, TypeInv, TypeOK, watch, calls
<1>9. CASE Built
  BY <1>9 DEF Built, TypeInv, TypeOK, watch, calls
<1>10. CASE UNCHANGED vars
  BY <1>10 DEF vars, setup, watch, calls, TypeInv, TypeOK
<1> QED
  BY <1>1, <1>2, <1>3, <1>4, <1>5, <1>6, <1>7, <1>8, <1>9, <1>10 DEF Next

(* The types are kept whatever comes together: any number of processes and  *)
(* settings, all faults.                                                    *)
THEOREM TypeCorrect == Spec => []TypeOK
<1>1. Init => TypeInv
  BY InitTypes
<1>2. TypeInv => TypeOK
  BY DEF TypeInv
<1> QED
  BY <1>1, <1>2, TypeStep, PTL DEF Spec
-------------------------------------------------------------------------------
(* What is counted, when a start is about to happen.                        *)
LEMMA Quiet ==
  ASSUME TypeInv, Tidy, timers + starts + due > 0
  PROVE  \A h \in Helpers : ~Alive(h) /\ waiting[h] = 0
<1>1. timers \in Nat /\ starts \in Nat /\ due \in Nat /\ waiting \in [Helpers -> Nat]
  BY DEF TypeInv, TypeOK
<1>2. ~(timers = 0 /\ starts = 0 /\ due = 0)
  BY <1>1
<1> QED
  BY <1>1, <1>2 DEF Tidy, Lone, Awaited

LEMMA TidyStep ==
  ASSUME HelperInv, [Next]_vars, ~raced'
  PROVE  Tidy'
<1> USE HelpersAssumption
<1>a. TypeInv /\ (~raced => Tidy)
  BY DEF HelperInv
<1>b. /\ timers \in Nat /\ starts \in Nat /\ due \in Nat /\ waiting \in [Helpers -> Nat]
      /\ raced \in BOOLEAN /\ held \in BOOLEAN
      /\ helper \in [Helpers -> {"none", "runs", "ending", "dead"}]
  BY <1>a DEF TypeInv, TypeOK
<1>1. CASE Continue
  <2>1. Start(timers, held, starts) /\ due > 0 /\ due' = due - 1 /\ waiting' = waiting
        /\ raced' = raced
    BY <1>1 DEF Continue
  <2>2. Tidy
    BY <2>1, <1>a
  <2>3. timers = 0 /\ starts = 0 /\ due = 1 /\ held = FALSE
    BY <2>1, <2>2, <1>b DEF Tidy, OneStart
  <2>4. \A h \in Helpers : ~Alive(h) /\ waiting[h] = 0
    BY <2>3, <2>2, <1>a, Quiet
  <2>5. due' = 0
    BY <2>1, <2>3
  <2>6. Start(0, FALSE, 0)
    BY <2>1, <2>3, Zenon
  <2> QED
    BY <2>1, <2>4, <2>5, <2>6, <1>a, StartTidy
<1>2. CASE Fire
  <2>1. Start(timers - 1, FALSE, starts) /\ timers > 0 /\ due' = due /\ due = 0
        /\ waiting' = waiting /\ raced' = raced
    BY <1>2 DEF Fire
  <2>2. Tidy
    BY <2>1, <1>a
  <2>3. timers = 1 /\ timers - 1 = 0 /\ starts = 0
    BY <2>1, <2>2, <1>b DEF Tidy, OneStart
  <2>4. \A h \in Helpers : ~Alive(h) /\ waiting[h] = 0
    BY <2>1, <2>3, <2>2, <1>a, Quiet
  <2>5. due' = 0
    BY <2>1
  <2>6. Start(0, FALSE, 0)
    BY <2>1, <2>3, Zenon
  <2> QED
    BY <2>1, <2>4, <2>5, <2>6, <1>a, StartTidy
<1>3. CASE CertMade
  <2>1. PICK h \in Helpers : spawnChild(h)
    BY <1>3 DEF CertMade
  <2>2. /\ starts > 0 /\ starts' = starts - 1 /\ due = 0
        /\ UNCHANGED <<timers, held, waiting, due, raced>>
    BY <1>3 DEF CertMade
  <2>3. Tidy
    BY <2>2, <1>a
  <2>4. timers = 0 /\ starts = 1 /\ held = FALSE
    BY <2>2, <2>3, <1>b DEF Tidy, OneStart
  <2>5. \A k \in Helpers : ~Alive(k) /\ waiting[k] = 0
    BY <2>2, <2>4, <2>3, <1>a, Quiet
  <2>6. child' = h /\ \A k \in Helpers : k # h => helper'[k] = helper[k]
    BY <2>1, <1>a, SpawnEffect
  <2>7. timers' = 0 /\ starts' = 0 /\ due' = 0 /\ held' = FALSE
    BY <2>2, <2>4
  <2>8. Lone'
    BY <2>5, <2>6, <2>7 DEF Lone, Alive
  <2>9. OneStart'
    BY <2>7 DEF OneStart
  <2>10. Awaited'
    BY <2>2, <2>5 DEF Awaited
  <2> QED
    BY <2>8, <2>9, <2>10 DEF Tidy
<1>4. CASE CertFails
  <2>1. /\ starts > 0 /\ starts' = starts - 1 /\ due = 0
        /\ UNCHANGED <<helper, child, stopping, timers, held, waiting, due, raced>>
    BY <1>4 DEF CertFails, watch
  <2>2. Tidy
    BY <2>1, <1>a
  <2>3. timers = 0 /\ starts = 1 /\ held = FALSE /\ starts' = 0
    BY <2>1, <2>2, <1>b DEF Tidy, OneStart
  <2>4. \A k \in Helpers : ~Alive(k) /\ waiting[k] = 0
    BY <2>1, <2>3, <2>2, <1>a, Quiet
  <2>5. Lone' /\ Awaited'
    BY <2>1, <2>4 DEF Lone, Alive, Awaited
  <2>6. OneStart'
    BY <2>1, <2>3 DEF OneStart
  <2> QED
    BY <2>5, <2>6 DEF Tidy
<1>5. CASE Reload
  <2>1. /\ due = 0 /\ stopping' = TRUE /\ raced' = (raced \/ Busy) /\ held' = FALSE
        /\ timers' = (IF held THEN timers - 1 ELSE timers)
        /\ UNCHANGED <<child, starts>>
    BY <1>5 DEF Reload, ClearTimer
  <2>2. Tidy /\ ~Busy
    BY <2>1, <1>a
  <2>3. starts = 0 /\ \A h \in Helpers : waiting[h] = 0
    BY <2>2, <1>b DEF Busy
  <2>4. timers' = 0
    BY <2>1, <2>2, <1>b DEF Tidy, OneStart
  <2>5. CASE child = None
    <3>1. due' = 1 /\ UNCHANGED <<helper, waiting>>
      BY <1>5, <2>5 DEF Reload
    <3>2. \A h \in Helpers : ~Alive(h)
      BY <2>2, <2>5 DEF Tidy, Lone
    <3>3. Lone'
      BY <3>1, <3>2 DEF Lone, Alive
    <3>4. OneStart'
      BY <3>1, <2>1, <2>3, <2>4 DEF OneStart
    <3>5. Awaited'
      BY <3>1, <2>3 DEF Awaited
    <3> QED
      BY <3>3, <3>4, <3>5 DEF Tidy
  <2>6. CASE child # None
    <3>1. /\ waiting' = [waiting EXCEPT ![child] = @ + 1]
          /\ helper' = [helper EXCEPT ![child] = IF @ = "runs" THEN "ending" ELSE @]
          /\ due' = due
      BY <1>5, <2>6 DEF Reload
    <3>2. child \in Helpers
      BY <2>6, <1>a DEF TypeInv, TypeOK
    <3>3. Lone'
      <4> SUFFICES ASSUME NEW h \in Helpers, Alive(h)'
                   PROVE  child' = h /\ timers' = 0 /\ starts' = 0 /\ due' = 0
        BY DEF Lone
      <4>1. CASE h = child
        BY <4>1, <2>1, <2>3, <2>4, <3>1
      <4>2. CASE h # child
        <5>1. helper'[h] = helper[h]
          BY <4>2, <3>1, <1>b
        <5>2. Alive(h)
          BY <5>1 DEF Alive
        <5> QED
          BY <5>2, <4>2, <2>2 DEF Tidy, Lone
      <4> QED
        BY <4>1, <4>2
    <3>4. OneStart'
      BY <3>1, <2>1, <2>3, <2>4 DEF OneStart
    <3>5. Awaited'
      <4> SUFFICES ASSUME NEW h \in Helpers, waiting'[h] > 0
                   PROVE  /\ child' = h /\ stopping' /\ waiting'[h] = 1
                          /\ timers' = 0 /\ starts' = 0 /\ due' = 0
        BY DEF Awaited
      <4>1. h = child
        BY <3>1, <3>2, <2>3, <1>b
      <4>2. waiting'[h] = 1
        BY <4>1, <3>1, <2>3, <1>b
      <4> QED
        BY <4>1, <4>2, <3>1, <2>1, <2>3, <2>4
    <3> QED
      BY <3>3, <3>4, <3>5 DEF Tidy
  <2> QED
    BY <2>5, <2>6
<1>6. ASSUME NEW h \in Helpers, StopTimer(h)
      PROVE  Tidy'
  <2>1. /\ due = 0 /\ waiting[h] > 0 /\ waiting' = [waiting EXCEPT ![h] = @ - 1] /\ due' = 1
        /\ raced' = (raced \/ Alive(h))
        /\ UNCHANGED <<helper, child, stopping, timers, held, starts>>
    BY <1>6 DEF StopTimer, watch
  <2>2. Tidy /\ ~Alive(h)
    BY <2>1, <1>a
  <2>3. child = h /\ waiting[h] = 1 /\ timers = 0 /\ starts = 0
    BY <2>1, <2>2 DEF Tidy, Awaited
  <2>4. \A k \in Helpers : ~Alive(k)
    BY <2>2, <2>3 DEF Tidy, Lone
  <2>5. \A k \in Helpers : waiting'[k] = 0
    <3> TAKE k \in Helpers
    <3>1. CASE k = h
      BY <3>1, <2>1, <2>3, <1>b
    <3>2. CASE k # h
      <4>1. ~(waiting[k] > 0)
        BY <3>2, <2>2, <2>3 DEF Tidy, Awaited
      <4> QED
        BY <4>1, <3>2, <2>1, <1>b
    <3> QED
      BY <3>1, <3>2
  <2>6. Lone' /\ Awaited'
    BY <2>1, <2>4, <2>5 DEF Lone, Alive, Awaited
  <2>7. OneStart'
    BY <2>1, <2>2, <2>3 DEF OneStart, Tidy
  <2> QED
    BY <2>6, <2>7 DEF Tidy
<1>7. ASSUME NEW h \in Helpers, Exit(h)
      PROVE  Tidy'
  <2>1. /\ due = 0 /\ Alive(h) /\ raced' = raced
        /\ helper' = [helper EXCEPT ![h] = "none"] /\ child' = None
        /\ IF stopping THEN UNCHANGED <<timers, held>>
           ELSE timers' = timers + 1 /\ held' = TRUE
        /\ due' = waiting[h] /\ waiting' = [waiting EXCEPT ![h] = 0]
        /\ UNCHANGED <<stopping, starts>>
    BY <1>7 DEF Exit, Alive
  <2>2. Tidy
    BY <2>1, <1>a
  <2>3. child = h /\ timers = 0 /\ starts = 0
    BY <2>1, <2>2 DEF Tidy, Lone
  <2>4. \A k \in Helpers : ~Alive(k)'
    <3> TAKE k \in Helpers
    <3>1. CASE k = h
      BY <3>1, <2>1, <1>b DEF Alive
    <3>2. CASE k # h
      <4>1. ~Alive(k)
        BY <3>2, <2>2, <2>3 DEF Tidy, Lone
      <4> QED
        BY <4>1, <3>2, <2>1, <1>b DEF Alive
    <3> QED
      BY <3>1, <3>2
  <2>5. \A k \in Helpers : waiting'[k] = 0
    <3> TAKE k \in Helpers
    <3>1. CASE k = h
      BY <3>1, <2>1, <1>b
    <3>2. CASE k # h
      <4>1. ~(waiting[k] > 0)
        BY <3>2, <2>2, <2>3 DEF Tidy, Awaited
      <4> QED
        BY <4>1, <3>2, <2>1, <1>b
    <3> QED
      BY <3>1, <3>2
  <2>6. waiting[h] = 0 \/ (waiting[h] = 1 /\ stopping)
    BY <2>2, <1>b DEF Tidy, Awaited
  <2>7. held = FALSE
    BY <2>2, <2>3, <1>b DEF Tidy, OneStart
  <2>8. OneStart'
    BY <2>1, <2>3, <2>6, <2>7 DEF OneStart
  <2>9. Lone' /\ Awaited'
    BY <2>4, <2>5 DEF Lone, Awaited
  <2> QED
    BY <2>8, <2>9 DEF Tidy
<1>8. CASE SettingsChange \/ Built \/ UNCHANGED vars
  <2>1. UNCHANGED <<helper, child, stopping, timers, held, starts, waiting, due, raced>>
    BY <1>8 DEF SettingsChange, Built, vars, watch, calls
  <2>2. Tidy
    BY <2>1, <1>a
  <2>3. Lone' /\ Awaited'
    BY <2>1, <2>2 DEF Tidy, Lone, Alive, Awaited
  <2>4. OneStart'
    BY <2>1, <2>2 DEF Tidy, OneStart
  <2> QED
    BY <2>3, <2>4 DEF Tidy
<1> QED
  BY <1>1, <1>2, <1>3, <1>4, <1>5, <1>6, <1>7, <1>8 DEF Next

(* As long as no two calls have met and each stop has waited for the exit,  *)
(* the helper that lives is the one the service holds: a crash, a timer, a  *)
(* failed spawn and a reload never make a second one.                       *)
THEOREM IsSupervised == Spec => []Supervised
<1>1. Init => HelperInv
  <2> SUFFICES ASSUME Init PROVE HelperInv
    OBVIOUS
  <2>1. \A h \in Helpers : ~Alive(h) /\ ~(waiting[h] > 0)
    BY DEF Init, Alive
  <2>2. Lone /\ Awaited
    BY <2>1 DEF Lone, Awaited
  <2>3. OneStart
    BY DEF Init, OneStart
  <2> QED
    BY <2>2, <2>3, InitTypes DEF HelperInv, Tidy
<1>2. HelperInv /\ [Next]_vars => HelperInv'
  BY TypeStep, TidyStep DEF HelperInv
<1>3. HelperInv => Supervised
  BY DEF HelperInv, Tidy, Lone, Supervised
<1> QED
  BY <1>1, <1>2, <1>3, PTL DEF Spec
===============================================================================
