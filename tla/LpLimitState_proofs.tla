-------------------------- MODULE LpLimitState_proofs --------------------------
(***************************************************************************)
(* Proofs about LpLimitState, for any limits, durations and timeout.       *)
(*                                                                         *)
(* NoBoxNoLimit rests on a machine being disabled exactly when no control  *)
(* box is paired, but while reload() waits.  SilenceIsFailsafe compares     the history    *)
(* with the two clocks of the machine (ClocksTrue): the time since the     *)
(* start in "init", the age of the heartbeat where a limit may stand, and  *)
(* the age of a failsafe, which begins when the timeout is over (Ending).  *)
(***************************************************************************)
EXTENDS LpLimitState, TLAPS

Machines ==
  [state : States, initAge : Ages, hbOk : BOOLEAN, hbAge : Ages \union {None},
   limitW : Limits \union {None}, left : Lefts,
   failsafeW : Limits \union {Own}, dur : Durations \union {OwnDur},
   failsafeAge : Ages \union {None}]

Saved ==
  [failsafeW : Limits \union {Own}, dur : Durations \union {OwnDur},
   limitW : Limits \union {None}, left : Lefts, failsafeAge : Ages \union {None}]

(* A failsafe, and nothing else, has a beginning.                           *)
Dated(m) == m.failsafeAge # None <=> m.state = "failsafe"

(* States in which a limit of a living control box may stand.               *)
Controlled == {"limited", "unlimited_controlled"}

(* States are told apart by their names.                                    *)
LEMMA ConstantFacts ==
  /\ 0 \in Ages /\ 0 # None /\ None \in Lefts
  /\ \A age \in Ages \union {None} :
        /\ Older(age) \in Ages \union {None}
        /\ Older(age) = None <=> age = None
  /\ \A left \in Lefts : Shorter(left) \in Lefts
  BY MaxAssumption, NoneAssumption, TimeAssumption DEF Ages, Lefts, Older, Shorter

(* go() moves to the next state; a failsafe that it enters begins now.      *)
LEMMA GoFacts ==
  ASSUME NEW m \in Machines, Dated(m), NEW next \in States
  PROVE  /\ go(m, next) \in Machines
         /\ go(m, next).state = next
         /\ Dated(go(m, next))
         /\ m.state = next => go(m, next) = m
         /\ go(m, next).initAge = m.initAge /\ go(m, next).hbOk = m.hbOk
         /\ go(m, next).hbAge = m.hbAge /\ go(m, next).limitW = m.limitW
         /\ go(m, next).left = m.left /\ go(m, next).failsafeW = m.failsafeW
         /\ go(m, next).dur = m.dur
  <1>1. CASE m.state = next
    BY <1>1 DEF go
  <1>2. CASE m.state # next
    <2>1. go(m, next) = [m EXCEPT !.state = next,
                                  !.failsafeAge = IF next = "failsafe" THEN 0 ELSE None]
      BY <1>2 DEF go
    <2>2. (IF next = "failsafe" THEN 0 ELSE None) \in Ages \union {None}
      BY ConstantFacts
    <2> QED BY <1>2, <2>1, <2>2, ConstantFacts DEF Machines, Dated
  <1> QED BY <1>1, <1>2

(* The state an evaluation leads to.                                        *)
LEMMA NextStateFacts ==
  ASSUME NEW m \in Machines
  PROVE  /\ nextState(m) \in States
         /\ m.state = "disabled" <=> nextState(m) = "disabled"
         /\ (m.state = "failsafe" /\ m.failsafeAge < m.dur) => nextState(m) = "failsafe"
         /\ nextState(m) \in Controlled => m.hbOk \/ m.state \in Controlled
         /\ nextState(m) = "init" => m.state = "init" /\ m.initAge < Timeout
         /\ (nextState(m) \in Controlled /\ ~m.hbOk) => m.hbAge # None /\ m.hbAge < Timeout
  <1>1. controlledState(m) \in Controlled
    BY DEF controlledState, Controlled
  <1>2. m.initAge \in Int /\ m.hbAge \in Int \union {None} /\ Timeout \in Int
    BY TimeAssumption, MaxAssumption DEF Machines, Ages
  <1>3. m.state \in States
    BY DEF Machines
  <1> QED BY <1>1, <1>2, <1>3 DEF nextState, afterFailsafe, heartbeatLost, Controlled, States

(* What an evaluation keeps, and what it makes of a machine.                *)
LEMMA EvaluateFacts ==
  ASSUME NEW m \in Machines, Dated(m)
  PROVE  /\ evaluate(m) \in Machines
         /\ Dated(evaluate(m))
         /\ evaluate(m).initAge = m.initAge /\ evaluate(m).hbOk = m.hbOk
         /\ evaluate(m).hbAge = IF m.hbOk THEN 0 ELSE m.hbAge
         /\ evaluate(m).limitW = m.limitW /\ evaluate(m).left = m.left
         /\ evaluate(m).failsafeW = m.failsafeW /\ evaluate(m).dur = m.dur
         /\ m.state = "disabled" <=> evaluate(m).state = "disabled"
         /\ (m.state = "failsafe" /\ m.failsafeAge < m.dur) =>
               evaluate(m).state = "failsafe" /\ evaluate(m).failsafeAge = m.failsafeAge
         /\ evaluate(m).state \in Controlled => m.hbOk \/ m.state \in Controlled
         /\ evaluate(m).state = "init" => m.state = "init" /\ m.initAge < Timeout
         /\ (evaluate(m).state \in Controlled /\ ~m.hbOk) => m.hbAge # None /\ m.hbAge < Timeout
         /\ effective(evaluate(m)) \in Limits \union {Own, None}
         /\ m.state = "disabled" => effective(evaluate(m)) = None
  <1>. DEFINE n == [m EXCEPT !.hbAge = IF m.hbOk THEN 0 ELSE @]
  <1>1. /\ n \in Machines /\ Dated(n)
        /\ n.hbAge = IF m.hbOk THEN 0 ELSE m.hbAge
        /\ n.state = m.state /\ n.initAge = m.initAge /\ n.hbOk = m.hbOk
        /\ n.limitW = m.limitW /\ n.left = m.left /\ n.failsafeW = m.failsafeW
        /\ n.dur = m.dur /\ n.failsafeAge = m.failsafeAge
    BY ConstantFacts DEF Machines, Dated
  <1>2. evaluate(m) = go(n, nextState(n))
    BY DEF evaluate
  <1>3. n.state = nextState(n) => go(n, nextState(n)) = n
    BY DEF go
  <1>. HIDE DEF n
  <1>4. /\ evaluate(m) \in Machines /\ Dated(evaluate(m))
        /\ evaluate(m).state = nextState(n)
        /\ evaluate(m).initAge = m.initAge /\ evaluate(m).hbOk = m.hbOk
        /\ evaluate(m).hbAge = IF m.hbOk THEN 0 ELSE m.hbAge
        /\ evaluate(m).limitW = m.limitW /\ evaluate(m).left = m.left
        /\ evaluate(m).failsafeW = m.failsafeW /\ evaluate(m).dur = m.dur
    <2>1. nextState(n) \in States
      BY <1>1, NextStateFacts
    <2>2. /\ go(n, nextState(n)) \in Machines /\ Dated(go(n, nextState(n)))
          /\ go(n, nextState(n)).state = nextState(n)
          /\ go(n, nextState(n)).initAge = n.initAge /\ go(n, nextState(n)).hbOk = n.hbOk
          /\ go(n, nextState(n)).hbAge = n.hbAge /\ go(n, nextState(n)).limitW = n.limitW
          /\ go(n, nextState(n)).left = n.left /\ go(n, nextState(n)).failsafeW = n.failsafeW
          /\ go(n, nextState(n)).dur = n.dur
      BY <1>1, <2>1, GoFacts
    <2> QED BY <1>1, <1>2, <2>2
  <1>5. (m.state = "failsafe" /\ m.failsafeAge < m.dur) =>
               evaluate(m).state = "failsafe" /\ evaluate(m).failsafeAge = m.failsafeAge
    BY <1>1, <1>2, <1>3, <1>4, NextStateFacts
  <1>6. effective(evaluate(m)) \in Limits \union {Own, None}
    BY <1>4 DEF effective, Machines
  <1>7. m.state = "disabled" => effective(evaluate(m)) = None
    BY <1>1, <1>4, NextStateFacts DEF effective
  <1> QED BY <1>1, <1>4, <1>5, <1>6, <1>7, NextStateFacts

-----------------------------------------------------------------------------
(* The machine of a start: in "init", disabled without a control box, or in *)
(* the failsafe of the file.                                                *)
LEMMA NewMachineFacts ==
  ASSUME NEW on \in BOOLEAN
  PROVE  /\ setEnabled(NewMachine, on) \in Machines
         /\ Dated(setEnabled(NewMachine, on))
         /\ setEnabled(NewMachine, on).state = IF on THEN "init" ELSE "disabled"
         /\ setEnabled(NewMachine, on).initAge = 0
         /\ setEnabled(NewMachine, on).hbOk = FALSE
         /\ setEnabled(NewMachine, on).limitW = None /\ setEnabled(NewMachine, on).left = None
         /\ setEnabled(NewMachine, on).failsafeW = Own
         /\ setEnabled(NewMachine, on).dur = OwnDur
  <1>1. NewMachine \in Machines /\ Dated(NewMachine)
    BY ConstantFacts DEF NewMachine, Machines, States, Dated
  <1>2. [NewMachine EXCEPT !.initAge = 0] = NewMachine
    <2>1. NewMachine.initAge = 0
      BY DEF NewMachine
    <2> QED BY <1>1, <2>1 DEF Machines
  <1>3. setEnabled(NewMachine, on) = IF on THEN go(NewMachine, "init") ELSE NewMachine
    BY <1>2 DEF setEnabled, go, NewMachine
  <1>4. "init" \in States
    BY DEF States
  <1>5. /\ NewMachine.initAge = 0 /\ NewMachine.hbOk = FALSE
        /\ NewMachine.limitW = None /\ NewMachine.left = None
        /\ NewMachine.failsafeW = Own /\ NewMachine.dur = OwnDur
        /\ NewMachine.state = "disabled"
    BY DEF NewMachine
  <1> QED BY <1>1, <1>3, <1>4, <1>5, GoFacts

(* What a start makes of the file.                                          *)
LEMMA StartedFacts ==
  ASSUME peer \in BOOLEAN, NEW d \in Saved
  PROVE  /\ Started(d) \in Machines
         /\ Dated(Started(d))
         /\ Started(d).state = IF ~peer THEN "disabled"
                               ELSE IF d.failsafeAge # None /\ d.failsafeAge < d.dur
                                    THEN "failsafe" ELSE "init"
         /\ Started(d).state = "failsafe" => Started(d).failsafeAge = d.failsafeAge
         /\ Started(d).initAge = 0 /\ Started(d).hbOk = FALSE
         /\ Started(d).limitW = d.limitW /\ Started(d).left = d.left
         /\ Started(d).failsafeW = d.failsafeW /\ Started(d).dur = d.dur
  <1>. DEFINE m == setEnabled(NewMachine, peer)
  <1>1. m \in Machines /\ Dated(m) /\ m.state = (IF peer THEN "init" ELSE "disabled")
        /\ m.initAge = 0 /\ m.hbOk = FALSE
    BY NewMachineFacts
  <1>. HIDE DEF m
  <1>. DEFINE n == [m EXCEPT !.failsafeW = d.failsafeW, !.dur = d.dur,
                             !.limitW = d.limitW, !.left = d.left]
  <1>2. /\ n \in Machines /\ Dated(n) /\ n.state = m.state
        /\ n.initAge = 0 /\ n.hbOk = FALSE
        /\ n.limitW = d.limitW /\ n.left = d.left
        /\ n.failsafeW = d.failsafeW /\ n.dur = d.dur
    BY <1>1 DEF Machines, Saved, Dated
  <1>3. Started(d) = IF d.failsafeAge # None /\ d.failsafeAge < d.dur /\ m.state # "disabled"
                     THEN [n EXCEPT !.state = "failsafe", !.failsafeAge = d.failsafeAge] ELSE n
    BY DEF Started, restore, m
  <1>. HIDE DEF n
  <1>4. CASE d.failsafeAge # None /\ d.failsafeAge < d.dur /\ m.state # "disabled"
    <2>1. Started(d) = [n EXCEPT !.state = "failsafe", !.failsafeAge = d.failsafeAge]
      BY <1>3, <1>4
    <2>2. d.failsafeAge \in Ages \union {None} /\ "failsafe" \in States
      BY DEF Saved, States
    <2> QED BY <1>1, <1>2, <1>4, <2>1, <2>2 DEF Machines, Dated
  <1>5. CASE ~(d.failsafeAge # None /\ d.failsafeAge < d.dur /\ m.state # "disabled")
    BY <1>1, <1>2, <1>3, <1>5
  <1> QED BY <1>4, <1>5

(* What a write of the control box makes of a machine.                      *)
LEMMA LimitFacts ==
  ASSUME NEW m \in Machines, Dated(m), NEW w \in Limits \union {None}, NEW left \in Lefts
  PROVE  /\ onLimit(m, w, left) \in Machines
         /\ Dated(onLimit(m, w, left))
         /\ onLimit(m, w, left).hbOk
         /\ onLimit(m, w, left).state = "disabled" <=> m.state = "disabled"
         /\ onLimit(m, w, left).state \in Controlled \union {"disabled"}
         /\ onLimit(m, w, left).hbAge = 0
  <1>. DEFINE n == [m EXCEPT !.limitW = w, !.left = left, !.hbOk = TRUE, !.hbAge = 0]
  <1>1. n \in Machines /\ Dated(n) /\ n.state = m.state /\ n.hbOk /\ n.hbAge = 0
    BY ConstantFacts DEF Machines, Dated
  <1>2. onLimit(m, w, left) = IF n.state = "disabled" THEN n ELSE go(n, controlledState(n))
    BY DEF onLimit
  <1>. HIDE DEF n
  <1>3. controlledState(n) \in Controlled /\ controlledState(n) \in States
    BY DEF controlledState, Controlled, States
  <1> QED BY <1>1, <1>2, <1>3, GoFacts DEF Controlled

(* What is saved of a machine is well formed.                               *)
LEMMA SavedFacts ==
  ASSUME NEW m \in Machines
  PROVE  /\ toJSON(m) \in Saved
         /\ toJSON(m).failsafeW = m.failsafeW /\ toJSON(m).dur = m.dur
         /\ toJSON(m).limitW = m.limitW /\ toJSON(m).left = m.left
         /\ toJSON(m).failsafeAge = IF m.state = "failsafe" THEN m.failsafeAge ELSE None
  BY DEF toJSON, Machines, Saved

-----------------------------------------------------------------------------
(* The types, and a beginning for every failsafe.                           *)
TypeInv == TypeOK /\ Dated(mach)

(* What every disjunct that ends with apply() has in common.                *)
LEMMA ApplyFacts ==
  ASSUME NEW m \in Machines, Dated(m), apply(m)
  PROVE  /\ mach' \in Machines /\ Dated(mach)' /\ applied' \in Limits \union {Own, None}
         /\ mach' = evaluate(m)
         /\ m.state = "disabled" => mach'.state = "disabled" /\ applied' = None
  <1>1. mach' = evaluate(m) /\ applied' = effective(evaluate(m))
    BY DEF apply
  <1> QED BY <1>1, EvaluateFacts DEF Dated

(* Heartbeat reported.                                                      *)
Beaten(ok) == [mach EXCEPT !.hbOk = ok, !.hbAge = IF ok THEN 0 ELSE @]

LEMMA BeatenFacts ==
  ASSUME mach \in Machines, Dated(mach), NEW ok \in BOOLEAN
  PROVE  /\ Beaten(ok) \in Machines /\ Dated(Beaten(ok))
         /\ Beaten(ok).hbOk = ok /\ Beaten(ok).hbAge = IF ok THEN 0 ELSE mach.hbAge
         /\ Beaten(ok).state = mach.state /\ Beaten(ok).failsafeAge = mach.failsafeAge
         /\ Beaten(ok).limitW = mach.limitW /\ Beaten(ok).left = mach.left
         /\ Beaten(ok).failsafeW = mach.failsafeW /\ Beaten(ok).dur = mach.dur
         /\ Beaten(ok).initAge = mach.initAge
  BY ConstantFacts DEF Beaten, Machines, Dated

(* A value of the control box written to the machine.                       *)
LEMMA WrittenFacts ==
  ASSUME mach \in Machines, Dated(mach)
  PROVE  /\ \A w \in Limits : /\ [mach EXCEPT !.failsafeW = w] \in Machines
                               /\ Dated([mach EXCEPT !.failsafeW = w])
         /\ \A d \in Durations : /\ [mach EXCEPT !.dur = d] \in Machines
                                  /\ Dated([mach EXCEPT !.dur = d])
  BY DEF Machines, Dated

(* The machine one unit of time later.                                      *)
Aged == [mach EXCEPT !.initAge = IF mach.state = "init" THEN Older(@) ELSE 0,
                     !.hbAge = Older(@), !.failsafeAge = Older(@), !.left = Shorter(@)]

LEMMA AgedFacts ==
  ASSUME mach \in Machines, Dated(mach)
  PROVE  /\ Aged \in Machines /\ Dated(Aged)
         /\ Aged.state = mach.state /\ Aged.hbOk = mach.hbOk
         /\ Aged.initAge = (IF mach.state = "init" THEN Older(mach.initAge) ELSE 0)
         /\ Aged.hbAge = Older(mach.hbAge)
         /\ Aged.failsafeAge = Older(mach.failsafeAge)
         /\ Aged.limitW = mach.limitW /\ Aged.left = Shorter(mach.left)
         /\ Aged.failsafeW = mach.failsafeW /\ Aged.dur = mach.dur
  <1>. DEFINE a == IF mach.state = "init" THEN Older(mach.initAge) ELSE 0
              h == Older(mach.hbAge)
              f == Older(mach.failsafeAge)
              l == Shorter(mach.left)
  <1>1. a \in Ages /\ h \in Ages \union {None} /\ f \in Ages \union {None} /\ l \in Lefts
        /\ (f = None <=> mach.failsafeAge = None)
    BY ConstantFacts DEF Machines, Older, Ages
  <1>2. Aged = [mach EXCEPT !.initAge = a, !.hbAge = h, !.failsafeAge = f, !.left = l]
    BY DEF Aged
  <1>. HIDE DEF a, h, f, l
  <1>3. /\ Aged \in Machines /\ Dated(Aged)
        /\ Aged.state = mach.state /\ Aged.hbOk = mach.hbOk
        /\ Aged.initAge = a /\ Aged.hbAge = h /\ Aged.failsafeAge = f
        /\ Aged.limitW = mach.limitW /\ Aged.left = l
        /\ Aged.failsafeW = mach.failsafeW /\ Aged.dur = mach.dur
    BY <1>1, <1>2 DEF Machines, Dated
  <1> QED BY <1>3 DEF a, h, f, l

(* A new pairing waits for the helper, or takes new machines.               *)
LEMMA PairingFacts ==
  ASSUME Renewed \/ \E on \in BOOLEAN : PeerChanged(on), peer \in BOOLEAN,
         renewing \in BOOLEAN
  PROVE  /\ proc' = proc /\ peer' \in BOOLEAN /\ renewing' \in BOOLEAN
         /\ \/ renewing' /\ UNCHANGED <<mach, disk, lost, applied, quiet>>
            \/ ~renewing' /\ Renew(peer')
  <1>1. CASE Renewed
    BY <1>1 DEF Renewed
  <1>2. CASE \E on \in BOOLEAN : PeerChanged(on)
    <2>1. PICK on \in BOOLEAN : PeerChanged(on)
      BY <1>2
    <2>2. peer' = on /\ proc' = proc
      BY <2>1 DEF PeerChanged
    <2>3. CASE renewing' = TRUE /\ UNCHANGED <<mach, disk, lost, applied, quiet>>
      BY <2>2, <2>3
    <2>4. CASE Renew(on) /\ renewing' = renewing
      <3>1. ~renewing
        BY <2>1 DEF PeerChanged
      <3>2. Renew(peer')
        BY <2>2, <2>4
      <3> QED BY <2>2, <2>4, <3>1, <3>2
    <2> QED BY <2>1, <2>3, <2>4 DEF PeerChanged
  <1> QED BY <1>1, <1>2

-----------------------------------------------------------------------------
(* Every step keeps the types.                                              *)
LEMMA TypeStep ==
  ASSUME TypeInv, [Next]_vars
  PROVE  TypeInv'
  <1>0. /\ mach \in Machines /\ Dated(mach) /\ disk \in Saved
        /\ lost \in BOOLEAN /\ applied \in Limits \union {Own, None} /\ peer \in BOOLEAN
        /\ renewing \in BOOLEAN
        /\ proc \in {"up", "down", "stopping", "off"} /\ quiet \in Ages
        /\ 0 \in Ages /\ Older(quiet) \in Ages
    <2>1. quiet \in Ages
      BY DEF TypeInv, TypeOK
    <2>2. Older(quiet) \in Ages
      BY <2>1, ConstantFacts, NoneAssumption DEF Ages
    <2> QED BY <2>1, <2>2, ConstantFacts DEF TypeInv, TypeOK, Machines, Saved
  <1>1. ASSUME mach' \in Machines, Dated(mach)', disk' \in Saved, lost' \in BOOLEAN,
               applied' \in Limits \union {Own, None}, peer' \in BOOLEAN, renewing' \in BOOLEAN,
               proc' \in {"up", "down", "stopping", "off"}, quiet' \in Ages
        PROVE  TypeInv'
    BY <1>1 DEF TypeInv, TypeOK, Machines, Saved
  <1>2. ASSUME NEW m \in Machines, saveGridState(m)
        PROVE  disk' \in Saved /\ lost' \in BOOLEAN
    BY <1>0, <1>2, SavedFacts DEF saveGridState
  <1>3. CASE \E ok \in BOOLEAN : Heartbeat(ok)
    <2>1. PICK ok \in BOOLEAN : Heartbeat(ok)
      BY <1>3
    <2>2. evaluate(Beaten(ok)) \in Machines /\ Dated(evaluate(Beaten(ok)))
      BY <1>0, BeatenFacts, EvaluateFacts
    <2>3. apply(evaluate(Beaten(ok)))
      BY <2>1 DEF Heartbeat, Beaten
    <2> QED BY <1>0, <1>1, <2>1, <2>2, <2>3, ApplyFacts DEF Heartbeat
  <1>4. CASE BoxWrites
    <2>1. PICK w \in Limits \union {None}, left \in Lefts : GridLimit(w, left)
      <3>1. LimitTimes \union {Forever} \subseteq Lefts /\ None \in Lefts
        <4>1. \A d \in LimitTimes : d \in Nat /\ d <= MaxAge
          BY TimeAssumption, MaxAssumption
        <4> QED BY <4>1, MaxAssumption DEF Lefts
      <3> QED BY <1>4, <3>1 DEF BoxWrites
    <2>2. onLimit(mach, w, left) \in Machines /\ Dated(onLimit(mach, w, left))
      BY <1>0, LimitFacts
    <2> QED BY <1>0, <1>1, <1>2, <2>1, <2>2, ApplyFacts DEF GridLimit
  <1>5. CASE \E w \in Limits : GridFailsafeLimit(w)
    <2>1. PICK w \in Limits : GridFailsafeLimit(w)
      BY <1>5
    <2>2. /\ [mach EXCEPT !.failsafeW = w] \in Machines
          /\ Dated([mach EXCEPT !.failsafeW = w])
      BY <1>0, WrittenFacts
    <2> QED BY <1>0, <1>1, <1>2, <2>1, <2>2, ApplyFacts DEF GridFailsafeLimit
  <1>6. CASE \E d \in Durations : GridFailsafeDuration(d)
    <2>1. PICK d \in Durations : GridFailsafeDuration(d)
      BY <1>6
    <2>2. mach' \in Machines /\ Dated(mach')
      BY <1>0, <2>1, WrittenFacts DEF GridFailsafeDuration
    <2>3. disk' \in Saved /\ lost' \in BOOLEAN
      BY <1>0, <2>1, <2>2, SavedFacts DEF GridFailsafeDuration, saveGridState
    <2> QED BY <1>0, <1>1, <2>1, <2>2, <2>3 DEF GridFailsafeDuration, Dated
  <1>7. CASE OtherEvent
    BY <1>0, <1>1, <1>2, <1>7, ApplyFacts DEF OtherEvent
  <1>8. CASE Timer
    <2>1. evaluate(mach) \in Machines
      BY <1>0, EvaluateFacts
    <2> QED BY <1>0, <1>1, <1>2, <1>8, <2>1, ApplyFacts DEF Timer
  <1>9. CASE Tick
    <2>1. mach' = Aged /\ quiet' \in Ages
      BY <1>0, <1>9 DEF Tick, Aged
    <2>2. disk' \in Saved
      <3>1. /\ Older(disk.failsafeAge) \in Ages \union {None}
            /\ Shorter(disk.left) \in Lefts
        BY <1>0, ConstantFacts DEF Saved
      <3>2. disk' = [disk EXCEPT !.failsafeAge = Older(disk.failsafeAge),
                                 !.left = Shorter(disk.left)]
        BY <1>9 DEF Tick
      <3> QED BY <1>0, <3>1, <3>2 DEF Saved
    <2> QED BY <1>0, <1>1, <1>9, <2>1, <2>2, AgedFacts DEF Tick, Dated
  <1>10. CASE ChildExit \/ StopDone
    BY <1>0, <1>1, <1>10 DEF ChildExit, StopDone, Dated
  <1>11. CASE Start
    BY <1>0, <1>1, <1>11, StartedFacts DEF Start, Dated
  <1>12. CASE Stop
    <2>1. disk' \in Saved /\ lost' \in BOOLEAN
      BY <1>0, <1>2, <1>12 DEF Stop
    <2> QED BY <1>0, <1>1, <1>12, <2>1 DEF Stop, Dated
  <1>13. CASE StartAgain
    <2>1. disk' \in Saved /\ lost' \in BOOLEAN
      BY <1>0, <1>2, <1>13 DEF StartAgain
    <2>2. mach' \in Machines /\ Dated(mach')
      BY <1>0, <1>13, <2>1, StartedFacts DEF StartAgain
    <2> QED BY <1>0, <1>1, <1>13, <2>1, <2>2 DEF StartAgain, Dated
  <1>14. CASE Restart
    BY <1>0, <1>1, <1>14, StartedFacts DEF Restart, Dated
  <1>15. CASE Renewed \/ \E on \in BOOLEAN : PeerChanged(on)
    <2>1. CASE UNCHANGED <<mach, disk, lost, applied, quiet>>
      BY <1>0, <1>1, <1>15, <2>1, PairingFacts DEF Dated
    <2>2. CASE Renew(peer')
      BY <1>0, <1>1, <1>2, <1>15, <2>2, PairingFacts, NewMachineFacts, ApplyFacts DEF Renew
    <2> QED BY <1>0, <1>15, <2>1, <2>2, PairingFacts
  <1>16. CASE UNCHANGED vars
    BY <1>0, <1>1, <1>16 DEF vars, Dated
  <1> QED BY <1>3, <1>4, <1>5, <1>6, <1>7, <1>8, <1>9, <1>10, <1>11, <1>12, <1>13, <1>14,
             <1>15, <1>16 DEF Next

LEMMA TypeInit == Init => TypeInv
  <1>. SUFFICES ASSUME Init PROVE TypeInv
    OBVIOUS
  <1>1. peer \in BOOLEAN /\ mach \in Machines /\ Dated(mach)
    BY NewMachineFacts DEF Init
  <1>2. NewMachine \in Machines
    BY ConstantFacts DEF NewMachine, Machines, States
  <1>3. disk \in Saved
    BY <1>2, SavedFacts DEF Init
  <1> QED BY <1>1, <1>3, ConstantFacts DEF Init, TypeInv, TypeOK, Machines, Saved

(* The machine and its file keep their types through every event, failure   *)
(* and start.                                                               *)
THEOREM TypeCorrect == Spec => []TypeOK
  <1>1. TypeInv => TypeOK
    BY DEF TypeInv
  <1> QED BY <1>1, TypeInit, TypeStep, PTL DEF Spec

-----------------------------------------------------------------------------
(* A machine is disabled exactly when no control box is paired, but while   *)
(* reload() waits for the helper.                                           *)
PeerTrue == ~renewing => (peer <=> mach.state # "disabled")

BoxInv == TypeInv /\ PeerTrue /\ NoBoxNoLimit

LEMMA TypeFacts ==
  ASSUME TypeInv
  PROVE  /\ mach \in Machines /\ Dated(mach) /\ disk \in Saved
         /\ lost \in BOOLEAN /\ peer \in BOOLEAN /\ renewing \in BOOLEAN
         /\ quiet \in Ages
  BY DEF TypeInv, TypeOK, Machines, Saved

LEMMA BoxStep ==
  ASSUME BoxInv, [Next]_vars
  PROVE  BoxInv'
  <1>0. /\ mach \in Machines /\ Dated(mach) /\ disk \in Saved /\ peer \in BOOLEAN
        /\ TypeInv' /\ disk' \in Saved /\ renewing \in BOOLEAN
        /\ ~renewing => (peer <=> mach.state # "disabled") /\ (~peer => applied = None)
    BY TypeFacts, TypeStep DEF BoxInv, PeerTrue, NoBoxNoLimit, TypeInv, TypeOK, Saved
  <1>. SUFFICES ASSUME ~renewing' PROVE BoxInv'
    BY <1>0 DEF BoxInv, PeerTrue, NoBoxNoLimit
  <1>1. ASSUME peer' <=> mach'.state # "disabled", ~peer' => applied' = None
        PROVE  BoxInv'
    BY <1>0, <1>1 DEF BoxInv, PeerTrue, NoBoxNoLimit
  <1>2. ASSUME NEW m \in Machines, Dated(m), apply(m), m.state = "disabled" <=> ~peer'
        PROVE  BoxInv'
    BY <1>1, <1>2, EvaluateFacts DEF apply
  <1>3. CASE \E ok \in BOOLEAN : Heartbeat(ok)
    <2>1. PICK ok \in BOOLEAN : Heartbeat(ok)
      BY <1>3
    <2>2. /\ evaluate(Beaten(ok)) \in Machines /\ Dated(evaluate(Beaten(ok)))
          /\ evaluate(Beaten(ok)).state = "disabled" <=> mach.state = "disabled"
      BY <1>0, BeatenFacts, EvaluateFacts
    <2>3. apply(evaluate(Beaten(ok))) /\ peer' = peer /\ renewing' = renewing
      BY <2>1 DEF Heartbeat, Beaten
    <2> QED BY <1>0, <1>2, <2>2, <2>3
  <1>4. CASE BoxWrites
    <2>1. PICK w \in Limits \union {None}, left \in Lefts : GridLimit(w, left)
      <3>1. \A d \in LimitTimes : d \in Nat /\ d <= MaxAge
        BY TimeAssumption, MaxAssumption
      <3>2. LimitTimes \union {Forever} \subseteq Lefts /\ None \in Lefts
        BY <3>1, MaxAssumption DEF Lefts
      <3> QED BY <1>4, <3>2 DEF BoxWrites
    <2> QED BY <1>0, <1>2, <2>1, LimitFacts DEF GridLimit
  <1>5. CASE \E w \in Limits : GridFailsafeLimit(w)
    <2>1. PICK w \in Limits : GridFailsafeLimit(w)
      BY <1>5
    <2>2. [mach EXCEPT !.failsafeW = w].state = mach.state
      BY <1>0 DEF Machines
    <2> QED BY <1>0, <1>2, <2>1, <2>2, WrittenFacts DEF GridFailsafeLimit
  <1>6. CASE \E d \in Durations : GridFailsafeDuration(d)
    BY <1>0, <1>1, <1>6 DEF GridFailsafeDuration, Machines
  <1>7. CASE OtherEvent \/ Timer
    BY <1>0, <1>2, <1>7 DEF OtherEvent, Timer
  <1>8. CASE Tick
    <2>1. mach' = Aged /\ UNCHANGED <<applied, peer, renewing>>
      BY <1>8 DEF Tick, Aged
    <2> QED BY <1>0, <1>1, <2>1, AgedFacts
  <1>9. CASE ChildExit \/ Stop \/ StopDone
    BY <1>0, <1>1, <1>9 DEF ChildExit, Stop, StopDone
  <1>10. CASE Start \/ StartAgain \/ Restart
    <2>1. /\ mach' = Started(disk') /\ peer' = peer
          /\ (renewing' = renewing /\ applied' = applied) \/ applied' = None
      BY <1>10 DEF Start, StartAgain, Restart
    <2> QED BY <1>0, <1>1, <2>1, StartedFacts
  <1>11. CASE Renewed \/ \E on \in BOOLEAN : PeerChanged(on)
    <2>1. peer' \in BOOLEAN /\ apply(setEnabled(NewMachine, peer'))
      BY <1>0, <1>11, PairingFacts DEF Renew
    <2>2. /\ setEnabled(NewMachine, peer') \in Machines /\ Dated(setEnabled(NewMachine, peer'))
          /\ setEnabled(NewMachine, peer').state = IF peer' THEN "init" ELSE "disabled"
      BY <2>1, NewMachineFacts
    <2> QED BY <1>2, <2>1, <2>2
  <1>12. CASE UNCHANGED vars
    BY <1>0, <1>1, <1>12 DEF vars
  <1> QED BY <1>3, <1>4, <1>5, <1>6, <1>7, <1>8, <1>9, <1>10, <1>11, <1>12 DEF Next

LEMMA BoxInit == Init => BoxInv
  <1>. SUFFICES ASSUME Init PROVE BoxInv
    OBVIOUS
  <1>1. peer \in BOOLEAN /\ mach.state = (IF peer THEN "init" ELSE "disabled") /\ applied = None
    BY NewMachineFacts DEF Init
  <1> QED BY <1>1, TypeInit DEF BoxInv, PeerTrue, NoBoxNoLimit

(* Without a paired control box there is never a limit or a failsafe,       *)
(* whatever the file and the helper process still know (setEnabled before   *)
(* restore, the new machines of reload), once reload() is through.          *)
THEOREM NoBoxIsFree == Spec => []NoBoxNoLimit
  <1>1. BoxInv => NoBoxNoLimit
    BY DEF BoxInv
  <1> QED BY <1>1, BoxInit, BoxStep, PTL DEF Spec

-----------------------------------------------------------------------------
(* A step that ends a failsafe early is a write, a pairing or a start.      *)
LEMMA HeldStep ==
  ASSUME TypeInv, Next, mach.state = "failsafe", mach'.state # "failsafe",
         ~BoxWrites, ~Restart, ~Start, ~StartAgain, ~Renewed,
         ~\E on \in BOOLEAN : PeerChanged(on)
  PROVE  mach.failsafeAge >= mach.dur
  <1>0. mach \in Machines /\ Dated(mach)
    BY TypeFacts
  <1>1. mach.failsafeAge \in Int /\ mach.dur \in Int
    <2>1. mach.failsafeAge \in Ages /\ mach.dur \in Durations \union {OwnDur}
      BY <1>0 DEF Machines, Dated
    <2>2. Ages \subseteq Int /\ Durations \union {OwnDur} \subseteq Int
      BY MaxAssumption, TimeAssumption DEF Ages
    <2> QED BY <2>1, <2>2
  <1>. SUFFICES ASSUME mach.failsafeAge < mach.dur PROVE FALSE
    BY <1>1
  <1>2. CASE \E ok \in BOOLEAN : Heartbeat(ok)
    <2>1. PICK ok \in BOOLEAN : Heartbeat(ok)
      BY <1>2
    <2>2. mach' = evaluate(evaluate(Beaten(ok)))
      BY <2>1 DEF Heartbeat, Beaten, apply
    <2>3. /\ evaluate(Beaten(ok)) \in Machines /\ Dated(evaluate(Beaten(ok)))
          /\ evaluate(Beaten(ok)).state = "failsafe"
          /\ evaluate(Beaten(ok)).failsafeAge = mach.failsafeAge
          /\ evaluate(Beaten(ok)).dur = mach.dur
      BY <1>0, BeatenFacts, EvaluateFacts
    <2> QED BY <2>2, <2>3, EvaluateFacts
  <1>3. CASE \E w \in Limits : GridFailsafeLimit(w)
    <2>1. PICK w \in Limits : GridFailsafeLimit(w)
      BY <1>3
    <2>. DEFINE n == [mach EXCEPT !.failsafeW = w]
    <2>2. /\ n \in Machines /\ Dated(n) /\ n.state = "failsafe"
          /\ n.failsafeAge = mach.failsafeAge /\ n.dur = mach.dur
      BY <1>0, WrittenFacts DEF Machines
    <2>3. mach' = evaluate(n)
      BY <2>1 DEF GridFailsafeLimit, apply
    <2>. HIDE DEF n
    <2> QED BY <2>2, <2>3, EvaluateFacts
  <1>4. CASE \E d \in Durations : GridFailsafeDuration(d)
    BY <1>0, <1>4 DEF GridFailsafeDuration, Machines
  <1>5. CASE OtherEvent \/ Timer
    BY <1>0, <1>5, EvaluateFacts DEF OtherEvent, Timer, apply
  <1>6. CASE Tick
    BY <1>0, <1>6, AgedFacts DEF Tick, Aged
  <1>7. CASE ChildExit \/ Stop \/ StopDone
    BY <1>7 DEF ChildExit, Stop, StopDone
  <1> QED BY <1>2, <1>3, <1>4, <1>5, <1>6, <1>7 DEF Next

(* A failsafe lasts for its duration unless the control box writes a limit, *)
(* is paired anew, or the machine starts again (evaluate, case 'failsafe'). *)
THEOREM FailsafeIsHeld == Spec => FailsafeHeld
  <1>1. TypeInv /\ [Next]_vars =>
          [ (mach.state = "failsafe" /\ mach'.state # "failsafe") =>
              \/ mach.failsafeAge >= mach.dur
              \/ BoxWrites \/ Restart \/ Start \/ StartAgain
              \/ Renewed \/ \E on \in BOOLEAN : PeerChanged(on) ]_vars
    BY HeldStep
  <1> QED BY <1>1, TypeInit, TypeStep, PTL DEF Spec, FailsafeHeld

-----------------------------------------------------------------------------
(* The file d is the one of machine m, but for a failsafe that is over.     *)
Matches(d, m) ==
  /\ d.failsafeW = m.failsafeW /\ d.dur = m.dur
  /\ d.limitW = m.limitW /\ d.left = m.left
  /\ (m.state # "disabled" /\ d.failsafeAge # None /\ d.failsafeAge < d.dur) =>
        m.state = "failsafe" /\ m.failsafeAge = d.failsafeAge

FileInv == BoxInv /\ FileTrue

(* A machine matches what is saved of it.                                   *)
LEMMA MatchSaved ==
  ASSUME NEW m \in Machines
  PROVE  Matches(toJSON(m), m)
  BY SavedFacts DEF Matches

(* An evaluation leaves a failsafe of the file in force.                    *)
LEMMA MatchEvaluated ==
  ASSUME NEW d, NEW m \in Machines, Dated(m), Matches(d, m)
  PROVE  Matches(d, evaluate(m))
  BY EvaluateFacts DEF Matches

LEMMA FileStep ==
  ASSUME FileInv, [Next]_vars
  PROVE  FileInv'
  <1>0. /\ mach \in Machines /\ Dated(mach) /\ disk \in Saved /\ lost \in BOOLEAN
        /\ BoxInv' /\ (~lost => Matches(disk, mach))
        /\ peer \in BOOLEAN /\ renewing \in BOOLEAN /\ disk' \in Saved
    BY TypeFacts, BoxStep DEF FileInv, BoxInv, FileTrue, Matches, TypeInv, TypeOK, Saved
  <1>1. ASSUME ~lost' => Matches(disk', mach')
        PROVE  FileInv'
    BY <1>0, <1>1 DEF FileInv, FileTrue, Matches
  <1>2. ASSUME NEW m \in Machines, Dated(m), saveGridState(m), apply(m)
        PROVE  FileInv'
    <2>1. ~lost' => disk' = toJSON(m)
      BY <1>2 DEF saveGridState
    <2> QED BY <1>1, <1>2, <2>1, MatchSaved, MatchEvaluated DEF apply
  <1>3. CASE \E ok \in BOOLEAN : Heartbeat(ok)
    <2>1. PICK ok \in BOOLEAN : Heartbeat(ok)
      BY <1>3
    <2>2. mach' = evaluate(evaluate(Beaten(ok))) /\ UNCHANGED <<disk, lost>>
      BY <2>1 DEF Heartbeat, Beaten, apply
    <2>3. ~lost => Matches(disk, Beaten(ok))
      BY <1>0, BeatenFacts DEF Matches
    <2>4. evaluate(Beaten(ok)) \in Machines /\ Dated(evaluate(Beaten(ok)))
      BY <1>0, BeatenFacts, EvaluateFacts
    <2> QED BY <1>0, <1>1, <2>2, <2>3, <2>4, BeatenFacts, MatchEvaluated
  <1>4. CASE BoxWrites
    <2>1. PICK w \in Limits \union {None}, left \in Lefts : GridLimit(w, left)
      <3>1. \A d \in LimitTimes : d \in Nat /\ d <= MaxAge
        BY TimeAssumption, MaxAssumption
      <3>2. LimitTimes \union {Forever} \subseteq Lefts /\ None \in Lefts
        BY <3>1, MaxAssumption DEF Lefts
      <3> QED BY <1>4, <3>2 DEF BoxWrites
    <2> QED BY <1>0, <1>2, <2>1, LimitFacts DEF GridLimit
  <1>5. CASE \E w \in Limits : GridFailsafeLimit(w)
    BY <1>0, <1>2, <1>5, WrittenFacts DEF GridFailsafeLimit
  <1>6. CASE \E d \in Durations : GridFailsafeDuration(d)
    <2>1. PICK d \in Durations : GridFailsafeDuration(d)
      BY <1>6
    <2>2. mach' \in Machines /\ saveGridState(mach')
      BY <1>0, <2>1, WrittenFacts DEF GridFailsafeDuration
    <2>3. ~lost' => disk' = toJSON(mach')
      BY <2>2 DEF saveGridState
    <2> QED BY <1>1, <2>2, <2>3, MatchSaved
  <1>7. CASE OtherEvent
    <2>1. CASE UNCHANGED <<disk, lost>>
      BY <1>0, <1>1, <1>7, <2>1, MatchEvaluated DEF OtherEvent, apply
    <2> QED BY <1>0, <1>2, <1>7, <2>1 DEF OtherEvent
  <1>8. CASE Timer
    <2>1. mach' = evaluate(mach) /\ evaluate(mach) \in Machines
      BY <1>0, <1>8, EvaluateFacts DEF Timer, apply
    <2>2. CASE UNCHANGED <<disk, lost>>
      BY <1>0, <1>1, <2>1, <2>2, MatchEvaluated
    <2>3. CASE saveGridState(evaluate(mach))
      <3>1. ~lost' => disk' = toJSON(mach')
        BY <2>1, <2>3 DEF saveGridState
      <3> QED BY <1>1, <2>1, <3>1, MatchSaved
    <2> QED BY <1>8, <2>2, <2>3 DEF Timer
  <1>9. CASE Tick
    <2>. SUFFICES ASSUME ~lost PROVE Matches(disk', mach')
      BY <1>1, <1>9 DEF Tick
    <2>1. mach' = Aged
      BY <1>9 DEF Tick, Aged
    <2>2. disk' = [disk EXCEPT !.failsafeAge = Older(@), !.left = Shorter(@)]
      BY <1>9 DEF Tick
    <2>3. /\ disk'.failsafeW = disk.failsafeW /\ disk'.dur = disk.dur
          /\ disk'.limitW = disk.limitW /\ disk'.left = Shorter(disk.left)
          /\ disk'.failsafeAge = Older(disk.failsafeAge)
      BY <1>0, <2>2 DEF Saved
    <2>4. (Older(disk.failsafeAge) # None /\ Older(disk.failsafeAge) < disk.dur)
             => disk.failsafeAge # None /\ disk.failsafeAge < disk.dur
      <3>1. disk.failsafeAge \in Ages \union {None} /\ disk.dur \in Durations \union {OwnDur}
        BY <1>0 DEF Saved
      <3>2. Ages \subseteq Int /\ Durations \union {OwnDur} \subseteq Int /\ MaxAge \in Int
        BY MaxAssumption, TimeAssumption DEF Ages
      <3>3. CASE disk.failsafeAge = None
        BY <3>3 DEF Older
      <3>4. CASE disk.failsafeAge # None
        <4>1. disk.failsafeAge \in Int /\ disk.dur \in Int
          BY <3>1, <3>2, <3>4
        <4>2. Older(disk.failsafeAge) \in Int /\ Older(disk.failsafeAge) >= disk.failsafeAge
          BY <3>4, <4>1 DEF Older
        <4> QED BY <3>4, <4>1, <4>2
      <3> QED BY <3>3, <3>4
    <2> QED BY <1>0, <2>1, <2>3, <2>4, AgedFacts DEF Matches
  <1>10. CASE ChildExit \/ StopDone
    BY <1>0, <1>1, <1>10 DEF ChildExit, StopDone
  <1>11. CASE Stop
    <2>1. (~lost' => disk' = toJSON(mach)) /\ mach' = mach
      BY <1>11 DEF Stop, saveGridState
    <2> QED BY <1>0, <1>1, <2>1, MatchSaved
  <1>12. CASE Start \/ StartAgain \/ Restart
    <2>1. mach' = Started(disk')
      BY <1>12 DEF Start, StartAgain, Restart
    <2>2. ~lost' => Matches(disk', mach)
      BY <1>0, <1>12, MatchSaved DEF Start, StartAgain, Restart, saveGridState
    <2> QED BY <1>0, <1>1, <2>1, <2>2, StartedFacts DEF Matches
  <1>13. CASE Renewed \/ \E on \in BOOLEAN : PeerChanged(on)
    <2>1. CASE UNCHANGED <<mach, disk, lost>>
      BY <1>0, <1>1, <2>1
    <2>2. CASE Renew(peer')
      BY <1>0, <1>2, <1>13, <2>2, PairingFacts, NewMachineFacts DEF Renew
    <2> QED BY <1>0, <1>13, <2>1, <2>2, PairingFacts
  <1>14. CASE UNCHANGED vars
    BY <1>0, <1>1, <1>14 DEF vars
  <1> QED BY <1>3, <1>4, <1>5, <1>6, <1>7, <1>8, <1>9, <1>10, <1>11, <1>12, <1>13, <1>14 DEF Next

LEMMA FileInit == Init => FileInv
  <1>. SUFFICES ASSUME Init PROVE FileInv
    OBVIOUS
  <1>1. /\ mach.failsafeW = Own /\ mach.dur = OwnDur /\ mach.limitW = None /\ mach.left = None
    BY NewMachineFacts DEF Init
  <1>2. /\ disk.failsafeW = Own /\ disk.dur = OwnDur /\ disk.limitW = None /\ disk.left = None
        /\ disk.failsafeAge = None
    BY DEF Init, toJSON, NewMachine
  <1> QED BY <1>1, <1>2, BoxInit DEF FileInv, FileTrue

(* As long as its last write succeeded, the file holds the limit and the    *)
(* failsafe values in force, and no failsafe that has been ended.           *)
THEOREM FileIsTrue == Spec => []FileTrue
  <1>1. FileInv => FileTrue
    BY DEF FileInv
  <1> QED BY <1>1, FileInit, FileStep, PTL DEF Spec

-----------------------------------------------------------------------------
(* While the helper runs, a clock of the machine is as old as the silence,  *)
(* and the timer stops it at the timeout.                                   *)
Clocks(m, q) ==
  /\ m.hbOk => q = 0
  /\ m.state = "init" => q <= m.initAge /\ m.initAge <= Timeout
  /\ m.state \in Controlled => m.hbAge # None /\ q <= m.hbAge /\ m.hbAge <= Timeout

ClockInv == BoxInv /\ (proc = "up" => Clocks(mach, quiet))

(* Ages are numbers.                                                        *)
LEMMA AgeFacts ==
  /\ Timeout \in Int /\ Timeout >= 1 /\ MaxAge \in Int /\ Timeout <= MaxAge
  /\ \A age \in Ages : age \in Int /\ age >= 0 /\ age # None
  BY MaxAssumption, TimeAssumption, NoneAssumption DEF Ages

(* An evaluation keeps the clocks.                                          *)
LEMMA ClocksEvaluated ==
  ASSUME NEW m \in Machines, Dated(m), NEW q \in Ages, Clocks(m, q)
  PROVE  Clocks(evaluate(m), q)
  <1>. DEFINE e == evaluate(m)
  <1>1. /\ e.initAge = m.initAge /\ e.hbOk = m.hbOk
        /\ e.hbAge = IF m.hbOk THEN 0 ELSE m.hbAge
        /\ e.state \in Controlled => m.hbOk \/ m.state \in Controlled
        /\ e.state = "init" => m.state = "init"
    BY EvaluateFacts
  <1>. HIDE DEF e
  <1>2. e.state \in Controlled => e.hbAge # None /\ q <= e.hbAge /\ e.hbAge <= Timeout
    <2>1. CASE m.hbOk
      BY <1>1, <2>1, AgeFacts, NoneAssumption DEF Clocks
    <2>2. CASE ~m.hbOk
      BY <1>1, <2>2 DEF Clocks
    <2> QED BY <2>1, <2>2
  <1>3. Clocks(e, q)
    BY <1>1, <1>2 DEF Clocks
  <1> QED BY <1>3 DEF e

(* And so does a heartbeat that is reported.                                *)
LEMMA BeatenClocks ==
  ASSUME mach \in Machines, Dated(mach), NEW q \in Ages, Clocks(mach, q), NEW ok \in BOOLEAN
  PROVE  Clocks(Beaten(ok), IF ok THEN 0 ELSE q)
  <1>1. /\ Beaten(ok).hbOk = ok /\ Beaten(ok).hbAge = (IF ok THEN 0 ELSE mach.hbAge)
        /\ Beaten(ok).state = mach.state /\ Beaten(ok).initAge = mach.initAge
    BY BeatenFacts
  <1>2. mach.initAge \in Ages
    BY DEF Machines
  <1>3. CASE ok
    BY <1>1, <1>2, <1>3, AgeFacts, NoneAssumption DEF Clocks
  <1>4. CASE ~ok
    BY <1>1, <1>4 DEF Clocks
  <1> QED BY <1>3, <1>4

LEMMA ClockStep ==
  ASSUME ClockInv, [Next]_vars
  PROVE  ClockInv'
  <1>0. /\ mach \in Machines /\ Dated(mach) /\ disk \in Saved /\ quiet \in Ages
        /\ peer \in BOOLEAN /\ renewing \in BOOLEAN /\ BoxInv' /\ disk' \in Saved /\ 0 \in Ages
        /\ (proc = "up" => Clocks(mach, quiet))
    BY TypeFacts, BoxStep, ConstantFacts DEF ClockInv, BoxInv, TypeInv, TypeOK, Saved
  <1>. SUFFICES ASSUME proc' = "up" PROVE Clocks(mach', quiet')
    BY <1>0 DEF ClockInv
  <1>1. ASSUME NEW m \in Machines, NEW q \in Ages, m.hbOk = FALSE, m.initAge = 0, q = 0,
               m.state \notin Controlled
        PROVE  Clocks(m, q)
    BY <1>1, AgeFacts DEF Clocks
  <1>2. CASE \E ok \in BOOLEAN : Heartbeat(ok)
    <2>1. PICK ok \in BOOLEAN : Heartbeat(ok)
      BY <1>2
    <2>2. /\ mach' = evaluate(evaluate(Beaten(ok))) /\ proc = "up"
          /\ quiet' = IF ok THEN 0 ELSE quiet
      BY <2>1 DEF Heartbeat, Beaten, apply
    <2>3. quiet' \in Ages
      BY <1>0, <2>2
    <2>4. Beaten(ok) \in Machines /\ Dated(Beaten(ok))
      BY <1>0, BeatenFacts
    <2>5. Clocks(Beaten(ok), quiet')
      BY <1>0, <2>2, BeatenClocks
    <2>6. evaluate(Beaten(ok)) \in Machines /\ Dated(evaluate(Beaten(ok)))
      BY <2>4, EvaluateFacts
    <2> QED BY <2>2, <2>3, <2>4, <2>5, <2>6, ClocksEvaluated
  <1>3. CASE BoxWrites
    <2>1. PICK w \in Limits \union {None}, left \in Lefts : GridLimit(w, left)
      <3>1. \A d \in LimitTimes : d \in Nat /\ d <= MaxAge
        BY TimeAssumption, MaxAssumption
      <3>2. LimitTimes \union {Forever} \subseteq Lefts /\ None \in Lefts
        BY <3>1, MaxAssumption DEF Lefts
      <3> QED BY <1>3, <3>2 DEF BoxWrites
    <2>. DEFINE n == onLimit(mach, w, left)
    <2>2. mach' = evaluate(n) /\ quiet' = 0
      BY <2>1 DEF GridLimit, apply
    <2>3. /\ n \in Machines /\ Dated(n) /\ n.hbAge = 0
          /\ n.state \in Controlled \union {"disabled"}
      BY <1>0, LimitFacts
    <2>. HIDE DEF n
    <2>4. n.state # "init"
      BY <2>3 DEF Controlled
    <2>5. Clocks(n, 0)
      BY <2>3, <2>4, AgeFacts, NoneAssumption DEF Clocks
    <2> QED BY <1>0, <2>2, <2>3, <2>5, ClocksEvaluated
  <1>4. CASE \E w \in Limits : GridFailsafeLimit(w)
    <2>1. PICK w \in Limits : GridFailsafeLimit(w)
      BY <1>4
    <2>. DEFINE n == [mach EXCEPT !.failsafeW = w]
    <2>2. mach' = evaluate(n) /\ quiet' = quiet /\ proc = "up"
      BY <2>1 DEF GridFailsafeLimit, apply
    <2>3. /\ n \in Machines /\ Dated(n) /\ n.state = mach.state /\ n.hbOk = mach.hbOk
          /\ n.initAge = mach.initAge /\ n.hbAge = mach.hbAge
      BY <1>0, WrittenFacts DEF Machines
    <2>. HIDE DEF n
    <2> QED BY <1>0, <2>2, <2>3, ClocksEvaluated DEF Clocks
  <1>5. CASE \E d \in Durations : GridFailsafeDuration(d)
    BY <1>0, <1>5 DEF GridFailsafeDuration, Clocks, Machines
  <1>6. CASE OtherEvent \/ Timer
    BY <1>0, <1>6, ClocksEvaluated DEF OtherEvent, Timer, apply
  <1>7. CASE Tick
    <2>1. /\ mach' = Aged /\ proc = "up" /\ evaluate(mach) = mach
          /\ quiet' = IF mach.hbOk THEN 0 ELSE Older(quiet)
      BY <1>7 DEF Tick, Aged, Ticking
    <2>2. /\ mach.state = "init" => mach.initAge < Timeout
          /\ (mach.state \in Controlled /\ ~mach.hbOk) => mach.hbAge < Timeout
          /\ mach.hbOk => mach.hbAge = 0
      BY <1>0, <2>1, EvaluateFacts
    <2>3. /\ mach.initAge \in Ages /\ mach.hbAge \in Ages \union {None}
      BY <1>0 DEF Machines
    <2>4. \A age \in Ages : age < Timeout => Older(age) = age + 1
      BY AgeFacts DEF Older
    <2>5. /\ Aged.state = mach.state /\ Aged.hbOk = mach.hbOk
          /\ Aged.initAge = (IF mach.state = "init" THEN Older(mach.initAge) ELSE 0)
          /\ Aged.hbAge = Older(mach.hbAge)
      BY <1>0, AgedFacts
    <2>6. mach.hbOk => quiet' = 0
      BY <2>1
    <2>7. mach.state = "init" => quiet' <= Aged.initAge /\ Aged.initAge <= Timeout
      <3>. SUFFICES ASSUME mach.state = "init"
                    PROVE  quiet' <= Aged.initAge /\ Aged.initAge <= Timeout
        OBVIOUS
      <3>1. quiet <= mach.initAge /\ mach.initAge < Timeout
        BY <1>0, <2>1, <2>2 DEF Clocks
      <3>2. Aged.initAge = mach.initAge + 1 /\ Older(quiet) = quiet + 1
        BY <1>0, <2>3, <2>4, <2>5, <3>1, AgeFacts
      <3> QED BY <1>0, <2>1, <2>3, <3>1, <3>2, AgeFacts
    <2>8. mach.state \in Controlled =>
            Aged.hbAge # None /\ quiet' <= Aged.hbAge /\ Aged.hbAge <= Timeout
      <3>. SUFFICES ASSUME mach.state \in Controlled
                    PROVE  Aged.hbAge # None /\ quiet' <= Aged.hbAge /\ Aged.hbAge <= Timeout
        OBVIOUS
      <3>1. mach.hbAge \in Ages /\ quiet <= mach.hbAge /\ mach.hbAge < Timeout
        BY <1>0, <2>1, <2>2, <2>3, AgeFacts DEF Clocks
      <3>2. Aged.hbAge = mach.hbAge + 1 /\ Older(quiet) = quiet + 1
        BY <1>0, <2>4, <2>5, <3>1, AgeFacts
      <3>3. Aged.hbAge # None
        BY <3>1, <3>2, AgeFacts, NoneAssumption
      <3> QED BY <1>0, <2>1, <3>1, <3>2, <3>3, AgeFacts
    <2> QED BY <2>1, <2>5, <2>6, <2>7, <2>8 DEF Clocks
  <1>8. CASE ChildExit \/ Stop \/ StopDone
    BY <1>8 DEF ChildExit, Stop, StopDone, Ticking
  <1>9. CASE Start \/ StartAgain \/ Restart
    <2>1. mach' = Started(disk') /\ quiet' = 0
      BY <1>9 DEF Start, StartAgain, Restart
    <2>2. /\ Started(disk') \in Machines /\ Started(disk').hbOk = FALSE
          /\ Started(disk').initAge = 0 /\ Started(disk').state \notin Controlled
      BY <1>0, StartedFacts DEF Controlled
    <2> QED BY <1>0, <1>1, <2>1, <2>2
  <1>10. CASE Renewed \/ \E on \in BOOLEAN : PeerChanged(on)
    <2>1. CASE UNCHANGED <<mach, quiet>>
      BY <1>0, <1>10, <2>1, PairingFacts
    <2>2. CASE Renew(peer')
      <3>1. peer' \in BOOLEAN /\ mach' = evaluate(setEnabled(NewMachine, peer')) /\ quiet' = 0
        BY <1>0, <1>10, <2>2, PairingFacts DEF Renew, apply
      <3>2. /\ setEnabled(NewMachine, peer') \in Machines /\ Dated(setEnabled(NewMachine, peer'))
            /\ setEnabled(NewMachine, peer').hbOk = FALSE
            /\ setEnabled(NewMachine, peer').initAge = 0
            /\ setEnabled(NewMachine, peer').state \notin Controlled
        BY <3>1, NewMachineFacts DEF Controlled
      <3> QED BY <1>0, <1>1, <3>1, <3>2, ClocksEvaluated
    <2> QED BY <1>0, <1>10, <2>1, <2>2, PairingFacts
  <1>11. CASE UNCHANGED vars
    BY <1>0, <1>11 DEF vars
  <1> QED BY <1>2, <1>3, <1>4, <1>5, <1>6, <1>7, <1>8, <1>9, <1>10, <1>11 DEF Next

LEMMA ClockInit == Init => ClockInv
  <1>. SUFFICES ASSUME Init PROVE Clocks(mach, quiet)
    BY BoxInit DEF ClockInv
  <1>1. mach.hbOk = FALSE /\ mach.initAge = 0 /\ mach.state \notin Controlled /\ quiet = 0
    BY NewMachineFacts DEF Init, Controlled
  <1> QED BY <1>1, AgeFacts DEF Clocks

-----------------------------------------------------------------------------
(* The end of a failsafe.  It begins when the timeout is over, so that its  *)
(* age is the rest of the silence; and it is never older than a duration.   *)
Ending(m, q) ==
  m.state = "failsafe" =>
    /\ q <= Timeout + m.failsafeAge
    /\ \E d \in Durations \union {OwnDur} : m.failsafeAge <= d

EndInv ==
  /\ ClockInv
  /\ proc = "up" => Ending(mach, quiet) /\ (Outlasted(quiet) => applied = None)

LEMMA DurationFacts ==
  /\ \A d \in Durations \union {OwnDur} : d \in Nat /\ d >= 1 /\ d <= MaxAge
  /\ ~Outlasted(0)
  BY TimeAssumption, MaxAssumption DEF Outlasted

(* A failsafe goes on, or begins where the timeout can be over.             *)
LEMMA FailsafeFacts ==
  ASSUME NEW m \in Machines, Dated(m), evaluate(m).state = "failsafe"
  PROVE  \/ /\ m.state = "failsafe" /\ m.failsafeAge \in Ages /\ m.failsafeAge < m.dur
            /\ evaluate(m).failsafeAge = m.failsafeAge
         \/ /\ m.state \in {"init"} \union Controlled /\ ~m.hbOk
            /\ evaluate(m).failsafeAge = 0
  <1>. DEFINE n == [m EXCEPT !.hbAge = IF m.hbOk THEN 0 ELSE @]
  <1>1. /\ n.state = m.state /\ n.failsafeAge = m.failsafeAge /\ n.dur = m.dur
        /\ n.hbOk = m.hbOk /\ n \in Machines
    BY ConstantFacts DEF Machines
  <1>2. evaluate(m) = go(n, nextState(n))
    BY DEF evaluate
  <1>3. nextState(n) = "failsafe" =>
          \/ n.state \in {"init"} \union Controlled /\ ~n.hbOk
          \/ n.state = "failsafe" /\ n.failsafeAge < n.dur
    BY DEF nextState, afterFailsafe, controlledState, heartbeatLost, Controlled
  <1>4. go(n, nextState(n)).state = nextState(n)
    BY <1>1 DEF go, Machines
  <1>. HIDE DEF n
  <1>5. nextState(n) = "failsafe"
    BY <1>2, <1>4
  <1>6. CASE n.state = "failsafe"
    <2>1. go(n, nextState(n)) = n
      BY <1>5, <1>6 DEF go
    <2>2. m.failsafeAge \in Ages
      BY <1>1, <1>6 DEF Dated, Machines
    <2> QED BY <1>1, <1>2, <1>3, <1>5, <1>6, <2>1, <2>2 DEF Controlled
  <1>7. CASE n.state # "failsafe"
    <2>1. go(n, nextState(n)).failsafeAge = 0
      BY <1>1, <1>5, <1>7 DEF go, Machines
    <2> QED BY <1>1, <1>2, <1>3, <1>5, <1>7, <2>1
  <1> QED BY <1>6, <1>7

(* A new machine waits in "init".                                           *)
LEMMA FreshFacts ==
  ASSUME NEW m \in Machines, Dated(m), m.state \in {"init", "disabled"}, m.initAge = 0, ~m.hbOk
  PROVE  evaluate(m).state = m.state
  <1>. DEFINE n == [m EXCEPT !.hbAge = IF m.hbOk THEN 0 ELSE @]
  <1>1. /\ n.state = m.state /\ n.initAge = 0 /\ ~n.hbOk
    BY DEF Machines
  <1>2. evaluate(m) = go(n, nextState(n))
    BY DEF evaluate
  <1>. HIDE DEF n
  <1>3. nextState(n) = n.state
    BY <1>1, AgeFacts DEF nextState
  <1> QED BY <1>1, <1>2, <1>3 DEF go

(* An evaluation keeps it.                                                  *)
LEMMA EndingEvaluated ==
  ASSUME NEW m \in Machines, Dated(m), NEW q \in Ages, Clocks(m, q), Ending(m, q)
  PROVE  Ending(evaluate(m), q)
  <1>. SUFFICES ASSUME evaluate(m).state = "failsafe"
                PROVE  /\ q <= Timeout + evaluate(m).failsafeAge
                       /\ \E d \in Durations \union {OwnDur} : evaluate(m).failsafeAge <= d
    BY DEF Ending
  <1>1. CASE m.state = "failsafe" /\ evaluate(m).failsafeAge = m.failsafeAge
    BY <1>1 DEF Ending
  <1>2. CASE m.state \in {"init"} \union Controlled /\ evaluate(m).failsafeAge = 0
    <2>1. q <= Timeout
      <3>1. m.initAge \in Ages /\ m.hbAge \in Ages \union {None}
        BY DEF Machines
      <3> QED BY <1>2, <3>1, AgeFacts DEF Clocks
    <2>2. OwnDur >= 0 /\ OwnDur \in Durations \union {OwnDur}
      BY DurationFacts
    <2> QED BY <1>2, <2>1, <2>2, AgeFacts
  <1> QED BY <1>1, <1>2, FailsafeFacts

(* When the longest failsafe must be over nothing is limited.               *)
LEMMA OutlastedFacts ==
  ASSUME NEW m \in Machines, Dated(m), NEW q \in Ages, Clocks(m, q), Ending(m, q), Outlasted(q)
  PROVE  effective(m) = None
  <1>1. q > Timeout
    BY DurationFacts, AgeFacts DEF Outlasted
  <1>2. m.state # "limited"
    <2>1. m.hbAge \in Ages \union {None}
      BY DEF Machines
    <2> QED BY <1>1, <2>1, AgeFacts DEF Clocks, Controlled
  <1>3. m.state # "failsafe"
    <2>. SUFFICES ASSUME m.state = "failsafe" PROVE FALSE
      OBVIOUS
    <2>1. m.failsafeAge \in Ages
      BY DEF Dated, Machines
    <2>2. PICK d \in Durations \union {OwnDur} : m.failsafeAge <= d
      BY DEF Ending
    <2>3. q <= Timeout + m.failsafeAge /\ q > Timeout + d
      BY DEF Ending, Outlasted
    <2> QED BY <2>1, <2>2, <2>3, AgeFacts, DurationFacts
  <1> QED BY <1>2, <1>3 DEF effective

LEMMA EndStep ==
  ASSUME EndInv, [Next]_vars
  PROVE  EndInv'
  <1>0. /\ mach \in Machines /\ Dated(mach) /\ disk \in Saved /\ quiet \in Ages
        /\ mach' \in Machines /\ Dated(mach)' /\ disk' \in Saved /\ quiet' \in Ages
        /\ peer \in BOOLEAN /\ renewing \in BOOLEAN /\ 0 \in Ages /\ ClockInv'
        /\ (proc = "up" => /\ Clocks(mach, quiet) /\ Ending(mach, quiet)
                           /\ Outlasted(quiet) => applied = None)
        /\ (proc' = "up" => Clocks(mach', quiet'))
    BY TypeFacts, ClockStep, ConstantFacts
       DEF EndInv, ClockInv, BoxInv, TypeInv, TypeOK, Saved, Machines
  <1>1. SUFFICES ASSUME proc' = "up"
                 PROVE  Ending(mach', quiet') /\ (Outlasted(quiet') => applied' = None)
    BY <1>0 DEF EndInv
  <1>2. ASSUME Ending(mach', quiet'), applied' = effective(mach')
        PROVE  Ending(mach', quiet') /\ (Outlasted(quiet') => applied' = None)
    BY <1>0, <1>1, <1>2, OutlastedFacts DEF Dated
  <1>3. ASSUME NEW m \in Machines, Dated(m), Clocks(m, quiet'), Ending(m, quiet'), apply(m)
        PROVE  Ending(mach', quiet') /\ (Outlasted(quiet') => applied' = None)
    <2>1. mach' = evaluate(m) /\ applied' = effective(mach')
      BY <1>3 DEF apply
    <2>2. Ending(evaluate(m), quiet')
      BY <1>0, <1>3, EndingEvaluated
    <2> QED BY <1>2, <2>1, <2>2
  <1>4. CASE \E ok \in BOOLEAN : Heartbeat(ok)
    <2>1. PICK ok \in BOOLEAN : Heartbeat(ok)
      BY <1>4
    <2>2. /\ apply(evaluate(Beaten(ok))) /\ proc = "up"
          /\ quiet' = IF ok THEN 0 ELSE quiet
      BY <1>1, <2>1 DEF Heartbeat, Beaten, apply
    <2>3. Beaten(ok) \in Machines /\ Dated(Beaten(ok))
      BY <1>0, BeatenFacts
    <2>4. Clocks(Beaten(ok), quiet')
      BY <1>0, <2>2, BeatenClocks
    <2>5. Ending(Beaten(ok), quiet')
      <3>1. /\ Beaten(ok).state = mach.state /\ Beaten(ok).failsafeAge = mach.failsafeAge
            /\ Ending(mach, quiet)
        BY <1>0, <2>2, BeatenFacts
      <3>2. mach.state = "failsafe" => mach.failsafeAge \in Ages
        BY <1>0 DEF Dated, Machines
      <3>3. quiet' <= quiet /\ quiet' \in Int /\ quiet \in Int
        BY <1>0, <2>2, AgeFacts
      <3> QED BY <3>1, <3>2, <3>3, AgeFacts DEF Ending
    <2>6. /\ evaluate(Beaten(ok)) \in Machines /\ Dated(evaluate(Beaten(ok)))
          /\ Clocks(evaluate(Beaten(ok)), quiet') /\ Ending(evaluate(Beaten(ok)), quiet')
      BY <1>0, <2>3, <2>4, <2>5, EvaluateFacts, ClocksEvaluated, EndingEvaluated
    <2> QED BY <1>3, <2>2, <2>6
  <1>5. CASE \/ BoxWrites \/ Start \/ StartAgain \/ Restart
             \/ (Renewed \/ \E on \in BOOLEAN : PeerChanged(on)) /\ Renew(peer')
    <2>1. quiet' = 0
      BY <1>5 DEF BoxWrites, GridLimit, Start, StartAgain, Restart, Renew
    <2>2. \E d \in Durations \union {OwnDur} : mach'.state = "failsafe" => mach'.failsafeAge <= d
      <3>1. CASE BoxWrites
        <4>1. PICK w \in Limits \union {None}, left \in Lefts : GridLimit(w, left)
          <5>1. \A d \in LimitTimes : d \in Nat /\ d <= MaxAge
            BY TimeAssumption, MaxAssumption
          <5>2. LimitTimes \union {Forever} \subseteq Lefts /\ None \in Lefts
            BY <5>1, MaxAssumption DEF Lefts
          <5> QED BY <3>1, <5>2 DEF BoxWrites
        <4>. DEFINE n == onLimit(mach, w, left)
        <4>2. mach' = evaluate(n)
          BY <4>1 DEF GridLimit, apply
        <4>3. n \in Machines /\ Dated(n) /\ n.state \in Controlled \union {"disabled"}
          BY <1>0, LimitFacts
        <4>. HIDE DEF n
        <4>4. mach'.state = "failsafe" => mach'.failsafeAge = 0
          BY <4>2, <4>3, FailsafeFacts DEF Controlled
        <4> QED BY <4>4, DurationFacts
      <3>2. CASE Start \/ StartAgain \/ Restart
        <4>1. mach' = Started(disk')
          BY <3>2 DEF Start, StartAgain, Restart
        <4>2. /\ mach'.state = "failsafe" =>
                   mach'.failsafeAge = disk'.failsafeAge /\ disk'.failsafeAge < disk'.dur
                   /\ disk'.failsafeAge # None
              /\ disk'.dur \in Durations \union {OwnDur}
              /\ disk'.failsafeAge \in Ages \union {None}
          BY <1>0, <4>1, StartedFacts DEF Saved
        <4> QED BY <4>2, AgeFacts, DurationFacts
      <3>3. CASE (Renewed \/ \E on \in BOOLEAN : PeerChanged(on)) /\ Renew(peer')
        <4>1. peer' \in BOOLEAN
          BY <1>0, <3>3, PairingFacts
        <4>2. mach' = evaluate(setEnabled(NewMachine, peer'))
          BY <3>3 DEF Renew, apply
        <4>3. /\ setEnabled(NewMachine, peer') \in Machines /\ Dated(setEnabled(NewMachine, peer'))
              /\ setEnabled(NewMachine, peer').state \in {"init", "disabled"}
          BY <4>1, NewMachineFacts
        <4>4. mach'.state = "failsafe" => mach'.failsafeAge = 0
          BY <4>2, <4>3, FailsafeFacts DEF Controlled
        <4> QED BY <4>4, DurationFacts
      <3> QED BY <1>5, <3>1, <3>2, <3>3
    <2>3. mach'.state = "failsafe" => mach'.failsafeAge \in Ages
      BY <1>0 DEF Dated, Machines
    <2> QED BY <2>1, <2>2, <2>3, AgeFacts, DurationFacts DEF Ending
  <1>6. CASE \E w \in Limits : GridFailsafeLimit(w)
    <2>1. PICK w \in Limits : GridFailsafeLimit(w)
      BY <1>6
    <2>. DEFINE n == [mach EXCEPT !.failsafeW = w]
    <2>2. apply(n) /\ quiet' = quiet /\ proc = "up"
      BY <1>1, <2>1 DEF GridFailsafeLimit
    <2>3. /\ n \in Machines /\ Dated(n) /\ n.state = mach.state /\ n.hbOk = mach.hbOk
          /\ n.initAge = mach.initAge /\ n.hbAge = mach.hbAge
          /\ n.failsafeAge = mach.failsafeAge
      BY <1>0, WrittenFacts DEF Machines
    <2>. HIDE DEF n
    <2>4. Clocks(n, quiet') /\ Ending(n, quiet')
      BY <1>0, <2>2, <2>3 DEF Clocks, Ending
    <2> QED BY <1>3, <2>2, <2>3, <2>4
  <1>7. CASE \E d \in Durations : GridFailsafeDuration(d)
    <2>1. /\ mach'.state = mach.state /\ mach'.failsafeAge = mach.failsafeAge
          /\ proc = "up" /\ UNCHANGED <<applied, quiet>>
      BY <1>0, <1>1, <1>7 DEF GridFailsafeDuration, Machines
    <2> QED BY <1>0, <2>1 DEF Ending
  <1>8. CASE OtherEvent \/ Timer
    <2>1. apply(mach) /\ quiet' = quiet /\ proc = "up"
      BY <1>1, <1>8 DEF OtherEvent, Timer
    <2> QED BY <1>0, <1>3, <2>1
  <1>9. CASE Tick
    <2>1. /\ mach' = Aged /\ proc = "up" /\ evaluate(mach) = mach
          /\ applied' = effective(mach)
          /\ quiet' = IF mach.hbOk THEN 0 ELSE Older(quiet)
      BY <1>1, <1>9 DEF Tick, Aged, Ticking
    <2>2. /\ mach'.state = mach.state /\ mach'.limitW = mach.limitW
          /\ mach'.failsafeW = mach.failsafeW /\ mach'.failsafeAge = Older(mach.failsafeAge)
      BY <1>0, <2>1, AgedFacts
    <2>3. effective(mach') = effective(mach)
      BY <2>2 DEF effective
    <2>4. ASSUME mach.state = "failsafe" PROVE Ending(mach', quiet')
      <3>1. /\ mach.failsafeAge \in Ages /\ mach.failsafeAge < mach.dur
            /\ mach.dur \in Durations \union {OwnDur}
        BY <1>0, <2>1, <2>4, FailsafeFacts DEF Machines, Controlled
      <3>2. mach'.failsafeAge = mach.failsafeAge + 1 /\ mach'.failsafeAge <= mach.dur
        BY <2>2, <3>1, AgeFacts, DurationFacts DEF Older
      <3>3. quiet' <= quiet + 1
        BY <1>0, <2>1, AgeFacts DEF Older
      <3>4. quiet <= Timeout + mach.failsafeAge
        BY <1>0, <2>1, <2>4 DEF Ending
      <3> QED BY <1>0, <3>1, <3>2, <3>3, <3>4, AgeFacts DEF Ending
    <2>5. Ending(mach', quiet')
      BY <2>2, <2>4 DEF Ending
    <2> QED BY <1>2, <2>1, <2>3, <2>5
  <1>10. CASE ChildExit \/ Stop \/ StopDone
    BY <1>1, <1>10 DEF ChildExit, Stop, StopDone, Ticking
  <1>11. CASE UNCHANGED vars
    BY <1>0, <1>1, <1>11 DEF vars
  <1>12. CASE Renewed \/ \E on \in BOOLEAN : PeerChanged(on)
    <2>1. CASE UNCHANGED <<mach, applied, quiet>>
      BY <1>0, <1>1, <1>12, <2>1, PairingFacts
    <2> QED BY <1>0, <1>5, <1>12, <2>1, PairingFacts
  <1> QED BY <1>4, <1>5, <1>6, <1>7, <1>8, <1>9, <1>10, <1>11, <1>12 DEF Next

LEMMA EndInit == Init => EndInv
  <1>. SUFFICES ASSUME Init PROVE Ending(mach, quiet) /\ applied = None
    BY ClockInit DEF EndInv
  <1> QED BY NewMachineFacts DEF Init, Ending

(* A control box that has been silent for longer than the timeout has led   *)
(* to the failsafe or its end, after a start as well (heartbeatLost, the    *)
(* case 'init' of evaluate, and the timer); and when it has been silent for *)
(* the longest failsafe duration on top of that, nothing is limited.        *)
THEOREM SilenceLeadsToFailsafe == Spec => []SilenceIsFailsafe
  <1>1. EndInv => SilenceIsFailsafe
    <2>. SUFFICES ASSUME EndInv, proc = "up", peer, ~renewing, quiet > Timeout
                  PROVE  mach.state \in {"failsafe", "unlimited_autonomous"}
      BY DEF SilenceIsFailsafe, EndInv
    <2>1. mach \in Machines /\ quiet \in Ages /\ Clocks(mach, quiet) /\ mach.state # "disabled"
      BY TypeFacts DEF EndInv, ClockInv, BoxInv, PeerTrue
    <2>2. mach.state \in States /\ mach.initAge \in Ages /\ mach.hbAge \in Ages \union {None}
      BY <2>1 DEF Machines
    <2>3. mach.state # "init" /\ mach.state \notin Controlled
      BY <2>1, <2>2, AgeFacts DEF Clocks
    <2> QED BY <2>1, <2>2, <2>3 DEF States, Controlled
  <1> QED BY <1>1, EndInit, EndStep, PTL DEF Spec

-----------------------------------------------------------------------------
(* Restarts in a failsafe.                                                  *)

(* A failsafe that goes on is in the file.                                  *)
FailsafeSaved ==
  (~lost /\ mach.state = "failsafe" /\ mach.failsafeAge < mach.dur)
    => disk.failsafeAge = mach.failsafeAge

SavedInv == FileInv /\ FailsafeSaved

(* An evaluation of a failsafe goes on with it or leaves it; it does not    *)
(* begin another one.                                                       *)
LEMMA SameFailsafe ==
  ASSUME NEW m \in Machines, Dated(m), m.state = "failsafe"
  PROVE  /\ evaluate(m).state = "failsafe" =>
              evaluate(m).failsafeAge = m.failsafeAge /\ m.failsafeAge < m.dur
         /\ evaluate(m).state # "failsafe" => evaluate(evaluate(m)).state # "failsafe"
  <1>1. evaluate(m).state = "failsafe" =>
          evaluate(m).failsafeAge = m.failsafeAge /\ m.failsafeAge < m.dur
    BY FailsafeFacts DEF Controlled
  <1>2. ASSUME evaluate(m).state # "failsafe", evaluate(evaluate(m)).state = "failsafe"
        PROVE  FALSE
    <2>1. evaluate(m) \in Machines /\ Dated(evaluate(m)) /\ evaluate(m).hbOk = m.hbOk
          /\ (evaluate(m).state \in Controlled => m.hbOk) /\ evaluate(m).state # "init"
      BY EvaluateFacts DEF Controlled
    <2> QED BY <1>2, <2>1, FailsafeFacts
  <1> QED BY <1>1, <1>2

LEMMA SavedStep ==
  ASSUME SavedInv, [Next]_vars, [TimerFinds]_vars
  PROVE  SavedInv'
  <1>0. /\ mach \in Machines /\ Dated(mach) /\ disk \in Saved /\ FileInv' /\ mach' \in Machines
        /\ FailsafeSaved /\ peer \in BOOLEAN /\ renewing \in BOOLEAN /\ disk' \in Saved
    BY TypeFacts, FileStep DEF SavedInv, FileInv, BoxInv, TypeInv, TypeOK, Saved, Machines
  <1>. SUFFICES ASSUME ~lost', mach'.state = "failsafe", mach'.failsafeAge < mach'.dur
                PROVE  disk'.failsafeAge = mach'.failsafeAge
    BY <1>0 DEF SavedInv, FailsafeSaved
  <1>1. CASE UNCHANGED vars
    BY <1>0, <1>1 DEF vars, FailsafeSaved
  <1>2. CASE Start \/ StartAgain \/ Restart
    <2>1. mach' = Started(disk')
      BY <1>2 DEF Start, StartAgain, Restart
    <2> QED BY <1>0, <2>1, StartedFacts
  <1>3. CASE Timer
    <2>1. mach' = evaluate(mach) /\ evaluate(mach) \in Machines
      BY <1>0, <1>3, EvaluateFacts DEF Timer, apply
    <2>2. CASE saveGridState(evaluate(mach))
      BY <2>1, <2>2, SavedFacts DEF saveGridState
    <2>3. CASE evaluate(mach).state = mach.state /\ UNCHANGED <<disk, lost>>
      BY <1>0, <2>1, <2>3, SameFailsafe, EvaluateFacts DEF FailsafeSaved
    <2> QED BY <1>3, <2>2, <2>3 DEF Timer
  <1>. SUFFICES ASSUME Next, mach.state = "failsafe", ~Timer, ~Start, ~StartAgain, ~Restart
                PROVE  disk'.failsafeAge = mach'.failsafeAge
    BY <1>1, <1>2, <1>3 DEF TimerFinds
  <1>4. ASSUME NEW m \in Machines, Dated(m), m.state = "failsafe", apply(m)
        PROVE  mach'.failsafeAge = m.failsafeAge /\ mach'.dur = m.dur
    BY <1>4, SameFailsafe, EvaluateFacts DEF apply
  <1>5. CASE \E ok \in BOOLEAN : Heartbeat(ok)
    <2>1. PICK ok \in BOOLEAN : Heartbeat(ok)
      BY <1>5
    <2>2. mach' = evaluate(evaluate(Beaten(ok))) /\ UNCHANGED <<disk, lost>>
      BY <2>1 DEF Heartbeat, Beaten, apply
    <2>3. /\ Beaten(ok) \in Machines /\ Dated(Beaten(ok)) /\ Beaten(ok).state = "failsafe"
          /\ Beaten(ok).failsafeAge = mach.failsafeAge /\ Beaten(ok).dur = mach.dur
      BY <1>0, BeatenFacts
    <2>4. /\ evaluate(Beaten(ok)) \in Machines /\ Dated(evaluate(Beaten(ok)))
          /\ evaluate(Beaten(ok)).state = "failsafe"
          /\ evaluate(Beaten(ok)).failsafeAge = mach.failsafeAge
          /\ evaluate(Beaten(ok)).dur = mach.dur
      BY <2>2, <2>3, SameFailsafe, EvaluateFacts
    <2>5. mach'.failsafeAge = mach.failsafeAge /\ mach'.dur = mach.dur
      BY <2>2, <2>4, SameFailsafe, EvaluateFacts
    <2> QED BY <1>0, <2>2, <2>5 DEF FailsafeSaved
  <1>6. CASE BoxWrites
    <2>1. PICK w \in Limits \union {None}, left \in Lefts : GridLimit(w, left)
      <3>1. \A d \in LimitTimes : d \in Nat /\ d <= MaxAge
        BY TimeAssumption, MaxAssumption
      <3>2. LimitTimes \union {Forever} \subseteq Lefts /\ None \in Lefts
        BY <3>1, MaxAssumption DEF Lefts
      <3> QED BY <1>6, <3>2 DEF BoxWrites
    <2>2. /\ onLimit(mach, w, left) \in Machines /\ Dated(onLimit(mach, w, left))
          /\ onLimit(mach, w, left).hbOk /\ onLimit(mach, w, left).state # "failsafe"
      BY <1>0, LimitFacts DEF Controlled
    <2>3. evaluate(onLimit(mach, w, left)).state # "failsafe"
      BY <2>2, FailsafeFacts
    <2> QED BY <2>1, <2>3 DEF GridLimit, apply
  <1>7. CASE \E w \in Limits : GridFailsafeLimit(w)
    <2>1. PICK w \in Limits : GridFailsafeLimit(w)
      BY <1>7
    <2>. DEFINE n == [mach EXCEPT !.failsafeW = w]
    <2>2. /\ n \in Machines /\ Dated(n) /\ n.state = "failsafe"
          /\ n.failsafeAge = mach.failsafeAge
      BY <1>0, WrittenFacts DEF Machines
    <2>3. saveGridState(n) /\ apply(n)
      BY <2>1 DEF GridFailsafeLimit
    <2>. HIDE DEF n
    <2>4. disk'.failsafeAge = n.failsafeAge
      BY <2>2, <2>3, SavedFacts DEF saveGridState
    <2> QED BY <1>4, <2>2, <2>3, <2>4
  <1>8. CASE \E d \in Durations : GridFailsafeDuration(d)
    <2>1. saveGridState(mach')
      BY <1>8 DEF GridFailsafeDuration
    <2> QED BY <1>0, <2>1, SavedFacts DEF saveGridState
  <1>9. CASE OtherEvent
    <2>1. apply(mach) /\ mach'.failsafeAge = mach.failsafeAge /\ mach'.dur = mach.dur
      BY <1>0, <1>4, <1>9 DEF OtherEvent
    <2>2. CASE UNCHANGED <<disk, lost>>
      BY <1>0, <2>1, <2>2 DEF FailsafeSaved
    <2>3. CASE saveGridState(mach)
      BY <1>0, <2>1, <2>3, SavedFacts DEF saveGridState
    <2> QED BY <1>9, <2>2, <2>3 DEF OtherEvent
  <1>10. CASE Tick
    <2>1. /\ mach' = Aged /\ lost' = lost
          /\ disk' = [disk EXCEPT !.failsafeAge = Older(@), !.left = Shorter(@)]
      BY <1>10 DEF Tick, Aged
    <2>2. mach'.failsafeAge = Older(mach.failsafeAge) /\ mach'.dur = mach.dur
          /\ disk'.failsafeAge = Older(disk.failsafeAge)
      BY <1>0, <2>1, AgedFacts DEF Saved
    <2>3. mach.failsafeAge \in Ages /\ mach.dur \in Durations \union {OwnDur}
      BY <1>0 DEF Dated, Machines
    <2>4. mach.failsafeAge < mach.dur
      BY <2>2, <2>3, AgeFacts, DurationFacts DEF Older
    <2> QED BY <1>0, <2>1, <2>2, <2>4 DEF FailsafeSaved
  <1>11. CASE ChildExit \/ StopDone
    BY <1>0, <1>11 DEF ChildExit, StopDone, FailsafeSaved
  <1>12. CASE Stop
    BY <1>0, <1>12, SavedFacts DEF Stop, saveGridState
  <1>13. CASE Renewed \/ \E on \in BOOLEAN : PeerChanged(on)
    <2>1. CASE UNCHANGED <<mach, disk, lost>>
      BY <1>0, <2>1 DEF FailsafeSaved
    <2>2. CASE Renew(peer')
      <3>1. peer' \in BOOLEAN /\ mach' = evaluate(setEnabled(NewMachine, peer'))
        BY <1>0, <1>13, <2>2, PairingFacts DEF Renew, apply
      <3>2. /\ setEnabled(NewMachine, peer') \in Machines /\ Dated(setEnabled(NewMachine, peer'))
            /\ setEnabled(NewMachine, peer').state \in {"init", "disabled"}
            /\ setEnabled(NewMachine, peer').initAge = 0 /\ ~setEnabled(NewMachine, peer').hbOk
        BY <3>1, NewMachineFacts
      <3>3. evaluate(setEnabled(NewMachine, peer')).state # "failsafe"
        BY <3>2, FreshFacts
      <3> QED BY <3>1, <3>3
    <2> QED BY <1>0, <1>13, <2>1, <2>2, PairingFacts
  <1> QED BY <1>5, <1>6, <1>7, <1>8, <1>9, <1>10, <1>11, <1>12, <1>13 DEF Next

(* "Failsafe values and a running failsafe must outlast a restart": they do *)
(* as long as it is the timer that finds the timeout over, and so saves the *)
(* failsafe.  An event that finds it first is the one cause there is.       *)
THEOREM FailsafeIsKept == Spec /\ [][TimerFinds]_vars => FailsafeOutlasts
  <1>1. Init => SavedInv
    <2>. SUFFICES ASSUME Init PROVE mach.state # "failsafe"
      BY FileInit DEF SavedInv, FailsafeSaved
    <2> QED BY NewMachineFacts DEF Init
  <1>2. SavedInv /\ [Next]_vars =>
          [ (Restart /\ peer /\ ~lost /\ mach.state = "failsafe" /\ mach.failsafeAge < mach.dur)
               => mach'.state = "failsafe" ]_vars
    <2>. SUFFICES ASSUME SavedInv, Restart, peer, ~lost, mach.state = "failsafe",
                         mach.failsafeAge < mach.dur
                  PROVE  mach'.state = "failsafe"
      OBVIOUS
    <2>1. /\ disk \in Saved /\ peer /\ disk.dur = mach.dur
          /\ disk.failsafeAge = mach.failsafeAge /\ mach.failsafeAge # None
      BY TypeFacts DEF SavedInv, FileInv, BoxInv, FileTrue, FailsafeSaved, Dated
    <2>2. mach' = Started(disk)
      BY DEF Restart
    <2> QED BY <2>1, <2>2, StartedFacts
  <1>3. SavedInv /\ [Next]_vars /\ [TimerFinds]_vars => SavedInv'
    BY SavedStep
  <1> QED BY <1>1, <1>2, <1>3, PTL DEF Spec, FailsafeOutlasts

-----------------------------------------------------------------------------
(* Switching off.                                                           *)

(* The limits that stop() has given up stay given up.                       *)
GivenUp == proc \in {"stopping", "off"} => applied = None

LEMMA GivenUpStep ==
  ASSUME TypeInv, GivenUp, [Next]_vars, [PipeEmpty]_vars
  PROVE  GivenUp'
  <1>0. peer \in BOOLEAN /\ renewing \in BOOLEAN
    BY TypeFacts
  <1>1. CASE \/ \E ok \in BOOLEAN : Heartbeat(ok)
             \/ BoxWrites \/ OtherEvent
             \/ \E w \in Limits : GridFailsafeLimit(w)
    <2>1. Events /\ proc' = proc
      BY <1>1 DEF Heartbeat, BoxWrites, GridLimit, OtherEvent, GridFailsafeLimit
    <2>2. proc = "up" \/ UNCHANGED vars
      BY <1>1, <2>1 DEF PipeEmpty, Events
    <2> QED BY <2>1, <2>2 DEF GivenUp, vars
  <1>2. CASE \/ \E d \in Durations : GridFailsafeDuration(d)
             \/ Tick \/ ChildExit \/ StopDone \/ UNCHANGED vars
    BY <1>2 DEF GridFailsafeDuration, Tick, ChildExit, StopDone, vars, GivenUp
  <1>3. CASE Timer \/ Start \/ StartAgain \/ Restart
    BY <1>3 DEF Timer, Ticking, Start, StartAgain, Restart, GivenUp
  <1>4. CASE Stop
    BY <1>4 DEF Stop, GivenUp
  <1>5. CASE Renewed \/ \E on \in BOOLEAN : PeerChanged(on)
    <2>. SUFFICES ASSUME Renew(peer') PROVE GivenUp'
      BY <1>0, <1>5, PairingFacts DEF GivenUp
    <2>1. peer' \in BOOLEAN
      BY <1>0, <1>5, PairingFacts
    <2>. DEFINE n == setEnabled(NewMachine, peer')
    <2>2. applied' = effective(evaluate(n))
      BY DEF Renew, apply
    <2>3. /\ n \in Machines /\ Dated(n) /\ n.state \in {"init", "disabled"}
          /\ n.initAge = 0 /\ ~n.hbOk
      BY <2>1, NewMachineFacts
    <2>. HIDE DEF n
    <2>4. evaluate(n).state \in {"init", "disabled"}
      BY <2>3, FreshFacts
    <2>5. applied' = None
      BY <2>2, <2>4 DEF effective
    <2> QED BY <2>5 DEF GivenUp
  <1> QED BY <1>1, <1>2, <1>3, <1>4, <1>5 DEF Next

(* "Do not leave limits behind when EEBUS is switched off": when the helper *)
(* is gone nothing is limited, through pairings, time and other starts, as  *)
(* long as no event comes after stop() has given the limits up.             *)
THEOREM StoppedWithoutEvents == Spec /\ [][PipeEmpty]_vars => []StoppedIsFree
  <1>1. Init => GivenUp
    BY DEF Init, GivenUp
  <1>2. TypeInv /\ GivenUp /\ [Next]_vars /\ [PipeEmpty]_vars => GivenUp'
    BY GivenUpStep
  <1>3. GivenUp => StoppedIsFree
    BY DEF GivenUp, StoppedIsFree
  <1> QED BY <1>1, <1>2, <1>3, TypeInit, TypeStep, PTL DEF Spec
=============================================================================
