------------------------- MODULE FeedInLimitArbiter -------------------------
(***************************************************************************)
(* One feed-in limit, several sources (src/dvhub/services/                 *)
(* feed-in-limit-arbiter.js): the direct marketer, the control box (EEBUS  *)
(* LPP) and the fixed cap of the site share the limiter of the inverter.   *)
(* The smallest active limit applies; when no source limits any more, the  *)
(* value the customer had set is written back.                             *)
(*                                                                         *)
(* A command computes its target at once and appends the write to a chain  *)
(* of promises; writes run one after another, may fail, and may have taken *)
(* effect although the answer is lost.  The module also has the tick of    *)
(* the fixed cap (services/feed-in-cap), which repeats its command and     *)
(* reads the limiter back, and a restart, which forgets everything but the *)
(* value in the inverter and its backup (module DvControl).                *)
(***************************************************************************)
EXTENDS Integers, Sequences, FiniteSets, FiniteSetsExt

CONSTANTS
  Sources,   \* who may limit; "fixed" is the cap of the site
  Limits,    \* limits in W
  Caps,      \* caps the operator may configure, None for no cap
  None,      \* no limit; in the inverter: the value of the customer
  Undef,     \* applied before the first write
  MaxChain,  \* bound: writes waiting in the chain
  Faults     \* bound: what may go wrong, of {"fail", "drift", "restart"}

ASSUME LimitsAssumption == Limits \subseteq Nat /\ IsFiniteSet(Limits)
ASSUME NoneAssumption == None \notin Limits /\ Undef \notin Limits \union {None}
ASSUME CapsAssumption == Caps \subseteq Limits \union {None}
ASSUME SourcesAssumption == "fixed" \in Sources
ASSUME MaxChainAssumption == MaxChain \in Nat \ {0}

VARIABLES
  sources,   \* limit of each source, or None
  applied,   \* the target of the last write that succeeded, or Undef
  chain,     \* writes not settled yet: their target and who awaits them
  rejected,  \* the last settled write of the chain failed
  overlap,   \* history: a call came while a write was in flight, and no
             \* write has since left the chain empty with the limit of now
  limiter,   \* the limit the inverter holds
  backup,    \* the customer's value is saved and will be written back
  drifted,   \* history: somebody else wrote the limiter after DVhub did
  cap        \* the fixed cap as configured (feedInCap)

arbiter == <<sources, applied, chain, rejected, overlap>>
inverter == <<limiter, backup, drifted>>
vars == <<sources, applied, chain, rejected, overlap, limiter, backup, drifted, cap>>

Values == Limits \union {None}

(* The smallest active limit.                                               *)
Active(src) == {src[s] : s \in Sources} \ {None}

(* Mutant: without a source the limit is 0.                                 *)
EffectiveZero(src) == Min(Active(src) \union {0})

Effective(src) == IF Active(src) = {} THEN None ELSE Min(Active(src))

(* Mutant: a command that lifts limits is never written.                    *)
UnneededLift(target) == target = applied \/ target = None

(* The write of a command is spared when the limiter was last written so.   *)
Unneeded(target) == target = applied \/ (target = None /\ applied = Undef)

Enqueue(target, who) == chain' = Append(chain, [target |-> target, waiting |-> who])

(* The caller awaits the promise of the chain: the last write in it.        *)
Join(who) ==
  chain' = IF chain = <<>> THEN chain
           ELSE [chain EXCEPT ![Len(chain)].waiting = @ \union who]

(* set(source, limitW).  A source that only lifts its limit does not mind   *)
(* the outcome; the tick of the cap awaits every command of its own.        *)
Awaits(s, w) == IF w = None /\ s # "fixed" THEN {} ELSE {s}

Called == overlap' = (overlap \/ chain # <<>>)

Command(s, w) ==
  /\ Len(chain) < MaxChain
  /\ Called
  /\ sources' = [sources EXCEPT ![s] = w]
  /\ IF Unneeded(Effective(sources')) THEN Join(Awaits(s, w))
     ELSE Enqueue(Effective(sources'), Awaits(s, w))
  /\ UNCHANGED <<applied, rejected>>

(* reapply(): write the effective limit again, changed or not.              *)
Reapply(who) ==
  /\ Len(chain) < MaxChain
  /\ Called
  /\ Effective(sources) # None
  /\ Enqueue(Effective(sources), who)
  /\ UNCHANGED <<sources, applied, rejected>>

(* A command is refused at once when nothing is left to write and the last  *)
(* write of the chain has failed.                                           *)
RefusedAtOnce(s, w) ==
  /\ chain = <<>> /\ rejected
  /\ Unneeded(Effective([sources EXCEPT ![s] = w]))

-----------------------------------------------------------------------------
(* Lifting a limit writes only when the customer's value has been saved.    *)
Writes(target) == target # None \/ backup

(* The first write of the chain succeeds.                                   *)
WriteOk ==
  /\ chain # <<>>
  /\ LET target == Head(chain).target
     IN /\ IF Writes(target) THEN limiter' = target ELSE UNCHANGED limiter
        /\ backup' = (target # None)
        /\ drifted' = (drifted /\ ~Writes(target))
        /\ applied' = target
        /\ overlap' = (overlap /\ (Tail(chain) # <<>> \/ target # Effective(sources)))
  /\ chain' = Tail(chain)
  /\ rejected' = FALSE
  /\ UNCHANGED <<sources, cap>>

(* Mutant: applied moves before the write is confirmed.                     *)
WriteFailApplied ==
  /\ chain # <<>>
  /\ Writes(Head(chain).target)
  /\ applied' = Head(chain).target
  /\ chain' = Tail(chain)
  /\ rejected' = FALSE
  /\ UNCHANGED <<sources, overlap, inverter, cap>>

(* It fails: at the read of the customer's value, at the write, or only the *)
(* answer to the write is lost.                                             *)
WriteFail ==
  /\ "fail" \in Faults
  /\ chain # <<>>
  /\ Writes(Head(chain).target)
  /\ \/ UNCHANGED inverter
     \/ /\ backup' = TRUE
        /\ limiter' \in {limiter, Head(chain).target}
        /\ UNCHANGED drifted
  /\ chain' = Tail(chain)
  /\ rejected' = TRUE
  /\ UNCHANGED <<sources, applied, overlap, cap>>

-----------------------------------------------------------------------------
(* The tick of the cap, every 5 s and never beside itself (busy): it sets   *)
(* the configured cap again.                                                *)
CapAwaits == \E i \in 1 .. Len(chain) : "fixed" \in chain[i].waiting

CapTick == ~CapAwaits /\ Command("fixed", cap) /\ UNCHANGED <<inverter, cap>>

(* Mutant: the read-back repeats the command instead of the write.          *)
CapReadbackSet ==
  /\ ~CapAwaits
  /\ cap # None /\ sources["fixed"] = cap
  /\ limiter # Effective(sources)
  /\ Command("fixed", cap)
  /\ UNCHANGED <<inverter, cap>>

(* With a cap it also reads the limiter back, every 10 min, and writes the  *)
(* effective limit again if the inverter shows something else.              *)
CapReadback ==
  /\ ~CapAwaits
  /\ cap # None /\ sources["fixed"] = cap
  /\ limiter # Effective(sources)
  /\ Reapply({"fixed"})
  /\ UNCHANGED <<inverter, cap>>

CapConfigured(w) == cap' = w /\ UNCHANGED <<arbiter, inverter>>

(* Another source sets or lifts its limit, or repeats its command.          *)
SourceCommand(s, w) ==
  /\ s # "fixed"
  /\ Command(s, w)
  /\ UNCHANGED <<inverter, cap>>

(* Somebody changes the limit at the inverter.                              *)
Drift(w) ==
  /\ "drift" \in Faults
  /\ limiter' = w
  /\ drifted' = TRUE
  /\ UNCHANGED <<arbiter, backup, cap>>

(* The process starts again: the arbiter is empty, the inverter keeps what  *)
(* it holds.                                                                *)
Restart ==
  /\ "restart" \in Faults
  /\ sources' = [s \in Sources |-> None]
  /\ applied' = Undef
  /\ chain' = <<>>
  /\ rejected' = FALSE
  /\ overlap' = FALSE
  /\ UNCHANGED <<inverter, cap>>

Init ==
  /\ sources = [s \in Sources |-> None]
  /\ applied = Undef
  /\ chain = <<>>
  /\ rejected = FALSE
  /\ overlap = FALSE
  /\ limiter = None
  /\ backup = FALSE
  /\ drifted = FALSE
  /\ cap \in Caps

Next ==
  \/ \E s \in Sources, w \in Values : SourceCommand(s, w)
  \/ \E w \in Caps : CapConfigured(w)
  \/ \E w \in Values : Drift(w)
  \/ CapTick \/ CapReadback
  \/ WriteOk \/ WriteFail
  \/ Restart

Spec == Init /\ [][Next]_vars

(* The ticks repeat; a limiter that can be written again and again is       *)
(* written at last, in particular by a write that follows a read-back.      *)
Fairness ==
  /\ WF_vars(CapTick)
  /\ WF_vars(WriteOk \/ WriteFail)
  /\ SF_vars(CapReadback)
  /\ \A w \in Values : SF_vars(WriteOk /\ Head(chain).target = w)

FairSpec == Spec /\ Fairness

-----------------------------------------------------------------------------
TypeOK ==
  /\ sources \in [Sources -> Values]
  /\ applied \in Values \union {Undef}
  /\ chain \in Seq([target : Values, waiting : SUBSET Sources])
  /\ Len(chain) <= MaxChain
  /\ rejected \in BOOLEAN
  /\ overlap \in BOOLEAN
  /\ limiter \in Values
  /\ backup \in BOOLEAN
  /\ drifted \in BOOLEAN
  /\ cap \in Caps

(* What the short-circuit of a command relies on: unless the last write     *)
(* failed, applied is what the inverter holds, until somebody else writes   *)
(* there.  (A failed write may have taken effect all the same.)             *)
AppliedTrue == (~rejected /\ applied # Undef /\ ~drifted) => limiter = applied

(* "The smallest active limit applies" (feed-in-limit-arbiter.js): once all *)
(* writes are done and the last succeeded, the inverter holds it.  That is  *)
(* so as long as no call comes while a write is in flight, and again after  *)
(* the next write that is the last and for the limit of now.  It is not so  *)
(* in between: a command that returns to what was applied before the write  *)
(* in flight is taken for applied, and the write then lands.                *)
Settled ==
  (~overlap /\ chain = <<>> /\ ~rejected /\ applied # Undef /\ ~drifted)
    => limiter = Effective(sources)

(* The same from the first write on and before it, in a process that has    *)
(* found the inverter as the customer left it: nothing that DVhub has set   *)
(* is left behind while no source limits.                                   *)
SettledFromStart ==
  (~overlap /\ chain = <<>> /\ ~rejected /\ ~drifted) => limiter = Effective(sources)

Disturbed ==
  \/ \E s \in Sources, w \in Values : SourceCommand(s, w) /\ sources[s] # w
  \/ \E w \in Caps : CapConfigured(w)
  \/ \E w \in Values : Drift(w)
  \/ Restart

(* With a fixed cap the tick heals everything: when the sources only repeat *)
(* their commands and config and inverter are left alone, the inverter      *)
(* holds the smallest limit at last, whatever went wrong before.            *)
CapHeals ==
  (<>[][~Disturbed]_vars /\ <>[](cap # None)) => <>[](limiter = Effective(sources))

(* "Only when no source limits any more, the value from before the first    *)
(* limit is written back" (feed-in-limit-arbiter.js): it is, at last.       *)
LimitLifted ==
  (<>[][~Disturbed]_vars /\ <>[](Effective(sources) = None)) => <>[](limiter = None)

=============================================================================
