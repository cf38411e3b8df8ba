---------------------------- MODULE GoalLifecycle ----------------------------
(***************************************************************************)
(* What the goal slot promises a reader, without processes, locks or runs: *)
(* the state diagram of docs/architecture.md with its budgets.  Goal is    *)
(* shown to implement it.                                                  *)
(***************************************************************************)
EXTENDS Integers

CONSTANT AttemptLimit

VARIABLES
    slot,  \* the goal that is stored, "empty" or "unreadable"
    time   \* the stamp of the latest save

lifecycleVars == <<slot, time>>

Slot(s, id, count, max) == [status |-> s, id |-> id, count |-> count, max |-> max]
Empty == Slot("empty", 0, 0, 0)
Unreadable == Slot("unreadable", 0, 0, 0)

LifecycleInit == slot = Empty /\ time = 0

\* A goal starts only in an empty slot, under an id never used before.
StartGoal ==
    /\ slot = Empty
    /\ time' = time + 1
    /\ \E max \in 1 .. AttemptLimit : slot' = Slot("active", time', 0, max)

\* One more attempt is charged: a pass ends the goal, the last failure in the
\* budget exhausts it.
PassAttempt ==
    /\ slot.status = "active"
    /\ slot' = Slot("passed", slot.id, slot.count + 1, slot.max)
    /\ time' = time + 1

FailAttempt ==
    /\ slot.status = "active"
    /\ slot' = Slot(IF slot.count + 1 = slot.max THEN "exhausted" ELSE "active",
                    slot.id, slot.count + 1, slot.max)
    /\ time' = time + 1

\* A resume leaves at least one attempt and never touches a passed goal.
ResumeGoal ==
    /\ slot.status \in {"active", "exhausted"}
    /\ time' = time + 1
    /\ \E max \in (slot.count + 1) .. AttemptLimit :
          slot' = Slot("active", slot.id, slot.count, max)

Empties == slot' = Empty /\ UNCHANGED time

\* Outside writers may leave anything there that the controller cannot read.
Spoil == slot' = Unreadable /\ UNCHANGED time

LifecycleNext ==
    StartGoal \/ PassAttempt \/ FailAttempt \/ ResumeGoal \/ Empties \/ Spoil

LifecycleSpec == LifecycleInit /\ [][LifecycleNext]_lifecycleVars
=============================================================================
