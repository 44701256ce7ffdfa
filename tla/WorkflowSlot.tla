---------------------------- MODULE WorkflowSlot ----------------------------
(***************************************************************************)
(* What the background tasks promise those who start them: there is one    *)
(* slot for all workflows, one task at a time has it, and a task has it    *)
(* once.                                                                   *)
(***************************************************************************)
CONSTANT Task

VARIABLES
  holder,   \* of the slot, if it is taken
  spent     \* the tasks that had it

vars == <<holder, spent>>

Take(t) ==
  /\ holder = {} /\ t \notin spent
  /\ holder' = {t}
  /\ UNCHANGED spent

Leave ==
  /\ holder # {}
  /\ holder' = {}
  /\ spent' = spent \cup holder

Init == holder = {} /\ spent = {}

Next == Leave \/ \E t \in Task : Take(t)

Spec == Init /\ [][Next]_vars
=============================================================================
