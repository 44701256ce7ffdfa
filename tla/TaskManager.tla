---------------------------- MODULE TaskManager ----------------------------
(***************************************************************************)
(* The backend's background tasks (services/tasks.py) as the two routes    *)
(* that start them use it: POST /ingest and POST /curation.  The statuses  *)
(* live in the memory of the process, are never removed from it, and are   *)
(* gone after a restart.  Task ids are UUIDs and are not reused.           *)
(***************************************************************************)
CONSTANT Task   \* the ids start can draw

Workflow == {"ingest", "curation"}

VARIABLES
  name,    \* [Task -> Workflow], meaningful once the task was started
  status   \* [Task -> Status]

taskVars == <<name, status>>

Active   == {"queued", "running"}
Finished == {"succeeded", "failed"}

(* "unused": not drawn yet.  "lost": started before the last restart. *)
Status == Active \cup Finished \cup {"unused", "lost"}

TaskTypeOK ==
  /\ name \in [Task -> Workflow]
  /\ status \in [Task -> Status]

(* Mutant: curation is kept apart from curation only. *)
exclusive_with_itself(workflow) == {workflow}

(* What each route passes as exclusive_with. *)
exclusive_with(workflow) == {"ingest", "curation"}

ActiveTasks == {t \in Task : status[t] \in Active}

Conflict(workflow) == {t \in ActiveTasks : name[t] \in exclusive_with(workflow)}

(* The check and the new status are one synchronous call: no other request *)
(* runs in between.                                                        *)
start(t, workflow) ==
  /\ Conflict(workflow) = {}
  /\ status[t] = "unused"
  /\ name' = [name EXCEPT ![t] = workflow]
  /\ status' = [status EXCEPT ![t] = "queued"]

(* get knows the tasks of this process. *)
get(t) == IF status[t] \in {"unused", "lost"} THEN "404" ELSE status[t]

(* Mutant: a task waits until no task is active, itself included. *)
_run_begin_when_alone(t) ==
  /\ ActiveTasks = {} /\ status[t] = "queued"
  /\ status' = [status EXCEPT ![t] = "running"]
  /\ UNCHANGED name

(* _run: up to the await of the work, and from its end.  The work's own    *)
(* exceptions and those of serialising its result make the task fail.      *)
_run_begin(t) ==
  /\ status[t] = "queued"
  /\ status' = [status EXCEPT ![t] = "running"]
  /\ UNCHANGED name

_run_end(t) ==
  /\ status[t] = "running"
  /\ \E outcome \in Finished : status' = [status EXCEPT ![t] = outcome]
  /\ UNCHANGED name

(* Mutant: a new process draws the same ids again. *)
Restart_numbered ==
  /\ status' = [t \in Task |-> "unused"]
  /\ UNCHANGED name

(* A new process: TaskManager() starts with no statuses. *)
Restart ==
  /\ status' = [t \in Task |-> IF status[t] = "unused" THEN "unused" ELSE "lost"]
  /\ UNCHANGED name

TaskInit ==
  /\ name \in [Task -> {"ingest"}]
  /\ status = [t \in Task |-> "unused"]

TaskNext ==
  \/ \E t \in Task, workflow \in Workflow : start(t, workflow)
  \/ \E t \in Task : _run_begin(t) \/ _run_end(t)
  \/ Restart

TaskSpec == TaskInit /\ [][TaskNext]_taskVars

(* Ingestion and curation never run side by side, whatever order requests, *)
(* completions and restarts come in.                                       *)
OneWorkflowAtATime ==
  \A t, u \in ActiveTasks : t = u

Slot ==
  INSTANCE WorkflowSlot WITH
    holder <- ActiveTasks,
    spent <- {t \in Task : status[t] \in Finished \cup {"lost"}}

(* The tasks of all routes pass one slot on from one to the next, and none *)
(* gets it again: a task that has ended, or that a restart dropped, is not *)
(* revived by a request or by a new process.                               *)
PassesTheSlot == Slot!Spec
=============================================================================
