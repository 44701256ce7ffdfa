---------------------------- MODULE TaskPolling ----------------------------
(***************************************************************************)
(* Browser tabs that start workflows and follow them by polling (App.tsx,  *)
(* lib/api.ts), over a network that delays, reorders and loses calls,      *)
(* against a backend that may restart.                                     *)
(*                                                                         *)
(* A tab keeps one task of each workflow, as the last answer described it. *)
(* While that answer is "queued" or "running" a timer asks again every     *)
(* 2.2 s, whether or not the answer to the previous question has come, and *)
(* whatever answer arrives replaces the task the tab shows.                *)
(***************************************************************************)
EXTENDS TaskManager, Naturals

CONSTANTS
  Tab,
  Call,          \* a tab's open HTTP calls; bounds how many are in flight
  NoTask,
  MaxRestarts    \* bound on the restarts of the backend

ASSUME RestartsAssumption == MaxRestarts \in Nat

VARIABLES
  shown,      \* [Tab -> [Workflow -> Shown]], the task state of the tab
  calls,      \* [Tab -> [Call -> Http]]
  restarts

vars == <<name, status, shown, calls, restarts>>

Reply == Active \cup Finished \cup {"404", "409"}
Shown == [task : Task \cup {NoTask}, status : Active \cup Finished \cup {"idle", "gone"}]
Http  == [kind : {"free", "start", "poll"}, workflow : Workflow, task : Task \cup {NoTask},
          reply : Reply \cup {"pending"}]

Idle == [task |-> NoTask, status |-> "idle"]
Free == [kind |-> "free", workflow |-> "ingest", task |-> NoTask, reply |-> "pending"]

TypeOK ==
  /\ TaskTypeOK
  /\ shown \in [Tab -> [Workflow -> Shown]]
  /\ calls \in [Tab -> [Call -> Http]]
  /\ restarts \in 0..MaxRestarts

WorkflowRunning(tab) == \E workflow \in Workflow : shown[tab][workflow].status \in Active

Open(tab, call, http) ==
  /\ calls[tab][call] = Free
  /\ calls' = [calls EXCEPT ![tab][call] = http]

Answer(tab, call, task, reply) ==
  calls' = [calls EXCEPT ![tab][call] = [@ EXCEPT !.task = task, !.reply = reply]]

-----------------------------------------------------------------------------
(* The buttons of IngestControl are disabled while the tab shows a running *)
(* workflow; a second click before the first answer is possible.           *)
runWorkflow(tab, call, workflow) ==
  /\ ~WorkflowRunning(tab)
  /\ Open(tab, call, [Free EXCEPT !.kind = "start", !.workflow = workflow])
  /\ UNCHANGED <<name, status, shown, restarts>>

(* Mutant: the timer runs for running tasks only. *)
PollTickRunning(tab, call, workflow) ==
  /\ shown[tab][workflow].status = "running"
  /\ Open(tab, call, [Free EXCEPT !.kind = "poll", !.workflow = workflow,
                                  !.task = shown[tab][workflow].task])
  /\ UNCHANGED <<name, status, shown, restarts>>

PollTick(tab, call, workflow) ==
  /\ shown[tab][workflow].status \in Active
  /\ Open(tab, call, [Free EXCEPT !.kind = "poll", !.workflow = workflow,
                                  !.task = shown[tab][workflow].task])
  /\ UNCHANGED <<name, status, shown, restarts>>

(* POST /ingest and POST /curation. *)
HandleStart(tab, call) ==
  LET http == calls[tab][call] IN
  /\ http.kind = "start" /\ http.reply = "pending"
  /\ \/ \E t \in Task : start(t, http.workflow) /\ Answer(tab, call, t, "queued")
     \/ /\ Conflict(http.workflow) # {}
        /\ Answer(tab, call, NoTask, "409")
        /\ UNCHANGED taskVars
  /\ UNCHANGED <<shown, restarts>>

(* GET /ingest/{task_id} and GET /curation/{task_id}. *)
HandlePoll(tab, call) ==
  LET http == calls[tab][call] IN
  /\ http.kind = "poll" /\ http.reply = "pending"
  /\ Answer(tab, call, http.task, get(http.task))
  /\ UNCHANGED <<name, status, shown, restarts>>

(* setTask(next); a 404 marks the task that was asked for as failed, and   *)
(* the tab tells that the backend probably restarted ("gone").             *)
ShownAfter(http) ==
  [task |-> http.task, status |-> IF http.reply = "404" THEN "gone" ELSE http.reply]

Receive(tab, call) ==
  LET http == calls[tab][call] IN
  /\ http.kind # "free" /\ http.reply # "pending"
  /\ shown' = IF http.reply = "409" THEN shown
              ELSE [shown EXCEPT ![tab][http.workflow] = ShownAfter(http)]
  /\ calls' = [calls EXCEPT ![tab][call] = Free]
  /\ UNCHANGED <<name, status, restarts>>

(* The request or its answer is lost: an error banner, nothing else. *)
Lose(tab, call) ==
  /\ calls[tab][call] # Free
  /\ calls' = [calls EXCEPT ![tab][call] = Free]
  /\ UNCHANGED <<name, status, shown, restarts>>

(* A reload forgets the tasks and the calls of the tab. *)
Reload(tab) ==
  /\ shown' = [shown EXCEPT ![tab] = [workflow \in Workflow |-> Idle]]
  /\ calls' = [calls EXCEPT ![tab] = [call \in Call |-> Free]]
  /\ UNCHANGED <<name, status, restarts>>

Work(t) ==
  /\ _run_begin(t) \/ _run_end(t)
  /\ UNCHANGED <<shown, calls, restarts>>

(* Requests the old process has not answered fail with it. *)
BackendRestart ==
  /\ restarts < MaxRestarts
  /\ Restart
  /\ restarts' = restarts + 1
  /\ calls' = [tab \in Tab |-> [call \in Call |->
       IF calls[tab][call].reply = "pending" THEN Free ELSE calls[tab][call]]]
  /\ UNCHANGED shown

Init ==
  /\ TaskInit
  /\ shown = [tab \in Tab |-> [workflow \in Workflow |-> Idle]]
  /\ calls = [tab \in Tab |-> [call \in Call |-> Free]]
  /\ restarts = 0

Next ==
  \/ \E tab \in Tab, call \in Call, workflow \in Workflow :
       runWorkflow(tab, call, workflow) \/ PollTick(tab, call, workflow)
  \/ \E tab \in Tab, call \in Call :
       HandleStart(tab, call) \/ HandlePoll(tab, call) \/ Receive(tab, call) \/ Lose(tab, call)
  \/ \E tab \in Tab : Reload(tab)
  \/ \E t \in Task : Work(t)
  \/ BackendRestart

Spec == Init /\ [][Next]_vars

(* The event loop runs a queued task and its work ends (every wait inside  *)
(* it has a timeout); the timer of a tab fires; and of the calls a tab     *)
(* keeps repeating some are answered and some answers come through.        *)
FairSpec ==
  /\ Spec
  /\ \A t \in Task : WF_vars(Work(t))
  /\ \A tab \in Tab :
       /\ \A workflow \in Workflow : SF_vars(\E call \in Call : PollTick(tab, call, workflow))
       /\ SF_vars(\E call \in Call : HandlePoll(tab, call))
       /\ SF_vars(\E call \in Call : Receive(tab, call))

-----------------------------------------------------------------------------
(* What a tab shows is never ahead of the backend, however late the answer *)
(* it shows: success and failure are final, "running" has begun, and only  *)
(* a restart makes a task go away.                                         *)
IsPast(t, workflow, s) ==
  /\ t \in Task
  /\ name[t] = workflow
  /\ status[t] # "unused"
  /\ s = "running" => status[t] # "queued"
  /\ s \in Finished => status[t] \in {s, "lost"}
  /\ s = "gone" => status[t] = "lost"

ShownIsPast ==
  \A tab \in Tab, workflow \in Workflow :
    LET s == shown[tab][workflow] IN
    s.status # "idle" => IsPast(s.task, workflow, s.status)

(* A workflow slot is never blocked for good: an active task ends, or the  *)
(* restart that interrupts it forgets it.                                  *)
SlotFreesUp ==
  \A t \in Task : status[t] \in Active ~> status[t] \notin Active

(* A tab does not show "running" for ever: late answers can bring a        *)
(* finished task back to life on the screen, and polling corrects it.      *)
TabLearnsTheEnd ==
  \A tab \in Tab, workflow \in Workflow :
    shown[tab][workflow].status \in Active ~> shown[tab][workflow].status \notin Active
=============================================================================
