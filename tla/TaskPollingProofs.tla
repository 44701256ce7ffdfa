------------------------- MODULE TaskPollingProofs -------------------------
(***************************************************************************)
(* Proofs about TaskPolling, for any number of tasks, tabs, open calls and *)
(* restarts.                                                               *)
(*                                                                         *)
(* What a tab shows stays true only because what is on its way to the tab  *)
(* was true when it was sent and can no longer become false: IInv says so  *)
(* of the answers and of the tasks that are being asked about.             *)
(***************************************************************************)
EXTENDS TaskPolling, TLAPS

Said(reply) == IF reply = "404" THEN "gone" ELSE reply

(* A call that is open is about a task of its workflow, and its answer,    *)
(* once there, is past.                                                    *)
CallIsPast(http) ==
  /\ http.kind = "free" => http.reply = "pending"
  /\ http.kind = "poll" => IsPast(http.task, http.workflow, "queued")
  /\ http.reply \notin {"pending", "409"} =>
       IsPast(http.task, http.workflow, Said(http.reply))

CallsArePast ==
  \A tab \in Tab, call \in Call : CallIsPast(calls[tab][call])

IInv ==
  /\ TypeOK
  /\ OneWorkflowAtATime
  /\ ShownIsPast
  /\ CallsArePast

-----------------------------------------------------------------------------
(* The backend only moves forward.                                         *)
Forward ==
  \A t \in Task, workflow \in Workflow, s \in Active \cup Finished \cup {"gone"} :
    IsPast(t, workflow, s) => IsPast(t, workflow, s)'

LEMMA StartForward ==
  ASSUME TypeOK, NEW t \in Task, NEW workflow \in Workflow, start(t, workflow)
  PROVE  Forward /\ TaskTypeOK' /\ IsPast(t, workflow, "queued")'
  BY DEF start, Forward, IsPast, TypeOK, TaskTypeOK, Status, Active, Finished

LEMMA RunForward ==
  ASSUME TypeOK, NEW t \in Task, _run_begin(t) \/ _run_end(t)
  PROVE  Forward /\ TaskTypeOK'
  BY DEF _run_begin, _run_end, Forward, IsPast, TypeOK, TaskTypeOK, Status, Active, Finished

LEMMA RestartForward ==
  ASSUME TypeOK, Restart
  PROVE  Forward /\ TaskTypeOK'
  BY DEF Restart, Forward, IsPast, TypeOK, TaskTypeOK, Status, Active, Finished

LEMMA StillForward ==
  ASSUME UNCHANGED taskVars
  PROVE  Forward
  BY DEF taskVars, Forward, IsPast

(* All of Workflow excludes all of Workflow, so a start finds no active    *)
(* task, and nothing else makes one.                                       *)
LEMMA StartAlone ==
  ASSUME TypeOK, NEW t \in Task, NEW workflow \in Workflow, start(t, workflow)
  PROVE  OneWorkflowAtATime'
  BY DEF start, Conflict, exclusive_with, ActiveTasks, OneWorkflowAtATime,
         TypeOK, TaskTypeOK, Workflow

LEMMA RunAlone ==
  ASSUME TypeOK, OneWorkflowAtATime,
         (\E t \in Task : _run_begin(t) \/ _run_end(t)) \/ Restart \/ UNCHANGED taskVars
  PROVE  OneWorkflowAtATime'
PROOF
  <1>1. ASSUME NEW u \in ActiveTasks'
        PROVE  u \in ActiveTasks
    BY DEF _run_begin, _run_end, Restart, ActiveTasks, Active, Finished, taskVars,
           TypeOK, TaskTypeOK
  <1> QED BY <1>1 DEF OneWorkflowAtATime

(* When the backend moves forward, a call or a shown task is past if it    *)
(* was there before.                                                       *)
LEMMA CallsStayPast ==
  ASSUME TypeOK, CallsArePast, Forward,
         \A tab \in Tab, call \in Call :
           \/ calls'[tab][call] \in {calls[tab][call], Free}
           \/ CallIsPast(calls[tab][call])'
  PROVE  CallsArePast'
PROOF
  <1> SUFFICES ASSUME NEW tab \in Tab, NEW call \in Call,
                      calls'[tab][call] = calls[tab][call]
               PROVE  CallIsPast(calls[tab][call])'
    BY DEF CallsArePast, CallIsPast, Free
  <1>1. PICK http \in Http : http = calls[tab][call] /\ CallIsPast(http)
    BY DEF TypeOK, CallsArePast
  <1>2. http.kind = "poll" => IsPast(http.task, http.workflow, "queued")'
    BY <1>1 DEF CallIsPast, Forward, IsPast, Http, Active
  <1>3. http.reply \notin {"pending", "409"} =>
          IsPast(http.task, http.workflow, Said(http.reply))'
    <2>1. http.reply \notin {"pending", "409"} =>
            Said(http.reply) \in Active \cup Finished \cup {"gone"}
      BY DEF Http, Reply, Said
    <2>2. ASSUME http.reply \notin {"pending", "409"}
          PROVE  IsPast(http.task, http.workflow, Said(http.reply))
      BY <1>1, <2>2 DEF CallIsPast
    <2> QED BY <2>1, <2>2 DEF Forward, IsPast, Http
  <1>4. CallIsPast(http)'
    BY <1>1, <1>2, <1>3 DEF CallIsPast
  <1> QED BY <1>1, <1>4 DEF CallIsPast, IsPast

LEMMA ShownStaysPast ==
  ASSUME TypeOK, ShownIsPast, Forward,
         \A tab \in Tab, workflow \in Workflow :
           \/ shown'[tab][workflow] \in {shown[tab][workflow], Idle}
           \/ IsPast(shown[tab][workflow].task, workflow, shown[tab][workflow].status)'
  PROVE  ShownIsPast'
PROOF
  <1> SUFFICES ASSUME NEW tab \in Tab, NEW workflow \in Workflow,
                      shown'[tab][workflow] = shown[tab][workflow],
                      shown[tab][workflow].status # "idle"
               PROVE  IsPast(shown[tab][workflow].task, workflow,
                             shown[tab][workflow].status)'
    BY DEF ShownIsPast, Idle
  <1>1. PICK s \in Shown : s = shown[tab][workflow] /\ IsPast(s.task, workflow, s.status)
    BY DEF TypeOK, ShownIsPast
  <1>2. s.task \in Task /\ s.status \in Active \cup Finished \cup {"gone"}
    BY <1>1 DEF Shown, IsPast
  <1>3. IsPast(s.task, workflow, s.status)'
    BY <1>1, <1>2 DEF Forward
  <1> QED BY <1>1, <1>3 DEF IsPast

-----------------------------------------------------------------------------
(* The tab's own steps.                                                    *)

LEMMA AskPreserves ==
  ASSUME IInv, NEW tab \in Tab, NEW call \in Call, NEW workflow \in Workflow,
         runWorkflow(tab, call, workflow) \/ PollTick(tab, call, workflow)
  PROVE  IInv'
PROOF
  <1> USE DEF IInv
  <1>1. UNCHANGED <<name, status, shown, restarts>>
    BY DEF runWorkflow, PollTick
  <1>2. Forward /\ OneWorkflowAtATime'
    BY <1>1, StillForward, RunAlone DEF taskVars
  <1>3. PICK http \in Http :
          /\ calls' = [calls EXCEPT ![tab][call] = http]
          /\ http.kind # "free" /\ http.reply = "pending"
          /\ http.kind = "poll" => IsPast(http.task, http.workflow, "queued")
    <2>1. CASE runWorkflow(tab, call, workflow)
      <3> DEFINE asked == [Free EXCEPT !.kind = "start", !.workflow = workflow]
      <3>1. /\ asked \in Http
            /\ asked.kind = "start" /\ asked.reply = "pending"
        BY DEF Free, Http
      <3>2. calls' = [calls EXCEPT ![tab][call] = asked]
        BY <2>1 DEF runWorkflow, Open
      <3> QED BY <3>1, <3>2
    <2>2. CASE PollTick(tab, call, workflow)
      <3>1. IsPast(shown[tab][workflow].task, workflow, shown[tab][workflow].status)
        BY <2>2 DEF PollTick, Active, ShownIsPast
      <3>2. IsPast(shown[tab][workflow].task, workflow, "queued")
        BY <3>1 DEF IsPast, Finished
      <3> DEFINE asked == [Free EXCEPT !.kind = "poll", !.workflow = workflow,
                                       !.task = shown[tab][workflow].task]
      <3>3. /\ asked \in Http
            /\ asked.kind = "poll" /\ asked.reply = "pending"
            /\ asked.task = shown[tab][workflow].task /\ asked.workflow = workflow
        BY <3>2 DEF Free, Http, IsPast
      <3>4. calls' = [calls EXCEPT ![tab][call] = asked]
        BY <2>2 DEF PollTick, Open
      <3> QED BY <3>2, <3>3, <3>4
    <2> QED BY <2>1, <2>2
  <1>4. TypeOK'
    BY <1>1, <1>3 DEF TypeOK, TaskTypeOK
  <1>5. CallIsPast(http)'
    BY <1>1, <1>3 DEF CallIsPast, IsPast
  <1>6. CallsArePast'
    <2>1. \A u \in Tab, c \in Call : calls'[u][c] \in {calls[u][c], http}
      BY <1>3 DEF TypeOK
    <2> QED BY <1>2, <1>5, <2>1, CallsStayPast DEF CallIsPast, IsPast
  <1>7. ShownIsPast'
    BY <1>1, <1>2, ShownStaysPast
  <1> QED BY <1>2, <1>4, <1>6, <1>7

LEMMA HandlePollPreserves ==
  ASSUME IInv, NEW tab \in Tab, NEW call \in Call, HandlePoll(tab, call)
  PROVE  IInv'
PROOF
  <1> USE DEF IInv
  <1> DEFINE http == calls[tab][call]
             answered == [http EXCEPT !.reply = get(http.task)]
  <1>1. UNCHANGED <<name, status, shown, restarts>>
    BY DEF HandlePoll
  <1>2. Forward /\ OneWorkflowAtATime'
    BY <1>1, StillForward, RunAlone DEF taskVars
  <1>3. http \in Http /\ http.kind = "poll" /\ IsPast(http.task, http.workflow, "queued")
    BY DEF HandlePoll, TypeOK, CallsArePast, CallIsPast
  <1>4. calls' = [calls EXCEPT ![tab][call] = answered]
    BY <1>3 DEF HandlePoll, Answer, TypeOK, Http
  <1>5. PICK reply \in Reply \cup {"pending"} :
          reply = get(http.task) /\ IsPast(http.task, http.workflow, Said(reply))
    BY <1>3 DEF get, IsPast, TypeOK, TaskTypeOK, Status, Reply, Said, Active, Finished
  <1>6. answered \in Http
    BY <1>3, <1>5 DEF Http
  <1>7. TypeOK'
    BY <1>1, <1>4, <1>6 DEF TypeOK, TaskTypeOK
  <1>8. PICK a \in Http : a = answered /\ CallIsPast(a)
    BY <1>3, <1>5, <1>6 DEF CallIsPast, Http
  <1>9. CallIsPast(a)'
    BY <1>1, <1>8 DEF CallIsPast, IsPast
  <1>10. CallsArePast'
    <2>1. \A u \in Tab, c \in Call : calls'[u][c] \in {calls[u][c], a}
      BY <1>4, <1>8 DEF TypeOK
    <2> QED BY <1>2, <1>9, <2>1, CallsStayPast DEF CallIsPast, IsPast
  <1>11. ShownIsPast'
    BY <1>1, <1>2, ShownStaysPast
  <1> QED BY <1>2, <1>7, <1>10, <1>11

LEMMA HandleStartPreserves ==
  ASSUME IInv, NEW tab \in Tab, NEW call \in Call, HandleStart(tab, call)
  PROVE  IInv'
PROOF
  <1> USE DEF IInv
  <1> DEFINE http == calls[tab][call]
  <1>1. UNCHANGED <<shown, restarts>> /\ http.kind = "start" /\ http \in Http
    BY DEF HandleStart, TypeOK
  <1>2. CASE \E t \in Task : start(t, http.workflow) /\ Answer(tab, call, t, "queued")
    <2>1. PICK t \in Task : start(t, http.workflow) /\ Answer(tab, call, t, "queued")
      BY <1>2
    <2>2. PICK workflow \in Workflow : workflow = http.workflow
      BY <1>1 DEF Http
    <2>3. Forward /\ TaskTypeOK' /\ IsPast(t, workflow, "queued")' /\ OneWorkflowAtATime'
      BY <2>1, <2>2, StartForward, StartAlone
    <2>4. PICK a \in Http :
            /\ calls' = [calls EXCEPT ![tab][call] = a]
            /\ a.kind = "start" /\ a.reply = "queued" /\ a.task = t /\ a.workflow = workflow
      <3> DEFINE answered == [http EXCEPT !.task = t, !.reply = "queued"]
      <3>1. /\ answered \in Http
            /\ answered.kind = "start" /\ answered.reply = "queued"
            /\ answered.task = t /\ answered.workflow = workflow
        BY <1>1, <2>2 DEF Http, Reply, Active
      <3>2. calls' = [calls EXCEPT ![tab][call] = answered]
        BY <2>1 DEF Answer, TypeOK
      <3> QED BY <3>1, <3>2
    <2>5. TypeOK'
      BY <1>1, <2>3, <2>4 DEF TypeOK
    <2>6. CallIsPast(a)'
      BY <2>3, <2>4 DEF CallIsPast, Said
    <2>7. CallsArePast'
      <3>1. \A u \in Tab, c \in Call : calls'[u][c] \in {calls[u][c], a}
        BY <2>4 DEF TypeOK
      <3> QED BY <2>3, <2>6, <3>1, CallsStayPast DEF CallIsPast, IsPast
    <2>8. ShownIsPast'
      BY <1>1, <2>3, ShownStaysPast
    <2> QED BY <2>3, <2>5, <2>7, <2>8
  <1>3. CASE Answer(tab, call, NoTask, "409") /\ UNCHANGED taskVars
    <2>1. Forward /\ OneWorkflowAtATime' /\ TaskTypeOK'
      BY <1>3, StillForward, RunAlone DEF taskVars, TypeOK, TaskTypeOK
    <2>2. PICK a \in Http :
            /\ calls' = [calls EXCEPT ![tab][call] = a]
            /\ a.kind = "start" /\ a.reply = "409"
      <3> DEFINE answered == [http EXCEPT !.task = NoTask, !.reply = "409"]
      <3>1. answered \in Http /\ answered.kind = "start" /\ answered.reply = "409"
        BY <1>1 DEF Http, Reply
      <3>2. calls' = [calls EXCEPT ![tab][call] = answered]
        BY <1>3 DEF Answer, TypeOK
      <3> QED BY <3>1, <3>2
    <2>3. TypeOK'
      BY <1>1, <2>1, <2>2 DEF TypeOK
    <2>4. CallIsPast(a)'
      BY <2>2 DEF CallIsPast
    <2>5. CallsArePast'
      <3>1. \A u \in Tab, c \in Call : calls'[u][c] \in {calls[u][c], a}
        BY <2>2 DEF TypeOK
      <3> QED BY <2>1, <2>4, <3>1, CallsStayPast DEF CallIsPast, IsPast
    <2>6. ShownIsPast'
      BY <1>1, <2>1, ShownStaysPast
    <2> QED BY <2>1, <2>3, <2>5, <2>6
  <1> QED BY <1>2, <1>3 DEF HandleStart

LEMMA ReceivePreserves ==
  ASSUME IInv, NEW tab \in Tab, NEW call \in Call, Receive(tab, call)
  PROVE  IInv'
PROOF
  <1> USE DEF IInv
  <1> DEFINE http == calls[tab][call]
  <1>1. /\ UNCHANGED <<name, status, restarts>>
        /\ calls' = [calls EXCEPT ![tab][call] = Free]
        /\ http \in Http /\ http.reply # "pending"
    BY DEF Receive, TypeOK
  <1>2. Forward /\ OneWorkflowAtATime'
    BY <1>1, StillForward, RunAlone DEF taskVars
  <1>3. Free \in Http
    BY DEF Free, Http, Workflow
  <1>4. CallsArePast'
    <2>1. \A u \in Tab, c \in Call : calls'[u][c] \in {calls[u][c], Free}
      BY <1>1 DEF TypeOK
    <2> QED BY <1>2, <2>1, CallsStayPast
  <1>5. CASE http.reply = "409"
    <2>1. shown' = shown
      BY <1>5 DEF Receive
    <2>2. TypeOK'
      BY <1>1, <1>3, <2>1 DEF TypeOK, TaskTypeOK
    <2> QED BY <1>2, <1>4, <2>1, <2>2, ShownStaysPast
  <1>6. CASE http.reply # "409"
    <2>1. PICK s \in Shown :
            /\ s = ShownAfter(http)
            /\ shown' = [shown EXCEPT ![tab][http.workflow] = s]
            /\ IsPast(s.task, http.workflow, s.status)
      <3>1. IsPast(http.task, http.workflow, Said(http.reply))
        BY <1>1, <1>6 DEF CallsArePast, CallIsPast
      <3>2. ShownAfter(http) \in Shown /\ ShownAfter(http).status = Said(http.reply)
        BY <1>1, <1>6 DEF ShownAfter, Shown, Http, Reply, Said
      <3> QED BY <1>6, <3>1, <3>2 DEF Receive, ShownAfter
    <2>2. PICK workflow \in Workflow : workflow = http.workflow
      BY <1>1 DEF Http
    <2>3. TypeOK'
      BY <1>1, <1>3, <2>1, <2>2 DEF TypeOK, TaskTypeOK
    <2>4. IsPast(s.task, workflow, s.status)'
      BY <1>1, <2>1, <2>2 DEF IsPast
    <2>5. ShownIsPast'
      <3>1. \A u \in Tab, w \in Workflow :
              \/ shown'[u][w] = shown[u][w]
              \/ w = workflow /\ shown'[u][w] = s
        BY <2>1, <2>2 DEF TypeOK
      <3> QED BY <1>2, <2>4, <3>1, ShownStaysPast DEF IsPast
    <2> QED BY <1>2, <1>4, <2>3, <2>5
  <1> QED BY <1>5, <1>6

LEMMA LosePreserves ==
  ASSUME IInv, NEW tab \in Tab, Reload(tab) \/ \E call \in Call : Lose(tab, call)
  PROVE  IInv'
PROOF
  <1> USE DEF IInv
  <1>1. UNCHANGED <<name, status, restarts>>
    BY DEF Reload, Lose
  <1>2. Forward /\ OneWorkflowAtATime'
    BY <1>1, StillForward, RunAlone DEF taskVars
  <1>3. Free \in Http /\ Idle \in Shown
    BY DEF Free, Http, Workflow, Idle, Shown
  <1>4. TypeOK'
    <2>1. /\ [workflow \in Workflow |-> Idle] \in [Workflow -> Shown]
          /\ [call \in Call |-> Free] \in [Call -> Http]
      BY <1>3
    <2>2. shown' \in [Tab -> [Workflow -> Shown]] /\ calls' \in [Tab -> [Call -> Http]]
      <3>1. CASE Reload(tab)
        BY <2>1, <3>1 DEF TypeOK, Reload
      <3>2. CASE \E call \in Call : Lose(tab, call)
        BY <1>3, <3>2 DEF TypeOK, Lose
      <3> QED BY <3>1, <3>2
    <2> QED BY <1>1, <2>2 DEF TypeOK, TaskTypeOK
  <1>5. \A u \in Tab, c \in Call : calls'[u][c] \in {calls[u][c], Free}
    BY DEF TypeOK, Reload, Lose
  <1>6. \A u \in Tab, w \in Workflow : shown'[u][w] \in {shown[u][w], Idle}
    BY DEF TypeOK, Reload, Lose
  <1>7. CallsArePast'
    BY <1>2, <1>5, CallsStayPast
  <1>8. ShownIsPast'
    BY <1>2, <1>6, ShownStaysPast
  <1> QED BY <1>2, <1>4, <1>7, <1>8

LEMMA BackendPreserves ==
  ASSUME IInv, BackendRestart \/ \E t \in Task : Work(t)
  PROVE  IInv'
PROOF
  <1> USE DEF IInv
  <1>1. Forward /\ TaskTypeOK' /\ OneWorkflowAtATime'
    BY RunForward, RestartForward, RunAlone DEF BackendRestart, Work
  <1>2. shown' = shown /\ restarts' \in 0..MaxRestarts
    BY RestartsAssumption DEF BackendRestart, Work, TypeOK
  <1>3. Free \in Http
    BY DEF Free, Http, Workflow
  <1>4. /\ calls' \in [Tab -> [Call -> Http]]
        /\ \A u \in Tab, c \in Call : calls'[u][c] \in {calls[u][c], Free}
    BY <1>3 DEF BackendRestart, Work, TypeOK
  <1>5. TypeOK'
    BY <1>1, <1>2, <1>4 DEF TypeOK
  <1>6. CallsArePast'
    BY <1>1, <1>4, CallsStayPast
  <1>7. ShownIsPast'
    BY <1>1, <1>2, ShownStaysPast
  <1> QED BY <1>1, <1>5, <1>6, <1>7

-----------------------------------------------------------------------------
LEMMA InitEstablishes ==
  ASSUME Init
  PROVE  IInv
PROOF
  <1>1. TypeOK
    BY RestartsAssumption DEF Init, TaskInit, TypeOK, TaskTypeOK, Status, Workflow, Idle, Shown,
                              Free, Http
  <1>2. OneWorkflowAtATime
    BY DEF Init, TaskInit, OneWorkflowAtATime, ActiveTasks, Active
  <1>3. ShownIsPast /\ CallsArePast
    BY DEF Init, ShownIsPast, CallsArePast, CallIsPast, Idle, Free
  <1> QED BY <1>1, <1>2, <1>3 DEF IInv

LEMMA NextPreserves ==
  ASSUME IInv, [Next]_vars
  PROVE  IInv'
PROOF
  <1>1. CASE UNCHANGED vars
    <2>1. Forward /\ OneWorkflowAtATime'
      BY <1>1, StillForward, RunAlone DEF vars, taskVars, IInv
    <2>2. TypeOK'
      BY <1>1 DEF vars, IInv, TypeOK, TaskTypeOK
    <2> QED BY <1>1, <2>1, <2>2, CallsStayPast, ShownStaysPast DEF vars, IInv
  <1>2. CASE Next
    BY <1>2, AskPreserves, HandlePollPreserves, HandleStartPreserves, ReceivePreserves,
       LosePreserves, BackendPreserves DEF Next
  <1> QED BY <1>1, <1>2

THEOREM PollingInvariant == Spec => []IInv
PROOF
  <1>1. Init => IInv
    BY InitEstablishes
  <1>2. IInv /\ [Next]_vars => IInv'
    BY NextPreserves
  <1> QED BY <1>1, <1>2, PTL DEF Spec

(* Tasks, calls and what the tabs show keep their types. *)
THEOREM TypeCorrect == Spec => []TypeOK
  BY PollingInvariant, PTL DEF IInv

(* Ingestion and curation exclude each other for any number of requests.   *)
THEOREM WorkflowsExclude == Spec => []OneWorkflowAtATime
  BY PollingInvariant, PTL DEF IInv

(* No tab is ahead of the backend, for any delay of the answers.           *)
THEOREM TabsShowThePast == Spec => []ShownIsPast
  BY PollingInvariant, PTL DEF IInv

-----------------------------------------------------------------------------
(* The slot of WorkflowSlot.                                               *)

Ran == Finished \cup {"lost"}

Spent == {t \in Task : status[t] \in Ran}

(* A task that starts takes the slot, which nobody has then.               *)
LEMMA StartTakes ==
  ASSUME TypeOK, NEW t \in Task, NEW workflow \in Workflow, start(t, workflow)
  PROVE  ActiveTasks = {} /\ t \notin Spent /\ ActiveTasks' = {t} /\ Spent' = Spent
PROOF
  <1>1. /\ status[t] = "unused" /\ name \in [Task -> Workflow]
        /\ status \in [Task -> Status] /\ status' = [status EXCEPT ![t] = "queued"]
    BY DEF start, TypeOK, TaskTypeOK
  <1>2. ActiveTasks = {}
    BY <1>1 DEF start, Conflict, exclusive_with, ActiveTasks, Workflow
  <1>3. ActiveTasks' = {t}
    BY <1>1, <1>2 DEF ActiveTasks, Active
  <1>4. t \notin Spent /\ Spent' = Spent
    BY <1>1 DEF Spent, Ran, Finished
  <1> QED BY <1>2, <1>3, <1>4

(* A task keeps the slot when its work begins, and leaves it at its end.   *)
LEMMA RunHoldsOrLeaves ==
  ASSUME TypeOK, OneWorkflowAtATime, NEW t \in Task, _run_begin(t) \/ _run_end(t)
  PROVE  \/ ActiveTasks' = ActiveTasks /\ Spent' = Spent
         \/ ActiveTasks # {} /\ ActiveTasks' = {} /\ Spent' = Spent \cup ActiveTasks
PROOF
  <1>1. status \in [Task -> Status] /\ status[t] \in Active
    BY DEF _run_begin, _run_end, TypeOK, TaskTypeOK, Active
  <1>2. ActiveTasks = {t}
    BY <1>1 DEF OneWorkflowAtATime, ActiveTasks
  <1>3. CASE _run_begin(t)
    <2>1. ActiveTasks' = ActiveTasks
      BY <1>1, <1>3 DEF _run_begin, ActiveTasks, Active
    <2>2. Spent' = Spent
      BY <1>1, <1>3 DEF _run_begin, Spent, Ran, Finished
    <2> QED BY <2>1, <2>2
  <1>4. CASE _run_end(t)
    <2>1. PICK outcome \in Finished : status' = [status EXCEPT ![t] = outcome]
      BY <1>4 DEF _run_end
    <2>2. ActiveTasks' = {}
      BY <1>1, <1>2, <2>1 DEF ActiveTasks, Active, Finished
    <2>3. Spent' = Spent \cup {t}
      BY <1>1, <2>1 DEF Spent, Ran
    <2> QED BY <1>2, <2>2, <2>3
  <1> QED BY <1>3, <1>4

(* A restart leaves the slot to nobody, and what was there is spent.       *)
LEMMA RestartLeaves ==
  ASSUME TypeOK, Restart
  PROVE  ActiveTasks' = {} /\ Spent' = Spent \cup ActiveTasks
  BY DEF Restart, ActiveTasks, Spent, Ran, TypeOK, TaskTypeOK, Status, Active, Finished

(* The tasks of any number of tabs pass one slot on.                       *)
THEOREM SlotIsPassedOn == Spec => PassesTheSlot
PROOF
  <1>1. Init => Slot!Init
    BY DEF Init, TaskInit, Slot!Init, ActiveTasks, Active, Finished
  <1>2. IInv /\ [Next]_vars => [Slot!Next]_(Slot!vars)
    <2> SUFFICES ASSUME IInv, [Next]_vars
                 PROVE  Slot!Next \/ (ActiveTasks' = ActiveTasks /\ Spent' = Spent)
      BY DEF Slot!vars, Spent, Ran
    <2>1. TypeOK /\ OneWorkflowAtATime
      BY DEF IInv
    <2>2. CASE \E t \in Task, workflow \in Workflow : start(t, workflow)
      BY <2>1, <2>2, StartTakes DEF Slot!Next, Slot!Take, Spent, Ran
    <2>3. CASE \E t \in Task : _run_begin(t) \/ _run_end(t)
      BY <2>1, <2>3, RunHoldsOrLeaves DEF Slot!Next, Slot!Leave, Spent, Ran
    <2>4. CASE Restart
      BY <2>1, <2>4, RestartLeaves DEF Slot!Next, Slot!Leave, Spent, Ran
    <2>5. CASE UNCHANGED taskVars
      BY <2>5 DEF taskVars, ActiveTasks, Spent
    <2>6. ASSUME NEW tab \in Tab, NEW call \in Call, HandleStart(tab, call)
          PROVE  \/ UNCHANGED taskVars
                 \/ \E t \in Task, workflow \in Workflow : start(t, workflow)
      BY <2>1, <2>6 DEF HandleStart, TypeOK, Http
    <2>7. UNCHANGED taskVars \/ Restart \/ (\E t \in Task : _run_begin(t) \/ _run_end(t))
            \/ \E tab \in Tab, call \in Call : HandleStart(tab, call)
      BY DEF Next, vars, taskVars, runWorkflow, PollTick, HandlePoll, Receive, Lose, Reload,
             Work, BackendRestart
    <2> QED BY <2>2, <2>3, <2>4, <2>5, <2>6, <2>7
  <1> QED BY <1>1, <1>2, PollingInvariant, PTL DEF Spec, PassesTheSlot, Slot!Spec
=============================================================================
