------------------------------ MODULE LlmCalls ------------------------------
(***************************************************************************)
(* The extractions of an ingest (services/llm.py): at most MaxConcurrency  *)
(* articles at a time, for each of them an initial call and up to Passes   *)
(* gleaning calls in one conversation, Attempts conversations, and, while  *)
(* the API answers 429, Attempts requests for each call.                   *)
(*                                                                         *)
(* All calls share the time at which requests may resume.  Times are kept  *)
(* as what remains of them, which Tick decreases.                          *)
(***************************************************************************)
EXTENDS Integers, Sequences, FiniteSets

CONSTANTS
  Article,
  MaxConcurrency,   \* llm_max_concurrency
  Attempts,         \* llm_retry_attempts
  Passes,           \* llm_gleaning_passes
  Delay             \* what _rate_limit_delay_seconds makes of a 429

ASSUME SettingsAssumption ==
  /\ MaxConcurrency \in Nat \ {0} /\ Attempts \in Nat \ {0} /\ Passes \in Nat
  /\ Delay \subseteq Nat \ {0}
ASSUME ArticleAssumption == IsFiniteSet(Article)

VARIABLES
  job,      \* [Article -> Job]
  pause,    \* what remains until _rate_limit_resume_at
  asked,    \* history: the longest the API still asks somebody to wait
  owed      \* history: what an article still had to wait when it last looked

vars == <<job, pause, asked, owed>>

(* "check": about to look at the pause; "wait": asleep until the pause it  *)
(* saw ends; "sent": awaits the answer; "sleep": asleep after a 429;       *)
(* "backoff": asleep before the next conversation.                         *)
Phase == {"queued", "check", "wait", "sent", "sleep", "backoff", "done", "failed"}

(* raw: the answers merged so far, by attempt and pass. *)
Job == [phase : Phase, attempt : 1..Attempts, pass : 0..Passes, request : 1..Attempts,
        timer : Nat, raw : SUBSET ((1..Attempts) \X (0..Passes))]

Fresh == [phase |-> "queued", attempt |-> 1, pass |-> 0, request |-> 1, timer |-> 0, raw |-> {}]

Ended == {"done", "failed"}

(* The holders of the semaphore, which sleep with it. *)
Running == {a \in Article : job[a].phase \notin {"queued"} \cup Ended}

TypeOK ==
  /\ job \in [Article -> Job]
  /\ pause \in Nat /\ asked \in Nat
  /\ owed \in [Article -> Nat]
  /\ Cardinality(Running) <= MaxConcurrency
  /\ \A a \in Article : job[a].timer > 0 => job[a].phase \in {"wait", "sleep", "backoff"}

Longer(m, n) == IF m >= n THEN m ELSE n
Less(n) == IF n > 0 THEN n - 1 ELSE 0

-----------------------------------------------------------------------------
(* extract_article: the semaphore is held also while the article sleeps. *)
Acquire(a) ==
  /\ job[a].phase = "queued"
  /\ Cardinality(Running) < MaxConcurrency
  /\ job' = [job EXCEPT ![a].phase = "check"]
  /\ UNCHANGED <<pause, asked, owed>>

(* _create_chat_completion looks once before each request ... *)
CheckPause(a) ==
  /\ job[a].phase = "check"
  /\ job' = [job EXCEPT ![a].phase = IF pause > 0 THEN "wait" ELSE "sent", ![a].timer = pause]
  /\ owed' = [owed EXCEPT ![a] = asked]
  /\ UNCHANGED <<pause, asked>>

(* ... and sends when the pause it saw is over. *)
Send(a) ==
  /\ job[a].phase = "wait" /\ job[a].timer = 0
  /\ job' = [job EXCEPT ![a].phase = "sent"]
  /\ UNCHANGED <<pause, asked, owed>>

(* Mutant: the latest 429 sets the pause. *)
PauseAfter_latest(delay) == delay

(* _set_rate_limit_pause *)
PauseAfter(delay) == Longer(pause, delay)

AfterPause(j, wait) ==
  [j EXCEPT !.phase = "sleep", !.timer = wait, !.request = j.request + 1]

(* Mutant: a 429 does not count as a request. *)
RateLimited_uncounted(a, delay) ==
  /\ job[a].phase = "sent"
  /\ pause' = PauseAfter(delay)
  /\ asked' = Longer(asked, delay)
  /\ job' = [job EXCEPT ![a].phase = "sleep", ![a].timer = PauseAfter(delay)]
  /\ UNCHANGED owed

(* A 429.  The last one of a call ends the article, but pauses the others. *)
RateLimited(a, delay) ==
  /\ job[a].phase = "sent"
  /\ pause' = PauseAfter(delay)
  /\ asked' = Longer(asked, delay)
  /\ job' = [job EXCEPT ![a] =
       IF job[a].request = Attempts THEN [job[a] EXCEPT !.phase = "failed"]
       ELSE AfterPause(job[a], PauseAfter(delay))]
  /\ UNCHANGED owed

(* A truncated answer or a refusal. *)
Refused(a) ==
  /\ job[a].phase = "sent"
  /\ job' = [job EXCEPT ![a].phase = "failed"]
  /\ UNCHANGED <<pause, asked, owed>>

(* min(2^attempt, 12) seconds *)
Backoff(attempt) == IF attempt <= 3 THEN <<2, 4, 8>>[attempt] ELSE 12

(* Mutant: the next conversation goes on with what the last one found. *)
NextAttempt_resumed(j) ==
  [j EXCEPT !.phase = "backoff", !.timer = Backoff(j.attempt), !.attempt = j.attempt + 1,
            !.request = 1]

(* A new conversation. *)
NextAttempt(j) ==
  [j EXCEPT !.phase = "backoff", !.timer = Backoff(j.attempt),
            !.attempt = j.attempt + 1, !.pass = 0, !.request = 1, !.raw = {}]

(* A timeout, another error of the API, or an answer that does not parse. *)
Errs(a) ==
  /\ job[a].phase = "sent"
  /\ job' = [job EXCEPT ![a] =
       IF @.attempt = Attempts THEN [@ EXCEPT !.phase = "failed"] ELSE NextAttempt(@)]
  /\ UNCHANGED <<pause, asked, owed>>

(* _merge_gleaning_pass, or the first answer. *)
Merged(j) == [j EXCEPT !.raw = j.raw \cup {<<j.attempt, j.pass>>}]

(* The initial answer is followed by gleaning, gleaning that found nothing *)
(* by no more of it.                                                       *)
AfterAnswer(j, empty) ==
  IF j.pass = Passes \/ (j.pass > 0 /\ empty) THEN [j EXCEPT !.phase = "done"]
  ELSE [j EXCEPT !.phase = "check", !.pass = j.pass + 1, !.request = 1]

Answered(a, empty) ==
  /\ job[a].phase = "sent"
  /\ job' = [job EXCEPT ![a] = AfterAnswer(Merged(job[a]), empty)]
  /\ UNCHANGED <<pause, asked, owed>>

Wake(a) ==
  /\ job[a].phase \in {"sleep", "backoff"} /\ job[a].timer = 0
  /\ job' = [job EXCEPT ![a].phase = "check"]
  /\ UNCHANGED <<pause, asked, owed>>

Tick ==
  /\ pause > 0 \/ \E a \in Article : job[a].timer > 0
  /\ pause' = Less(pause)
  /\ asked' = Less(asked)
  /\ job' = [a \in Article |-> [job[a] EXCEPT !.timer = Less(@)]]
  /\ owed' = [a \in Article |-> Less(owed[a])]

(* The next ingest finds the pause of the last one. *)
NextIngest ==
  /\ \A a \in Article : job[a].phase \in Ended
  /\ job' = [a \in Article |-> Fresh]
  /\ owed' = [a \in Article |-> 0]
  /\ UNCHANGED <<pause, asked>>

Init ==
  /\ job = [a \in Article |-> Fresh]
  /\ pause = 0 /\ asked = 0
  /\ owed = [a \in Article |-> 0]

Extract(a) ==
  \/ Acquire(a) \/ CheckPause(a) \/ Send(a) \/ Wake(a) \/ Refused(a) \/ Errs(a)
  \/ \E delay \in Delay : RateLimited(a, delay)
  \/ \E empty \in BOOLEAN : Answered(a, empty)

Next ==
  \/ \E a \in Article : Extract(a)
  \/ Tick
  \/ NextIngest

Spec == Init /\ [][Next]_vars

(* Time passes, the event loop runs what is due, and every request is      *)
(* answered, if only by its timeout.                                       *)
FairSpec ==
  /\ Spec
  /\ WF_vars(Tick)
  /\ \A a \in Article : SF_vars(Extract(a))

-----------------------------------------------------------------------------
Sends(a) == job[a].phase \in {"check", "wait"} /\ job'[a].phase = "sent"

(* A request is sent only when every delay that the API had asked of any   *)
(* call when this one looked is over.                                      *)
KnownPauseIsKept ==
  [][\A a \in Article : Sends(a) => owed'[a] = 0]_vars

(* The facts of an article come from one conversation, and are all of it.  *)
OneConversation ==
  \A a \in Article :
    job[a].phase = "done" => job[a].raw = {job[a].attempt} \X (0..job[a].pass)

(* No article waits for the semaphore, a pause or an answer for ever,      *)
(* however the pauses of the others add up.                                *)
EveryExtractionEnds ==
  \A a \in Article : job[a].phase = "queued" ~> job[a].phase \in Ended

=============================================================================
