--------------------------- MODULE LlmCallsProofs ---------------------------
(***************************************************************************)
(* Proofs about LlmCalls, for any number of articles, attempts and passes  *)
(* and any delays.                                                         *)
(*                                                                         *)
(* A request respects the pauses its article knew of because the shared    *)
(* pause never falls behind what the API asked for, and because an article *)
(* that waits sleeps at least as long as it owed when it looked.           *)
(***************************************************************************)
EXTENDS LlmCalls, FiniteSetTheorems, TLAPS

PauseCoversAsked == asked <= pause

WaitCoversOwed ==
  \A a \in Article : job[a].phase = "wait" => owed[a] <= job[a].timer

(* What a conversation has found before the answer it is about to get. *)
FoundSoFar ==
  \A a \in Article :
    job[a].phase \notin Ended => job[a].raw = {job[a].attempt} \X (0..(job[a].pass - 1))

Timers ==
  \A a \in Article : job[a].timer > 0 => job[a].phase \in {"wait", "sleep", "backoff"}

IInv ==
  /\ job \in [Article -> Job]
  /\ pause \in Nat /\ asked \in Nat
  /\ owed \in [Article -> Nat]
  /\ Timers
  /\ PauseCoversAsked
  /\ WaitCoversOwed
  /\ FoundSoFar
  /\ OneConversation

LEMMA InitInvariant == Init => IInv
PROOF
  <1> SUFFICES ASSUME Init PROVE IInv
    OBVIOUS
  <1> USE SettingsAssumption
  <1>1. Fresh \in Job
    BY DEF Fresh, Job, Phase
  <1>2. {1} \X (0..(0 - 1)) = {}
    OBVIOUS
  <1> QED BY <1>1, <1>2 DEF Init, IInv, Timers, PauseCoversAsked, WaitCoversOwed, FoundSoFar,
                            OneConversation, Fresh, Ended

(* An action of one article, its job becoming next, keeps the invariant if *)
(* next is well-formed.                                                    *)
WellFormed(next, owes) ==
  /\ next \in Job
  /\ next.timer > 0 => next.phase \in {"wait", "sleep", "backoff"}
  /\ next.phase = "wait" => owes <= next.timer
  /\ next.phase \notin Ended => next.raw = {next.attempt} \X (0..(next.pass - 1))
  /\ next.phase = "done" => next.raw = {next.attempt} \X (0..next.pass)

LEMMA JobsWellFormed ==
  ASSUME IInv, NEW a \in Article
  PROVE  WellFormed(job[a], owed[a])
  BY DEF IInv, WellFormed, Timers, WaitCoversOwed, FoundSoFar, OneConversation

LEMMA OneJob ==
  ASSUME NEW a \in Article, NEW next, NEW owes \in Nat,
         IInv, WellFormed(next, owes), job' = [job EXCEPT ![a] = next],
         owed' = [owed EXCEPT ![a] = owes], pause' \in Nat, asked' \in Nat, asked' <= pause'
  PROVE  IInv'
PROOF
  <1>1. \A b \in Article : WellFormed(job'[b], owed'[b])
    BY JobsWellFormed DEF IInv
  <1>2. job' \in [Article -> Job] /\ owed' \in [Article -> Nat]
    BY <1>1 DEF WellFormed, IInv
  <1> QED BY <1>1, <1>2 DEF WellFormed, IInv, Timers, PauseCoversAsked, WaitCoversOwed,
                            FoundSoFar, OneConversation

LEMMA OwedStays ==
  ASSUME IInv, NEW a \in Article, UNCHANGED owed
  PROVE  owed' = [owed EXCEPT ![a] = owed[a]] /\ owed[a] \in Nat
  BY DEF IInv

LEMMA AcquireStep ==
  ASSUME IInv, NEW a \in Article, Acquire(a)
  PROVE  IInv'
PROOF
  <1> DEFINE next == [job[a] EXCEPT !.phase = "check"]
  <1>1. WellFormed(next, owed[a])
    BY JobsWellFormed DEF WellFormed, Acquire, Job, Phase, Ended
  <1> QED BY <1>1, OwedStays, OneJob DEF Acquire, IInv, PauseCoversAsked

LEMMA CheckPauseStep ==
  ASSUME IInv, NEW a \in Article, CheckPause(a)
  PROVE  IInv'
PROOF
  <1> DEFINE next == [job[a] EXCEPT !.phase = IF pause > 0 THEN "wait" ELSE "sent",
                                    !.timer = pause]
  <1>1. WellFormed(next, asked)
    BY JobsWellFormed DEF WellFormed, CheckPause, Job, Phase, Ended, IInv, PauseCoversAsked
  <1> QED BY <1>1, OneJob DEF CheckPause, IInv, PauseCoversAsked

LEMMA SendStep ==
  ASSUME IInv, NEW a \in Article, Send(a)
  PROVE  IInv'
PROOF
  <1> DEFINE next == [job[a] EXCEPT !.phase = "sent"]
  <1>1. WellFormed(next, owed[a])
    BY JobsWellFormed DEF WellFormed, Send, Job, Phase, Ended
  <1> QED BY <1>1, OwedStays, OneJob DEF Send, IInv, PauseCoversAsked

LEMMA WakeStep ==
  ASSUME IInv, NEW a \in Article, Wake(a)
  PROVE  IInv'
PROOF
  <1> DEFINE next == [job[a] EXCEPT !.phase = "check"]
  <1>1. WellFormed(next, owed[a])
    BY JobsWellFormed DEF WellFormed, Wake, Job, Phase, Ended
  <1> QED BY <1>1, OwedStays, OneJob DEF Wake, IInv, PauseCoversAsked

LEMMA RefusedStep ==
  ASSUME IInv, NEW a \in Article, Refused(a)
  PROVE  IInv'
PROOF
  <1> DEFINE next == [job[a] EXCEPT !.phase = "failed"]
  <1>1. WellFormed(next, owed[a])
    BY JobsWellFormed DEF WellFormed, Refused, Job, Phase, Ended
  <1> QED BY <1>1, OwedStays, OneJob DEF Refused, IInv, PauseCoversAsked

LEMMA ErrsStep ==
  ASSUME IInv, NEW a \in Article, Errs(a)
  PROVE  IInv'
PROOF
  <1> USE SettingsAssumption
  <1> DEFINE next == IF job[a].attempt = Attempts THEN [job[a] EXCEPT !.phase = "failed"]
                     ELSE NextAttempt(job[a])
  <1>1. job[a] \in Job /\ job[a].phase = "sent" /\ WellFormed(job[a], owed[a])
    BY JobsWellFormed DEF Errs, WellFormed
  <1>2. WellFormed(next, owed[a])
    <2>1. CASE job[a].attempt = Attempts
      BY <1>1, <2>1 DEF WellFormed, Job, Phase, Ended
    <2>2. CASE job[a].attempt # Attempts
      <3>1. Backoff(job[a].attempt) \in Nat
        BY <1>1 DEF Backoff, Job
      <3>2. next = [phase |-> "backoff", attempt |-> job[a].attempt + 1, pass |-> 0,
                    request |-> 1, timer |-> Backoff(job[a].attempt), raw |-> {}]
        BY <1>1, <2>2 DEF NextAttempt, Job
      <3>3. next \in Job
        BY <1>1, <2>2, <3>1, <3>2 DEF Job, Phase
      <3>4. {next.attempt} \X (0..(next.pass - 1)) = {}
        BY <3>2
      <3> HIDE DEF next
      <3> QED BY <3>2, <3>3, <3>4 DEF WellFormed, Ended
    <2> QED BY <2>1, <2>2
  <1>3. job' = [job EXCEPT ![a] = next]
    BY DEF Errs
  <1> HIDE DEF next
  <1> QED BY <1>2, <1>3, OwedStays, OneJob DEF Errs, IInv, PauseCoversAsked

LEMMA RateLimitedStep ==
  ASSUME IInv, NEW a \in Article, NEW delay \in Delay, RateLimited(a, delay)
  PROVE  IInv'
PROOF
  <1> USE SettingsAssumption
  <1> DEFINE next == IF job[a].request = Attempts THEN [job[a] EXCEPT !.phase = "failed"]
                     ELSE AfterPause(job[a], PauseAfter(delay))
  <1>1. job[a] \in Job /\ job[a].phase = "sent" /\ WellFormed(job[a], owed[a])
    BY JobsWellFormed DEF RateLimited, WellFormed
  <1>2. /\ delay \in Nat
        /\ PauseAfter(delay) \in Nat
        /\ pause' \in Nat /\ asked' \in Nat /\ asked' <= pause'
    BY DEF RateLimited, PauseAfter, Longer, IInv, PauseCoversAsked
  <1>3. WellFormed(next, owed[a])
    <2>1. CASE job[a].request = Attempts
      BY <1>1, <2>1 DEF WellFormed, Job, Phase, Ended
    <2>2. CASE job[a].request # Attempts
      <3>1. next = [phase |-> "sleep", attempt |-> job[a].attempt, pass |-> job[a].pass,
                    request |-> job[a].request + 1, timer |-> PauseAfter(delay),
                    raw |-> job[a].raw]
        BY <1>1, <2>2 DEF AfterPause, Job
      <3>2. next \in Job
        BY <1>1, <1>2, <2>2, <3>1 DEF Job, Phase
      <3> HIDE DEF next
      <3> QED BY <1>1, <3>1, <3>2 DEF WellFormed, Ended
    <2> QED BY <2>1, <2>2
  <1>4. job' = [job EXCEPT ![a] = next] /\ UNCHANGED owed
    BY DEF RateLimited
  <1> HIDE DEF next
  <1> QED BY <1>2, <1>3, <1>4, OwedStays, OneJob

LEMMA AnsweredStep ==
  ASSUME IInv, NEW a \in Article, NEW empty \in BOOLEAN, Answered(a, empty)
  PROVE  IInv'
PROOF
  <1> USE SettingsAssumption
  <1> DEFINE merged == Merged(job[a])
             next == AfterAnswer(merged, empty)
  <1>1. job[a] \in Job /\ job[a].phase = "sent" /\ WellFormed(job[a], owed[a])
    BY JobsWellFormed DEF Answered, WellFormed
  <1>2. /\ merged.raw = {job[a].attempt} \X (0..job[a].pass)
        /\ merged \in Job
        /\ merged.attempt = job[a].attempt /\ merged.pass = job[a].pass
    <2>1. job[a].raw = {job[a].attempt} \X (0..(job[a].pass - 1))
      BY <1>1 DEF WellFormed, Ended
    <2>2. job[a].attempt \in 1..Attempts /\ job[a].pass \in 0..Passes
      BY <1>1 DEF Job
    <2>3. merged.raw = job[a].raw \cup {<<job[a].attempt, job[a].pass>>}
      BY <1>1 DEF Job, Merged
    <2>4. 0..job[a].pass = (0..(job[a].pass - 1)) \cup {job[a].pass}
      BY <2>2
    <2>5. merged.raw = {job[a].attempt} \X (0..job[a].pass)
      BY <2>1, <2>3, <2>4
    <2>6. merged.raw \in SUBSET ((1..Attempts) \X (0..Passes))
      BY <2>2, <2>5
    <2> QED BY <1>1, <2>5, <2>6 DEF Job, Merged
  <1>3. merged.phase = "sent" /\ merged.timer = 0
    BY <1>1 DEF Merged, WellFormed, Job
  <1>4. job' = [job EXCEPT ![a] = next]
    BY DEF Answered
  <1>5. WellFormed(next, owed[a])
    <2> HIDE DEF merged
    <2>1. next.raw = merged.raw /\ next.attempt = merged.attempt /\ next.timer = 0
      BY <1>2, <1>3 DEF AfterAnswer, Job
    <2>2. CASE next.phase = "done" /\ next.pass = merged.pass
      BY <1>2, <1>3, <2>1, <2>2 DEF AfterAnswer, WellFormed, Job, Phase, Ended
    <2>3. CASE next.phase = "check" /\ next.pass = merged.pass + 1
      <3>a. merged.pass # Passes
            /\ next = [merged EXCEPT !.phase = "check", !.pass = merged.pass + 1, !.request = 1]
        BY <1>2, <1>3, <2>3 DEF AfterAnswer, Job
      <3>1. next \in Job
        <4>1. merged.pass + 1 \in 0..Passes /\ 1 \in 1..Attempts /\ "check" \in Phase
          BY <1>2, <3>a DEF Job, Phase
        <4> QED BY <1>2, <3>a, <4>1 DEF Job
      <3>2. merged.pass \in Nat /\ next.pass - 1 = merged.pass
        BY <1>2, <2>3 DEF Job
      <3>3. next.raw = {next.attempt} \X (0..(next.pass - 1))
        BY <1>2, <2>1, <3>2
      <3> HIDE DEF next
      <3> QED BY <2>1, <2>3, <3>1, <3>3 DEF WellFormed, Ended
    <2> QED BY <1>2, <2>2, <2>3 DEF AfterAnswer, Job
  <1> HIDE DEF next
  <1> QED BY <1>4, <1>5, OwedStays, OneJob DEF Answered, IInv, PauseCoversAsked

LEMMA TickStep ==
  ASSUME IInv, Tick
  PROVE  IInv'
PROOF
  <1>1. /\ pause' \in Nat /\ asked' \in Nat /\ asked' <= pause'
        /\ owed' \in [Article -> Nat]
    BY DEF Tick, Less, IInv, PauseCoversAsked
  <1>2. ASSUME NEW a \in Article
        PROVE  WellFormed(job'[a], owed'[a])
    <2>1. job[a] \in Job /\ owed[a] \in Nat
      BY DEF IInv
    <2>2. job'[a] = [job[a] EXCEPT !.timer = Less(job[a].timer)] /\ owed'[a] = Less(owed[a])
      BY DEF Tick
    <2> QED BY <2>1, <2>2, JobsWellFormed DEF WellFormed, Job, Less, Ended
  <1>3. job' = [a \in Article |-> job'[a]]
    BY DEF Tick
  <1> QED BY <1>1, <1>2, <1>3 DEF WellFormed, IInv, Timers, PauseCoversAsked, WaitCoversOwed,
                                  FoundSoFar, OneConversation

LEMMA NextIngestStep ==
  ASSUME IInv, NextIngest
  PROVE  IInv'
PROOF
  <1> USE SettingsAssumption
  <1>1. Fresh \in Job
    BY DEF Fresh, Job, Phase
  <1>2. {1} \X (0..(0 - 1)) = {}
    OBVIOUS
  <1> QED BY <1>1, <1>2 DEF NextIngest, IInv, Timers, PauseCoversAsked, WaitCoversOwed,
                            FoundSoFar, OneConversation, Fresh, Ended

LEMMA NextInvariant ==
  ASSUME IInv, [Next]_vars
  PROVE  IInv'
PROOF
  <1>1. ASSUME NEW a \in Article, Extract(a)
        PROVE  IInv'
    BY <1>1, AcquireStep, CheckPauseStep, SendStep, WakeStep, RefusedStep, ErrsStep,
       RateLimitedStep, AnsweredStep DEF Extract
  <1>2. CASE UNCHANGED vars
    BY <1>2 DEF vars, IInv, Timers, PauseCoversAsked, WaitCoversOwed, FoundSoFar, OneConversation
  <1> QED BY <1>1, <1>2, TickStep, NextIngestStep DEF Next

(* The pause covers every delay the API asked for, a waiting article       *)
(* sleeps at least as long as it owed, and a conversation holds exactly    *)
(* the answers it got.                                                     *)
THEOREM CallsInvariant == Spec => []IInv
PROOF
  <1> QED BY InitInvariant, NextInvariant, PTL DEF Spec

(* At most MaxConcurrency articles hold the semaphore.                     *)
LEMMA RunningStays ==
  ASSUME Cardinality(Running) <= MaxConcurrency, Running' \subseteq Running
  PROVE  Cardinality(Running') <= MaxConcurrency
PROOF
  <1>1. Running \subseteq Article
    BY DEF Running
  <1>2. IsFiniteSet(Running)
    BY <1>1, ArticleAssumption, FS_Subset
  <1>3. Cardinality(Running') <= Cardinality(Running)
    BY <1>2, FS_Subset
  <1>4. Cardinality(Running) \in Nat /\ Cardinality(Running') \in Nat
    BY <1>2, FS_Subset, FS_CardinalityType
  <1> QED BY <1>3, <1>4, SettingsAssumption

LEMMA RunningGrows ==
  ASSUME NEW a \in Article, Cardinality(Running) < MaxConcurrency,
         Running' \subseteq Running \cup {a}
  PROVE  Cardinality(Running') <= MaxConcurrency
PROOF
  <1>1. Running \subseteq Article
    BY DEF Running
  <1>2. IsFiniteSet(Running)
    BY <1>1, ArticleAssumption, FS_Subset
  <1>3. /\ IsFiniteSet(Running \cup {a})
        /\ Cardinality(Running \cup {a}) <= Cardinality(Running) + 1
    <2>1. Cardinality(Running) \in Nat
      BY <1>2, FS_CardinalityType
    <2>2. /\ IsFiniteSet(Running \cup {a})
          /\ \/ Cardinality(Running \cup {a}) = Cardinality(Running)
             \/ Cardinality(Running \cup {a}) = Cardinality(Running) + 1
      BY <1>2, FS_AddElement
    <2> HIDE DEF Running
    <2> QED BY <2>1, <2>2
  <1>4. Cardinality(Running') <= Cardinality(Running \cup {a})
    BY <1>3, FS_Subset
  <1>5. /\ Cardinality(Running) \in Nat /\ Cardinality(Running') \in Nat
        /\ Cardinality(Running \cup {a}) \in Nat
    BY <1>2, <1>3, FS_Subset, FS_CardinalityType
  <1> QED BY <1>3, <1>4, <1>5, SettingsAssumption

LEMMA RunningBound ==
  ASSUME IInv, Cardinality(Running) <= MaxConcurrency, [Next]_vars
  PROVE  Cardinality(Running') <= MaxConcurrency
PROOF
  <1>1. ASSUME NEW a \in Article, Acquire(a)
        PROVE  Cardinality(Running') <= MaxConcurrency
    BY <1>1, RunningGrows DEF Acquire, Running, IInv
  <1>2. ASSUME NEW a \in Article, Extract(a), ~Acquire(a)
        PROVE  Running' \subseteq Running
    <2>1. job[a].phase \notin {"queued"} \cup Ended /\ \A b \in Article \ {a} : job'[b] = job[b]
      BY <1>2 DEF Extract, CheckPause, Send, Wake, Refused, Errs, RateLimited, Answered, Ended, IInv
    <2> QED BY <2>1 DEF Running
  <1>3. CASE Tick
    <2>1. \A b \in Article : job'[b].phase = job[b].phase
      BY <1>3 DEF Tick, IInv, Job
    <2> QED BY <2>1, RunningStays DEF Running
  <1>4. CASE NextIngest
    BY <1>4, RunningStays DEF NextIngest, Running, Fresh
  <1>5. CASE UNCHANGED vars
    BY <1>5, RunningStays DEF vars, Running
  <1> QED BY <1>1, <1>2, <1>3, <1>4, <1>5, RunningStays DEF Next

(* The calls stay well-typed, and the semaphore holds.                     *)
THEOREM TypeCorrect == Spec => []TypeOK
PROOF
  <1> DEFINE Bounded == Cardinality(Running) <= MaxConcurrency
  <1>1. Init => Bounded
    <2>1. Init => Running = {}
      BY DEF Init, Running, Fresh
    <2>2. Cardinality({}) = 0
      BY FS_EmptySet
    <2> QED BY <2>1, <2>2, SettingsAssumption
  <1>2. IInv /\ Bounded => TypeOK
    BY DEF IInv, TypeOK, Timers
  <1>3. IInv /\ Bounded /\ [Next]_vars => Bounded'
    BY RunningBound
  <1> HIDE DEF Bounded
  <1> QED BY <1>1, <1>2, <1>3, CallsInvariant, PTL DEF Spec

(* What an article's extraction returns is all of one conversation.        *)
THEOREM ResultsAreWhole == Spec => []OneConversation
PROOF
  <1>1. IInv => OneConversation
    BY DEF IInv
  <1> QED BY <1>1, CallsInvariant, PTL

(* No request is sent before the end of a delay its sender could know of.  *)
THEOREM KnownPausesAreKept == Spec => KnownPauseIsKept
PROOF
  <1>1. ASSUME IInv, [Next]_vars, NEW a \in Article, Sends(a)
        PROVE  owed'[a] = 0
    <2>1. job[a].phase # job'[a].phase /\ job'[a].phase = "sent"
          /\ job[a].phase \in {"check", "wait"}
      BY <1>1 DEF Sends
    <2>2. CASE \E b \in Article : Extract(b)
      <3>1. PICK b \in Article : Extract(b)
        BY <2>2
      <3>2. b = a
        BY <1>1, <2>1, <3>1 DEF Extract, Acquire, CheckPause, Send, Wake, Refused, Errs,
                                RateLimited, Answered, IInv
      <3>3. CASE CheckPause(a)
        BY <1>1, <2>1, <3>3 DEF CheckPause, IInv, PauseCoversAsked
      <3>4. CASE Send(a)
        BY <1>1, <3>4 DEF Send, IInv, WaitCoversOwed
      <3>5. CASE Acquire(a) \/ Wake(a) \/ Refused(a) \/ Errs(a)
                 \/ (\E delay \in Delay : RateLimited(a, delay))
                 \/ (\E empty \in BOOLEAN : Answered(a, empty))
        BY <2>1, <3>5 DEF Acquire, Wake, Refused, Errs, RateLimited, Answered
      <3> QED BY <3>1, <3>2, <3>3, <3>4, <3>5 DEF Extract
    <2>3. CASE Tick
      BY <1>1, <2>1, <2>3 DEF Tick, IInv, Job
    <2>4. CASE NextIngest
      BY <2>1, <2>4 DEF NextIngest, Fresh
    <2>5. CASE UNCHANGED vars
      BY <2>1, <2>5 DEF vars
    <2> QED BY <1>1, <2>2, <2>3, <2>4, <2>5 DEF Next
  <1>2. IInv /\ [Next]_vars => [\A a \in Article : Sends(a) => owed'[a] = 0]_vars
    BY <1>1
  <1> QED BY <1>2, CallsInvariant, PTL DEF Spec, KnownPauseIsKept

-----------------------------------------------------------------------------
(* What EveryExtractionEnds does not need fairness for.                    *)

PhaseRank(f) ==
  CASE f = "queued" -> 0 [] f \in {"sleep", "backoff"} -> 1 [] f = "check" -> 2
    [] f = "wait" -> 3 [] f = "sent" -> 4 [] f \in Ended -> 5

(* The conversations of an article, the calls of a conversation, the       *)
(* requests of a call and the phases of a request are gone through once.   *)
Further(next, last) ==
  \/ next.attempt > last.attempt
  \/ /\ next.attempt = last.attempt
     /\ \/ next.pass > last.pass
        \/ /\ next.pass = last.pass
           /\ \/ next.request > last.request
              \/ /\ next.request = last.request
                 /\ PhaseRank(next.phase) > PhaseRank(last.phase)

(* Whatever a step does with an article that has not ended, it brings it   *)
(* further, or its timer nearer to the end, or leaves it alone: no pause   *)
(* that the others are given makes it sleep longer.                        *)
ArticlesAdvance ==
  [][\A a \in Article :
       job[a].phase \notin Ended =>
         \/ Further(job'[a], job[a])
         \/ job'[a] = [job[a] EXCEPT !.timer = Less(@)]
         \/ job'[a] = job[a]]_vars

LEMMA ExtractionAdvances ==
  ASSUME IInv, NEW a \in Article, Extract(a)
  PROVE  Further(job'[a], job[a]) /\ \A b \in Article \ {a} : job'[b] = job[b]
PROOF
  <1> USE SettingsAssumption
  <1>1. job \in [Article -> Job] /\ job[a] \in Job
    BY DEF IInv
  <1>2. \A b \in Article \ {a} : job'[b] = job[b]
    BY <1>1 DEF Extract, Acquire, CheckPause, Send, Wake, Refused, Errs, RateLimited, Answered
  <1>3. CASE Acquire(a) \/ Send(a) \/ Wake(a) \/ Refused(a)
    BY <1>1, <1>3 DEF Acquire, Send, Wake, Refused, Job, Further, PhaseRank, Ended
  <1>4. CASE CheckPause(a)
    BY <1>1, <1>4 DEF CheckPause, Job, Further, PhaseRank, Ended
  <1>5. CASE Errs(a)
    BY <1>1, <1>5 DEF Errs, NextAttempt, Job, Further, PhaseRank, Ended
  <1>6. CASE \E delay \in Delay : RateLimited(a, delay)
    BY <1>1, <1>6 DEF RateLimited, AfterPause, Job, Further, PhaseRank, Ended
  <1>7. CASE \E empty \in BOOLEAN : Answered(a, empty)
    BY <1>1, <1>7 DEF Answered, AfterAnswer, Merged, Job, Further, PhaseRank, Ended
  <1> QED BY <1>2, <1>3, <1>4, <1>5, <1>6, <1>7 DEF Extract

(* An extraction never goes back, and nobody makes it sleep longer: after  *)
(* boundedly many of its own steps it has ended.                           *)
THEOREM ExtractionsAdvance == Spec => ArticlesAdvance
PROOF
  <1> DEFINE Forward(a) == \/ Further(job'[a], job[a])
                           \/ job'[a] = [job[a] EXCEPT !.timer = Less(@)]
                           \/ job'[a] = job[a]
  <1>1. ASSUME IInv, [Next]_vars, NEW a \in Article, job[a].phase \notin Ended
        PROVE  Forward(a)
    <2>1. CASE \E b \in Article : Extract(b)
      BY <1>1, <2>1, ExtractionAdvances
    <2>2. CASE Tick
      BY <2>2 DEF Tick
    <2>3. ~NextIngest
      BY <1>1 DEF NextIngest
    <2>4. CASE UNCHANGED vars
      BY <2>4 DEF vars
    <2> QED BY <1>1, <2>1, <2>2, <2>3, <2>4 DEF Next
  <1>2. IInv /\ [Next]_vars => [\A a \in Article : job[a].phase \notin Ended => Forward(a)]_vars
    BY <1>1
  <1> QED BY <1>2, CallsInvariant, PTL DEF Spec, ArticlesAdvance
=============================================================================
