---------------------------- MODULE ClaimPromise ----------------------------
(***************************************************************************)
(* What the claim graph promises, whatever the queries it is made of: an   *)
(* article supports exactly the claims its latest processing produced, a   *)
(* claim is supported while some article supports it, no claim is          *)
(* forgotten, and only a reviewer hides a claim or brings it back.         *)
(***************************************************************************)
CONSTANTS
  Article,
  Claim

VARIABLES
  latest,     \* [Article -> SUBSET Claim], what each article last produced
  known,      \* every claim some processing ever produced
  supported,  \* the claims the graph presents as supported
  hidden      \* the claims a reviewer rejected

vars == <<latest, known, supported, hidden>>

Supported(found) == UNION {found[a] : a \in Article}

Init ==
  /\ latest \in [Article -> SUBSET Claim]
  /\ known = Supported(latest)
  /\ supported = Supported(latest)
  /\ hidden = {}

Process(a, found) ==
  /\ latest' = [latest EXCEPT ![a] = found]
  /\ known' = known \cup found
  /\ supported' = Supported(latest')
  /\ UNCHANGED hidden

Reject(c) ==
  /\ c \in known
  /\ hidden' = hidden \cup {c}
  /\ UNCHANGED <<latest, known, supported>>

Restore(c) ==
  /\ c \in known
  /\ hidden' = hidden \ {c}
  /\ UNCHANGED <<latest, known, supported>>

Forget ==
  /\ latest' = [a \in Article |-> {}]
  /\ known' = {}
  /\ supported' = {}
  /\ hidden' = {}

Next ==
  \/ \E a \in Article : latest'[a] \subseteq Claim /\ Process(a, latest'[a])
  \/ \E c \in Claim : Reject(c) \/ Restore(c)
  \/ Forget

Spec == Init /\ [][Next]_vars
=============================================================================
