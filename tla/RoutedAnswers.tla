--------------------------- MODULE RoutedAnswers ---------------------------
(***************************************************************************)
(* What live routing promises a client, whatever happens inside: every     *)
(* request is answered once, by the frontier, by the local backend or with *)
(* an error, or is cut off when the proxy restarts; the local backend      *)
(* answers only a category that the statistics have qualified, and only a  *)
(* request that arrived before its session was barred.  A session is       *)
(* barred only by a request of its own.                                    *)
(***************************************************************************)
CONSTANTS Sessions, Cats, Reqs

VARIABLES
    sess, cat,  \* each request's session and category
    asked,      \* requests that have arrived
    answer,     \* their answers
    qualified,  \* categories the statistics have judged routable
    barred,     \* sessions that stay on the frontier
    late        \* requests that arrived when their session was barred

vars == <<sess, cat, asked, answer, qualified, barred, late>>

Waiting(r) == r \in asked /\ answer[r] = "none"

Init ==
    /\ sess \in [Reqs -> Sessions]
    /\ cat \in [Reqs -> Cats]
    /\ asked = {}
    /\ answer = [r \in Reqs |-> "none"]
    /\ qualified \in SUBSET Cats
    /\ barred = {}
    /\ late = {}

Ask(r) ==
    /\ r \notin asked
    /\ asked' = asked \cup {r}
    /\ late' = IF sess[r] \in barred THEN late \cup {r} ELSE late
    /\ UNCHANGED <<sess, cat, answer, qualified, barred>>

Answer(r, how) ==
    /\ Waiting(r)
    /\ how = "local" => r \notin late /\ cat[r] \in qualified
    /\ answer' = [answer EXCEPT ![r] = how]
    /\ UNCHANGED <<sess, cat, asked, qualified, barred, late>>

Qualify(c) ==
    /\ qualified' = qualified \cup {c}
    /\ UNCHANGED <<sess, cat, asked, answer, barred, late>>

Bar(s) ==
    /\ \E r \in Reqs : Waiting(r) /\ sess[r] = s
    /\ barred' = barred \cup {s}
    /\ UNCHANGED <<sess, cat, asked, answer, qualified, late>>

CutOff ==
    /\ answer' = [r \in Reqs |-> IF Waiting(r) THEN "cut" ELSE answer[r]]
    /\ barred' = {}
    /\ UNCHANGED <<sess, cat, asked, qualified, late>>

Respond(r) == \E how \in {"frontier", "local", "error"} : Answer(r, how)

Next ==
    \/ \E r \in Reqs : Ask(r) \/ Respond(r)
    \/ \E c \in Cats : Qualify(c)
    \/ \E s \in Sessions : Bar(s)
    \/ CutOff

Spec == Init /\ [][Next]_vars /\ \A r \in Reqs : WF_vars(Respond(r))
=============================================================================
