------------------------------- MODULE MCProxy -------------------------------
(* Small instances of SleeperProxy: two models, two or three requests, one *)
(* or two POST /sleep threads, the main thread or two startup handlers.    *)
EXTENDS SleeperProxy, TLC

CONSTANTS a, b, r1, r2, r3, s1, s2, c1, c2

MCModels == {a, b}
Requests2 == {r1, r2}
Requests3 == {r1, r2, r3}
OneRequest == {r1}
OneSleeper == {s1}
TwoSleepers == {s1, s2}
NoThreads == {}
MainThread == {c1}
TwoHandlers == {c1, c2}

(* Bound: which request asks for which model.  Requests and models are      *)
(* interchangeable, so the only assignment left out asks for one alone.    *)
Assigned ==
  \A r \in Requests : target[r] \in {None, IF r = r3 THEN b ELSE a}

Symmetry2 == Permutations(MCModels) \cup Permutations(Requests2)
=============================================================================
