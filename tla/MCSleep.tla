------------------------------- MODULE MCSleep -------------------------------
(***************************************************************************)
(* A small instance of SleepBounds: headers that are absent, doubled,      *)
(* malformed, zero, in and out of range, in every combination.             *)
(***************************************************************************)
EXTENDS SleepBounds

H(n, ok, v) == [count |-> n, digits |-> ok, value |-> v]
Odd == {H(0, TRUE, 0), H(2, TRUE, 1), H(1, FALSE, 1)}

(* MaxTimeout is 2; an epoch of 1 is past when the clock starts.           *)
Timeouts  == Odd \cup {H(1, TRUE, v) : v \in 0..3}
Deadlines == Odd \cup {H(1, TRUE, v) : v \in 0..5}
AllRequests == [drainTimeout : Timeouts, containmentTimeout : Timeouts,
                drainDeadline : Deadlines, containmentDeadline : Deadlines]
Ahead == 3
=============================================================================
