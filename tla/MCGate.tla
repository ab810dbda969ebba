------------------------------- MODULE MCGate -------------------------------
(***************************************************************************)
(* A small instance of AdmissionGate.                                      *)
(***************************************************************************)
EXTENDS AdmissionGate

CONSTANTS m, o, r1, r2, h1, a1

File(s, ok, a) == [state |-> s, allowed |-> ok, age |-> a]

TwoModels == {m, o}
TwoRequests == {r1, r2}
OneProbe == {h1}
OneAction == {a1}
OnlyM == {m}

(* A projection that is missing, old, a warning, a denial, an old denial.  *)
(* Fresh and healthy ones only let requests for o behave like those for m. *)
Doubtful == {File("unreadable", FALSE, "fresh"), File("healthy", TRUE, "late"),
             File("warning", TRUE, "fresh"), File("cutoff", FALSE, "fresh"),
             File("cutoff", FALSE, "late")}
=============================================================================
