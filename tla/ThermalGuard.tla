---------------------------- MODULE ThermalGuard ----------------------------
(***************************************************************************)
(* FileThermalAdmissionGuard (admission.py): the decision it takes on what *)
(* it has read from two files of the host, the containment latch and the   *)
(* fast thermal projection.                                                *)
(***************************************************************************)
CONSTANTS
  Models,
  Required,   \* the models configured with "required": true
  None        \* no model, no lock holder, no latch

ASSUME ThermalAssumption == Required \subseteq Models /\ None \notin Models

ThermalStates == {"healthy", "warning", "sleep", "recovering", "cutoff",
                  "telemetry_failure"}
AllowedStates == {"healthy", "warning", "telemetry_failure"}

(* What the projection's file may hold; "unreadable" is whatever the parser*)
(* rejects by itself: no file, no JSON, a wrong schema, a wrong type.  Its *)
(* age is "early" if generated_at is more than two seconds ahead of the    *)
(* clock, "late" if it is older than the maximum age.                      *)
Projections == [state   : ThermalStates \cup {"unreadable"},
                allowed : BOOLEAN,
                age     : {"early", "fresh", "late"}]

(* The parser's last test: the state and the decision agree.               *)
Valid(p) == /\ p.state \in ThermalStates
            /\ p.allowed = (p.state \in AllowedStates)

(* A projection that positively denies, of whatever age.                   *)
Denies(p) == Valid(p) /\ ~p.allowed

(* Mutant: a damaged projection denies every model.                        *)
FencedDamagedForAll(m, l, p) ==
  \/ l # None
  \/ ~Valid(p)
  \/ Valid(p) /\ p.age # "fresh" /\ ~(m \in Required /\ p.allowed)
  \/ /\ Valid(p) /\ p.age = "fresh"
     /\ m \in Required => ~p.allowed
     /\ ~p.allowed \/ p.state # "healthy"

(* snapshot(m).fenced, where the latch was read as l (None or the action   *)
(* it names) and the projection as p.  The action_id of the snapshot is l. *)
Fenced(m, l, p) ==
  \/ l # None
  \/ ~Valid(p) /\ m \notin Required
  \/ Valid(p) /\ p.age # "fresh" /\ ~(m \in Required /\ p.allowed)
  \/ /\ Valid(p) /\ p.age = "fresh"
     /\ m \in Required => ~p.allowed
     /\ ~p.allowed \/ p.state # "healthy"
=============================================================================
