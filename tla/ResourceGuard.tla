--------------------------- MODULE ResourceGuard ---------------------------
(***************************************************************************)
(* One call of FileAdmissionGuard (admission.py:47-82): it reads the host's*)
(* resource snapshot, admits or denies, or naps and reads again, while the *)
(* host rewrites the file and what it says grows old.                      *)
(***************************************************************************)
EXTENDS Naturals

CONSTANT Refreshes  \* unknown_state_refreshes

ASSUME RefreshesAssumption == Refreshes \in Nat

(* The reasons of a denial: the one that is worth another read, the others *)
(* of RESOURCE_UNCERTAINTY_REASONS, any other.                             *)
Unknown == "unknown_model_state"
Uncertain == {Unknown, "monitor_trouble"}
Reasons == Uncertain \cup {"pressure"}

(* What the file may hold about the model.  The parser takes only what is  *)
(* readable.  The file is "early" if it is dated more than five seconds    *)
(* ahead of the clock, "late" if it is older than its own maximum.         *)
Ages == {"early", "fresh", "late"}
Statuses == [readable : BOOLEAN, allowed : BOOLEAN, reason : Reasons, age : Ages]

VARIABLES
  required,  \* the model is configured with "required": true
  status,    \* the file
  pc,        \* "read", "judge", "nap", "admitted" or "denied"
  attempt,   \* the loop's variable
  got        \* what the last read returned

guardVars == <<required, status, pc, attempt, got>>

Init == /\ required \in BOOLEAN
        /\ status \in Statuses /\ got = status
        /\ pc = "read" /\ attempt = 0

-----------------------------------------------------------------------------
(* The host publishes; time passes.                                        *)
Rewrite == /\ status' \in Statuses
           /\ UNCHANGED <<required, pc, attempt, got>>

Older(s) == [s EXCEPT !.age = IF @ = "early" THEN "fresh" ELSE "late"]

GrowOld == /\ status' \in {status, Older(status)}
           /\ got' \in {got, Older(got)}
           /\ UNCHANGED <<required, pc, attempt>>

-----------------------------------------------------------------------------
(* A file that cannot be used says nothing against a required model.       *)
Read == /\ pc = "read"
        /\ got' = status
        /\ pc' = CASE status.readable -> "judge"
                   [] ~status.readable /\ required -> "admitted"
                   [] OTHER -> "denied"
        /\ UNCHANGED <<required, status, attempt>>

Stale == got.age # "fresh"

(* Mutant: uncertainty excuses nobody.                                     *)
ExcusedNever == FALSE

(* The denial is one of those a required model does not suffer from.       *)
Excused == required /\ got.reason \in Uncertain

Decide(place) == /\ pc' = place
                 /\ UNCHANGED <<required, status, attempt, got>>

(* A stale file admits a required model unless it denies without excuse.   *)
JudgeStale == /\ pc = "judge" /\ Stale
              /\ Decide(IF required /\ (got.allowed \/ Excused)
                          THEN "admitted" ELSE "denied")

JudgeFresh == /\ pc = "judge" /\ ~Stale
              /\ got.allowed \/ Excused
              /\ Decide("admitted")

Refused == pc = "judge" /\ ~Stale /\ ~got.allowed /\ ~Excused

(* Mutant: one attempt too many, and the loop runs out.                    *)
LastAttemptPassed == attempt > Refreshes

LastAttempt == attempt >= Refreshes

Deny == /\ Refused
        /\ got.reason # Unknown \/ LastAttempt
        /\ Decide("denied")

Nap == /\ Refused
       /\ got.reason = Unknown /\ ~LastAttempt
       /\ Decide("nap")

(* Mutant: the loop forgets to count.                                      *)
WakeUncounted == /\ pc = "nap"
                 /\ pc' = "read"
                 /\ UNCHANGED <<required, status, attempt, got>>

(* The next turn.  A for loop that runs out falls through to the end of the*)
(* function, and who returns from the guard is admitted.                   *)
Wake == /\ pc = "nap"
        /\ attempt' = attempt + 1
        /\ pc' = IF attempt' <= Refreshes THEN "read" ELSE "admitted"
        /\ UNCHANGED <<required, status, got>>

Guard == Read \/ JudgeStale \/ JudgeFresh \/ Deny \/ Nap \/ Wake

Next == Rewrite \/ GrowOld \/ Guard

Spec == Init /\ [][Next]_guardVars

(* The thread runs and its naps end.                                       *)
FairSpec == Spec /\ WF_guardVars(Guard)

-----------------------------------------------------------------------------
TypeOK == /\ required \in BOOLEAN
          /\ status \in Statuses /\ got \in Statuses
          /\ pc \in {"read", "judge", "nap", "admitted", "denied"}
          /\ attempt \in 0..Refreshes

(* SLP-LIFE-009, admission.py:47-82: an optional model is admitted only on *)
(* a file that was read, that is fresh when it is judged, and that allows  *)
(* the model; however often the guard has tried, its patience never ends   *)
(* in an admission.                                                        *)
OptionalFailsClosed ==
  [][pc # "admitted" /\ pc' = "admitted" /\ ~required
       => got'.readable /\ got'.age = "fresh" /\ got'.allowed]_guardVars

(* SLP-LIFE-009, admission.py:63-65, 73-74, 78-79: a required model is     *)
(* denied only by a reason that is not an uncertainty and that the file    *)
(* gave, whatever the host publishes and however long the guard looks; and *)
(* at the first look: it never waits for the monitor while it holds the    *)
(* condition.  The file that denies may be old (StaleNeverDenies).         *)
RequiredSuffersPressureOnly ==
  required => /\ pc # "nap" /\ attempt = 0
              /\ pc = "denied" => /\ got.readable /\ ~got.allowed
                                  /\ got.reason = "pressure"

(* README.md:108-111: "File-backed resource admission keeps required models*)
(* available when the host monitor is missing, stale, malformed, or reports*)
(* unknown model state, while fresh affirmative pressure still denies."    *)
StaleNeverDenies ==
  [][pc = "judge" /\ pc' = "denied" /\ required => ~Stale]_guardVars

(* manager.py:451: the guard runs under the condition, which every request *)
(* and every POST /sleep needs.  It ends, whatever the host publishes.     *)
GuardEnds == <>(pc \in {"admitted", "denied"})
=============================================================================
