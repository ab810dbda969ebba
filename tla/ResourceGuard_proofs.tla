------------------------ MODULE ResourceGuard_proofs ------------------------
(***************************************************************************)
(* Proofs about ResourceGuard, for any number of refreshes.                *)
(***************************************************************************)
EXTENDS ResourceGuard, TLAPS

(* A nap is followed by another read, and only what was read is judged.    *)
NapsAreCounted == pc = "nap" => attempt < Refreshes /\ ~required
JudgesReadable == pc = "judge" => got.readable
RInv == /\ TypeOK /\ NapsAreCounted /\ JudgesReadable
        /\ RequiredSuffersPressureOnly

LEMMA OlderKeeps == ASSUME NEW s \in Statuses
                    PROVE  /\ Older(s) \in Statuses
                           /\ Older(s).readable = s.readable
                           /\ Older(s).allowed = s.allowed
                           /\ Older(s).reason = s.reason
BY DEF Older, Statuses, Ages

(* The inductive invariant.                                                *)
LEMMA RInvHolds == Spec => []RInv
<1>1. Init => RInv
  BY RefreshesAssumption
     DEF Init, RInv, TypeOK, NapsAreCounted, JudgesReadable, RequiredSuffersPressureOnly
<1>2. ASSUME RInv, [Next]_guardVars PROVE RInv'
  <2> USE RefreshesAssumption
      DEF RInv, TypeOK, NapsAreCounted, JudgesReadable, RequiredSuffersPressureOnly
  <2>1. CASE Rewrite
    BY <1>2, <2>1 DEF Rewrite
  <2>2. CASE GrowOld
    <3>1. got' \in Statuses /\ status' \in Statuses
      BY <1>2, <2>2, OlderKeeps DEF GrowOld
    <3>2. /\ got'.readable = got.readable /\ got'.allowed = got.allowed
          /\ got'.reason = got.reason
      BY <1>2, <2>2, OlderKeeps DEF GrowOld
    <3> QED BY <1>2, <2>2, <3>1, <3>2 DEF GrowOld
  <2>3. CASE Read
    BY <1>2, <2>3 DEF Read, Statuses
  <2>4. CASE JudgeStale
    BY <1>2, <2>4 DEF JudgeStale, Decide, Excused, Uncertain, Statuses, Reasons
  <2>5. CASE JudgeFresh
    BY <1>2, <2>5 DEF JudgeFresh, Decide
  <2>6. CASE Deny
    BY <1>2, <2>6 DEF Deny, Refused, Excused, Decide, Uncertain, Statuses, Reasons
  <2>7. CASE Nap
    BY <1>2, <2>7 DEF Nap, Refused, Excused, LastAttempt, Decide, Uncertain
  <2>8. CASE Wake
    BY <1>2, <2>8 DEF Wake
  <2>9. CASE UNCHANGED guardVars
    BY <1>2, <2>9 DEF guardVars
  <2> QED BY <1>2, <2>1, <2>2, <2>3, <2>4, <2>5, <2>6, <2>7, <2>8, <2>9
          DEF Next, Guard
<1> QED BY <1>1, <1>2, PTL DEF Spec

(* Types; the loop's variable stays within the refreshes.                  *)
THEOREM GuardTypeCorrect == Spec => []TypeOK
BY RInvHolds, PTL DEF RInv

(* A required model neither waits nor suffers from an uncertain monitor.   *)
THEOREM RequiredStays == Spec => []RequiredSuffersPressureOnly
BY RInvHolds, PTL DEF RInv

(* An optional model is admitted on a fresh permission only: in particular *)
(* the loop never runs out, for any number of refreshes.                   *)
THEOREM FailsClosed == Spec => OptionalFailsClosed
<1>1. ASSUME RInv, [Next]_guardVars, pc # "admitted", pc' = "admitted", ~required
      PROVE  got'.readable /\ got'.age = "fresh" /\ got'.allowed
  <2> USE RefreshesAssumption DEF RInv, TypeOK, NapsAreCounted, JudgesReadable
  <2>1. Read \/ JudgeStale \/ JudgeFresh \/ Wake
    BY <1>1 DEF Next, Guard, guardVars, Rewrite, GrowOld, Deny, Nap, Decide
  <2>2. JudgeFresh
    BY <1>1, <2>1 DEF Read, JudgeStale, Wake, Decide
  <2> QED BY <1>1, <2>2 DEF JudgeFresh, Decide, Excused, Stale
<1> QED BY <1>1, RInvHolds, PTL DEF Spec, OptionalFailsClosed
=============================================================================
