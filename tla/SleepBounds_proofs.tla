------------------------- MODULE SleepBounds_proofs -------------------------
(***************************************************************************)
(* Proofs about SleepBounds, for any headers, clocks, configured timeout   *)
(* and granularity of the clock.                                           *)
(***************************************************************************)
EXTENDS SleepBounds, TLAPS

(* Milliseconds in ticks.                                                  *)
LEMMA Ticks == ASSUME BoundsAssumption, NEW a \in Nat PROVE a * Ms \in Int
BY DEF BoundsAssumption

LEMMA TicksMonotone ==
  ASSUME BoundsAssumption, NEW a \in Nat, NEW b \in Nat, a <= b
  PROVE  a * Ms <= b * Ms
BY DEF BoundsAssumption

LEMMA HeaderTypes ==
  ASSUME BoundsAssumption, headers \in Requests
  PROVE  \A n \in Names : Value(n) \in Nat /\ headers[n].count \in Nat
BY DEF BoundsAssumption, Value, Header

LEMMA ContainmentType ==
  ASSUME BoundsAssumption, headers \in Requests
  PROVE  Containment \in Nat
BY HeaderTypes DEF Containment, Names

(* What the parser lets through is well-formed.                            *)
LEMMA AcceptedIsSound ==
  ASSUME BoundsAssumption, headers \in Requests, ~Rejected
  PROVE  /\ ~Refused
         /\ ~(Relative /\ Absolute)
         /\ Relative => Value("drainTimeout") <= Containment
         /\ Absolute => Value("drainDeadline") <= Value("containmentDeadline")
BY HeaderTypes
   DEF Rejected, Refused, Relative, Absolute, Malformed, Given, Containment, Names

-----------------------------------------------------------------------------
Decided == pc \notin Deciding \cup {"rejected"}

(* Both deadlines, in the caller's own words.                              *)
NeverLater ==
  /\ Relative => /\ drainBy <= startedAt + Value("drainTimeout") * Ms
                 /\ containBy <= startedAt + Containment * Ms
  /\ Absolute => /\ drainBy <= Value("drainDeadline") * Ms - Offset
                 /\ containBy <= Value("containmentDeadline") * Ms - Offset

SInv == /\ TypeOK
        /\ pc \notin {"parse", "rejected"} => ~Rejected
        /\ pc \notin {"parse", "rejected"} => startedAt <= now
        /\ Decided => /\ Bounded => NeverLater /\ drainBy <= startedAt + Configured
                      /\ ContainmentLast

(* The steps after SetDeadlines only move on, the clock aside.             *)
LEMMA LaterSteps ==
  ASSUME Next
  PROVE  \/ Tick \/ Reject \/ Enter \/ SetDeadlines
         \/ /\ UNCHANGED <<now, headers, deadlines>>
            /\ pc \notin Deciding \cup Ended /\ pc' \notin Deciding \cup {"rejected"}
            /\ pc' \in Waits \cup Ended
                  \cup {"serialize", "operation", "drain", "drainWait", "retake", "zero",
                        "lease", "leaseWait", "validate", "mutate", "post", "posted",
                        "commit", "abort"}
BY DEF Next, Own, Others, Waits, Wait, GiveUpWait, ReadCount, WaitExpires, GiveUpDrain, Drained,
   AskLease, Validate, Prepare, Post, Converge, GiveUpContained, Take, Notified, Regain,
   TakeLease, At, Before, Beyond, Deciding, Ended, deadlines

LEMMA SetDeadlinesStep ==
  ASSUME BoundsAssumption, SInv, SetDeadlines
  PROVE  SInv'
<1>1. /\ headers' = headers /\ now' = now /\ startedAt' = startedAt
      /\ pc = "entered" /\ pc' = "serialize" /\ headers \in Requests
      /\ now \in Nat /\ startedAt \in Nat /\ startedAt <= now /\ ~Rejected
  BY DEF SetDeadlines, At, SInv, TypeOK
<1>2. /\ Relative' = Relative /\ Absolute' = Absolute /\ Bounded' = Bounded
      /\ Rejected' = Rejected /\ Containment' = Containment
      /\ \A n \in Names : Value(n)' = Value(n)
  BY <1>1 DEF Relative, Absolute, Bounded, Rejected, Containment, Given, Value,
     Malformed, TooLarge
<1> DEFINE dt == Value("drainTimeout") * Ms
           ct == Containment * Ms
           dd == Value("drainDeadline") * Ms
           cd == Value("containmentDeadline") * Ms
<1>3. dt \in Int /\ ct \in Int /\ dd \in Int /\ cd \in Int
  BY <1>1, HeaderTypes, ContainmentType, Ticks DEF Names
<1>4. Relative => dt <= ct
  BY <1>1, AcceptedIsSound, HeaderTypes, ContainmentType, TicksMonotone DEF Names
<1>5. Absolute => dd <= cd
  BY <1>1, AcceptedIsSound, HeaderTypes, TicksMonotone DEF Names
<1>6. ~(Relative /\ Absolute)
  BY <1>1, AcceptedIsSound
<1>7. Offset \in Int /\ Configured \in Nat /\ None \notin Int
  BY DEF BoundsAssumption
<1>8. /\ drainBy' \in Int
      /\ drainBy' <= startedAt + Configured
      /\ Bounded => containBy' \in Int /\ drainBy' <= containBy'
                    /\ containBy' <= startedAt + Configured
      /\ ~Bounded => containBy' = None
      /\ Relative => drainBy' <= startedAt + dt /\ containBy' <= startedAt + ct
      /\ Absolute => drainBy' <= dd - Offset /\ containBy' <= cd - Offset
  <2>1. CASE Relative
    <3>1. drainBy' = Least(startedAt + dt, startedAt + Configured)
          /\ containBy' = Least(startedAt + ct, startedAt + Configured)
      BY <2>1 DEF SetDeadlines, Capped, Bounded
    <3> HIDE DEF dt, ct, dd, cd
    <3> QED BY <1>1, <1>3, <1>4, <1>6, <1>7, <2>1, <3>1 DEF Least, Bounded
  <2>2. CASE Absolute
    <3>1. drainBy' = Least(startedAt + (dd - (now + Offset)), startedAt + Configured)
          /\ containBy' = Least(startedAt + (cd - (now + Offset)), startedAt + Configured)
      BY <1>6, <2>2 DEF SetDeadlines, Capped, Mapped, Wall, Bounded
    <3> HIDE DEF dt, ct, dd, cd
    <3> QED BY <1>1, <1>3, <1>5, <1>6, <1>7, <2>2, <3>1 DEF Least, Bounded
  <2>3. CASE ~Bounded
    BY <1>1, <1>7, <2>3 DEF SetDeadlines, Bounded
  <2> QED BY <2>1, <2>2, <2>3 DEF Bounded
<1>9. NeverLater' \/ ~Bounded
  BY <1>1, <1>2, <1>8 DEF NeverLater, Names
<1>10. TypeOK'
  BY <1>1, <1>2, <1>7, <1>8 DEF TypeOK, Deciding
<1>11. ContainmentLast'
  BY <1>1, <1>2, <1>8 DEF ContainmentLast
<1> QED
  BY <1>1, <1>2, <1>8, <1>9, <1>10, <1>11 DEF SInv, Decided

LEMMA SInvHolds == Spec => []SInv
<1>1. Init => SInv
  BY BoundsAssumption DEF Init, SInv, TypeOK, Decided, Deciding
<1>2. ASSUME SInv, [Next]_boundsVars PROVE SInv'
  <2> USE BoundsAssumption
  <2>1. CASE Tick
    <3>1. now' = now + 1 /\ UNCHANGED <<headers, startedAt, drainBy, containBy, pc>>
      BY <2>1 DEF Tick
    <3> QED
      BY <1>2, <3>1 DEF SInv, TypeOK, Decided, ContainmentLast, NeverLater, Relative,
         Absolute, Bounded, Rejected, Containment, Given, Value, Malformed, TooLarge
  <2>2. CASE Reject
    BY <1>2, <2>2 DEF Reject, At, deadlines, SInv, TypeOK, Decided, Deciding, Ended,
       Bounded, Relative, Absolute, Given
  <2>3. CASE Enter
    BY <1>2, <2>3 DEF Enter, At, SInv, TypeOK, Decided, Deciding, Rejected, Given,
       Value, Malformed, TooLarge
  <2>4. CASE SetDeadlines
    BY <1>2, <2>4, SetDeadlinesStep
  <2>5. CASE /\ UNCHANGED <<now, headers, deadlines>>
             /\ pc \notin Deciding \cup Ended /\ pc' \notin Deciding \cup {"rejected"}
             /\ pc' \in Waits \cup Ended
                   \cup {"serialize", "operation", "drain", "drainWait", "retake", "zero",
                         "lease", "leaseWait", "validate", "mutate", "post", "posted",
                        "commit", "abort"}
    BY <1>2, <2>5 DEF SInv, TypeOK, Decided, ContainmentLast, NeverLater, Relative,
       Absolute, Bounded, Rejected, Containment, Given, Value, Malformed, TooLarge,
       deadlines, Deciding, Ended
  <2>6. CASE UNCHANGED boundsVars
    BY <1>2, <2>6 DEF boundsVars, SInv, TypeOK, Decided, ContainmentLast, NeverLater,
       Relative, Absolute, Bounded, Rejected, Containment, Given, Value, Malformed,
       TooLarge
  <2> QED BY <1>2, <2>1, <2>2, <2>3, <2>4, <2>5, <2>6, LaterSteps
<1> QED BY <1>1, <1>2, PTL DEF Spec

(* Types; a call has a containment deadline exactly if it is bounded.      *)
THEOREM BoundsTypeCorrect == Spec => []TypeOK
BY SInvHolds, PTL DEF SInv

(* No request that the parser accepts makes the manager raise ValueError.  *)
THEOREM ManagerNeverRefuses == Spec => []ParserMatchesManager
<1>1. SInv => ParserMatchesManager
  BY AcceptedIsSound, BoundsAssumption DEF SInv, TypeOK, ParserMatchesManager
<1> QED BY <1>1, SInvHolds, PTL

(* The drain deadline comes first, and the configured timeout caps both.   *)
THEOREM DeadlinesInOrder == Spec => []ContainmentLast
<1>1. SInv => ContainmentLast
  BY DEF SInv, Decided, ContainmentLast
<1> QED BY <1>1, SInvHolds, PTL

(* A bounded drain is complete only in time by the caller's own words.     *)
THEOREM DrainIsInTime == Spec => DrainsInTime
<1>1. ASSUME SInv, [Next]_boundsVars, pc = "zero", pc' = "lease"
      PROVE  InTime(Value("drainTimeout"), "drainDeadline")
  <2>1. Bounded => TimeLeft(drainBy)
    BY <1>1 DEF Next, boundsVars, Tick, Own, Others, Reject, Enter, SetDeadlines,
       Waits, Wait, GiveUpWait, ReadCount, WaitExpires, GiveUpDrain, Drained, AskLease, Validate,
       Prepare, Post, Converge, GiveUpContained, Take, Notified, Regain, TakeLease, At,
       Before, Beyond
  <2>2. headers \in Requests /\ now \in Int /\ startedAt \in Int /\ drainBy \in Int
    BY <1>1 DEF SInv, TypeOK
  <2>3. Value("drainTimeout") * Ms \in Int /\ Value("drainDeadline") * Ms \in Int
    BY <2>2, BoundsAssumption, HeaderTypes, Ticks DEF Names
  <2>4. /\ Relative => drainBy <= startedAt + Value("drainTimeout") * Ms
        /\ Absolute => drainBy <= Value("drainDeadline") * Ms - Offset
        /\ Bounded => drainBy <= startedAt + Configured
    BY <1>1 DEF SInv, Decided, Deciding, NeverLater, Bounded
  <2> DEFINE dt == Value("drainTimeout") * Ms
             dd == Value("drainDeadline") * Ms
  <2>5. /\ Absolute => now + Offset < dd
        /\ Relative => now < startedAt + dt
        /\ Bounded => now < startedAt + Configured
    <3>1. dt \in Int /\ dd \in Int
      BY <2>3
    <3>2. /\ Relative => drainBy <= startedAt + dt
          /\ Absolute => drainBy <= dd - Offset
      BY <2>4
    <3> HIDE DEF dt, dd
    <3> QED BY <2>1, <2>2, <2>4, <3>1, <3>2, BoundsAssumption
            DEF TimeLeft, Bounded, BoundsAssumption
  <2> QED BY <2>5 DEF InTime
<1> QED BY <1>1, SInvHolds, PTL DEF Spec, DrainsInTime

(* No mutation is issued after the containment deadline, by the caller's   *)
(* own words.                                                              *)
THEOREM MutationIsInTime == Spec => MutatesInTime
<1>1. ASSUME SInv, [Next]_boundsVars, pc = "post", pc' = "posted"
      PROVE  InTime(Containment, "containmentDeadline")
  <2>1. Contained
    BY <1>1 DEF Next, boundsVars, Tick, Own, Others, Reject, Enter, SetDeadlines,
       Waits, Wait, GiveUpWait, ReadCount, WaitExpires, GiveUpDrain, Drained, AskLease, Validate,
       Prepare, Post, Converge, GiveUpContained, Take, Notified, Regain, TakeLease, At,
       Before, Beyond
  <2>2. headers \in Requests /\ now \in Int /\ startedAt \in Int
    BY <1>1 DEF SInv, TypeOK
  <2>3. Bounded => containBy \in Int /\ now < containBy
    BY <1>1, <2>1 DEF SInv, TypeOK, Deciding, Contained, TimeLeft
  <2>4. Containment * Ms \in Int /\ Value("containmentDeadline") * Ms \in Int
    BY <2>2, BoundsAssumption, HeaderTypes, ContainmentType, Ticks DEF Names
  <2> DEFINE ct == Containment * Ms
             cd == Value("containmentDeadline") * Ms
  <2>5. /\ Relative => containBy <= startedAt + ct
        /\ Absolute => containBy <= cd - Offset
        /\ Bounded => containBy <= startedAt + Configured
    BY <1>1 DEF SInv, Decided, Deciding, NeverLater, ContainmentLast, Bounded
  <2>6. /\ Absolute => now + Offset < cd
        /\ Relative => now < startedAt + ct
        /\ Bounded => now < startedAt + Configured
    <3>1. ct \in Int /\ cd \in Int
      BY <2>4
    <3> HIDE DEF ct, cd
    <3> QED BY <2>2, <2>3, <2>5, <3>1, BoundsAssumption
            DEF Bounded, BoundsAssumption
  <2> QED BY <2>6 DEF InTime
<1> QED BY <1>1, SInvHolds, PTL DEF Spec, MutatesInTime
=============================================================================
