------------------------ MODULE AdmissionGate_proofs ------------------------
(***************************************************************************)
(* Proofs about AdmissionGate, for any models, threads, actions and        *)
(* contents of the files, and for a host that writes them at any moment.   *)
(***************************************************************************)
EXTENDS AdmissionGate, TLAPS

(* Who is where, and who holds the request lock.                           *)
Places ==
  /\ \A r \in Requests : pc[r] \notin {"probe", "probed"}
  /\ \A h \in Probes : pc[h] \in {"idle", "probe", "probed"}
LockHeld ==
  \A t \in Threads : requestLock = t <=> pc[t] \in {"final", "probe", "probed"}
SeenInChecks ==
  /\ \A t \in Threads :
       pc[t] \notin Checks \cup {"probe", "probed"} => seen[t] = Unread
  /\ \A h \in Probes : pc[h] = "probed" => seen[h] # Unread
  /\ \A t \in blind : seen[t] = None

(* Every identifier in use has been spent.                                 *)
AllSpent ==
  /\ latch \in spent \cup {None}
  /\ proof \in spent \cup {None}
  /\ \A t \in Threads : seen[t] \in spent \cup {None, Unread}

(* Under a proved zero, whoever holds the request lock and has read the    *)
(* latch has read the one that stands, or is blind.                        *)
ProofStands ==
  Proved => /\ inflight = 0
            /\ \A t \in Threads :
                 pc[t] \in {"final", "probe", "probed"} /\ seen[t] # Unread
                   => seen[t] = latch \/ t \in blind

(* The fence a probe has seen is one, if nobody wrote the files.           *)
SteadyReads ==
  \A h \in Probes : steady[h] =>
    /\ pc[h] \in {"probe", "probed"} /\ seen[h] # Unread
         => seen[h] \in {latch, None}
    /\ pc[h] = "probed" /\ fenced[h] => Fenced(First, latch, projection)

(* A fenced zero that still stands fences models[0], and whoever is at the *)
(* final check reads what it read, or is blind.                            *)
FencedStands ==
  fencedZero =>
    /\ inflight = 0
    /\ Fenced(First, latch, projection)
    /\ \A r \in Requests : pc[r] = "final" /\ seen[r] # Unread
          => seen[r] = latch \/ r \in blind

GInv == TypeOK /\ Places /\ LockHeld /\ SeenInChecks /\ AllSpent
        /\ ProofStands /\ SteadyReads

-----------------------------------------------------------------------------
(* A fence of a required model is a fence of every model: required models  *)
(* are fenced only where optional ones are.                                *)
LEMMA RequiredFencesAll ==
  ASSUME First \in Required, NEW m, NEW l, NEW p, Fenced(First, l, p)
  PROVE  Fenced(m, l, p)
  BY DEF Fenced

(* A projection that fences whoever sees no latch fences whoever sees one. *)
LEMMA LatchOnlyFences ==
  ASSUME NEW m, NEW l, NEW p, Fenced(m, None, p)
  PROVE  Fenced(m, l, p)
  BY DEF Fenced

LEMMA InitGInv == Init => GInv /\ FencedStands
<1> USE GateAssumption DEF Init, Threads
<1>1. Init => TypeOK
  <2>1. Init => blind \subseteq Threads /\ proof \in Actions \cup {None} BY SMT
  <2>2. Init => /\ fenced \in [Probes -> BOOLEAN] /\ steady \in [Probes -> BOOLEAN]
                /\ fencedZero \in BOOLEAN
    BY Zenon
  <2>3. Init => /\ latch \in Actions \cup {None} /\ spent \subseteq Actions
                /\ projection \in Contents /\ condition \in Requests \cup {None}
                /\ requestLock \in Threads \cup {None} /\ inflight \in Nat
    BY SMT
  <2>4. Init => pc \in [Threads -> Checks \cup {"idle", "queue", "switch",
                "waiting", "activate", "count", "served", "cooldown", "failed",
                "probe", "probed"}]
    OBVIOUS
  <2>5. Init => /\ target \in [Threads -> Models \cup {None}]
                /\ seen \in [Threads -> Actions \cup {None, Unread}]
    OBVIOUS
  <2> HIDE DEF Init
  <2> QED BY <2>1, <2>2, <2>3, <2>4, <2>5 DEF TypeOK
<1>2. Init => Places /\ LockHeld /\ SeenInChecks /\ AllSpent
  BY DEF Places, LockHeld, SeenInChecks, AllSpent
<1>3. Init => ProofStands /\ SteadyReads /\ FencedStands
  BY DEF ProofStands, SteadyReads, FencedStands, Proved
<1> QED BY <1>1, <1>2, <1>3 DEF GInv

-----------------------------------------------------------------------------
USE DEF files, ghost, Threads

LEMMA TypeStep == ASSUME ThermalAssumption, GateAssumption, TypeOK, SeenInChecks,
                         [Next]_gateVars
                  PROVE  TypeOK'
<1> USE ThermalAssumption, GateAssumption DEF TypeOK, Goto, Unsee, Untarget, Checks
<1>1. CASE RaiseLatch BY <1>1 DEF RaiseLatch, Written
<1>2. CASE ClearLatch BY <1>2 DEF ClearLatch, Written
<1>3. CASE Publish BY <1>3 DEF Publish, Written
<1>4. CASE Crash
  <2>1. /\ pc' \in [Threads -> {"idle"}]
        /\ target' \in [Threads -> {None}]
        /\ seen' \in [Threads -> {Unread}]
    BY <1>4 DEF Crash
  <2> QED BY <1>4, <2>1 DEF Crash
<1>5. ASSUME NEW r \in Requests, Arrive(r) PROVE TypeOK' BY <1>5 DEF Arrive
<1>6. ASSUME NEW r \in Requests, Request(r) PROVE TypeOK'
  <2>1. CASE ReadLatch(r) BY <2>1 DEF ReadLatch, SeeLatch
  <2>2. CASE Pass(r)
    <3>1. pc[r] \in Checks /\ pc' = [pc EXCEPT ![r] = After(pc[r])]
      BY <2>2 DEF Pass
    <3>2. After(pc[r]) \in {"entry", "queue", "switch", "admission", "activate", "served"}
      BY <3>1 DEF After
    <3>3. pc' \in [Threads -> Checks \cup {"idle", "queue", "switch", "waiting",
                "activate", "count", "served", "cooldown", "failed", "probe",
                "probed"}]
      BY <3>1, <3>2
    <3>4. /\ condition' \in Requests \cup {None}
          /\ requestLock' \in Threads \cup {None}
          /\ inflight' \in Nat /\ fencedZero' \in BOOLEAN
          /\ proof' \in Actions \cup {None}
      <4>1. CASE pc[r] = "final"
        <5>1. /\ inflight' = inflight + 1 /\ requestLock' = None
              /\ condition' = None
              /\ proof' = IF r \in blind THEN None ELSE proof
          BY <2>2, <4>1 DEF Pass
        <5>2. fencedZero' \in BOOLEAN
          BY <2>2, <4>1, Zenon DEF Pass
        <5> QED BY <5>1, <5>2
      <4>2. CASE pc[r] # "final" BY <2>2, <4>2 DEF Pass
      <4> QED BY <4>1, <4>2
    <3>5. UNCHANGED <<files, target, fenced, steady>>
          /\ seen' \in [Threads -> Actions \cup {None, Unread}]
          /\ blind' \subseteq Threads
      BY <2>2 DEF Pass
    <3> QED BY <3>3, <3>4, <3>5
  <2>3. CASE Deny(r) BY <2>3 DEF Deny, Leave
  <2>4. CASE Fail(r) BY <2>4 DEF Fail, Leave
  <2>5. CASE TakeCondition(r) BY <2>5 DEF TakeCondition
  <2>6. CASE SwitchWait(r) BY <2>6 DEF SwitchWait
  <2>7. CASE Proceed(r) BY <2>7 DEF Proceed
  <2>8. CASE TakeRequestLock(r) BY <2>8 DEF TakeRequestLock
  <2>9. CASE Release(r) BY <2>9 DEF Release
  <2>10. CASE Answer(r) BY <2>10 DEF Answer
  <2> QED BY <1>6, <2>1, <2>2, <2>3, <2>4, <2>5, <2>6, <2>7, <2>8, <2>9, <2>10
          DEF Request
<1>7. ASSUME NEW h \in Probes, Probe(h) PROVE TypeOK'
  <2>1. CASE ProbeLock(h) BY <2>1 DEF ProbeLock
  <2>2. CASE ProbeLatch(h) BY <2>2 DEF ProbeLatch, SeeLatch
  <2>3. CASE ProbeProjection(h)
    <3>1. Fenced(First, seen[h], projection) \in BOOLEAN BY DEF Fenced
    <3>2. fenced' \in [Probes -> BOOLEAN] BY <2>3, <3>1 DEF ProbeProjection
    <3> QED BY <2>3, <3>2 DEF ProbeProjection
  <2>4. CASE ProbeCount(h)
    <3>1. seen[h] \in Actions \cup {None, Unread} OBVIOUS
    <3>2. seen[h] # Unread BY <2>4 DEF ProbeCount, Report, SeenInChecks
    <3>3. proof' \in Actions \cup {None}
      BY <2>4, <3>1, <3>2 DEF ProbeCount, Report
    <3>4. fenced' \in [Probes -> BOOLEAN] /\ steady' \in [Probes -> BOOLEAN]
          /\ pc' = [pc EXCEPT ![h] = "idle"]
      BY <2>4 DEF ProbeCount, Report
    <3>5. fencedZero' \in BOOLEAN
      BY <2>4, Zenon DEF ProbeCount, Report
    <3> QED BY <2>4, <3>3, <3>4, <3>5 DEF ProbeCount, Report
  <2> QED BY <1>7, <2>1, <2>2, <2>3, <2>4 DEF Probe
<1>8. CASE UNCHANGED gateVars BY <1>8 DEF gateVars
<1> QED BY <1>1, <1>2, <1>3, <1>4, <1>5, <1>6, <1>7, <1>8 DEF Next, Host
LEMMA LockStep == ASSUME GateAssumption, TypeOK, Places, LockHeld, SeenInChecks,
                         [Next]_gateVars
                  PROVE  Places' /\ LockHeld' /\ SeenInChecks'
<1> USE GateAssumption DEF TypeOK, Places, LockHeld, SeenInChecks, Goto, Unsee,
        Untarget, Checks
<1>1. CASE Host BY <1>1 DEF Host, RaiseLatch, ClearLatch, Publish, Written
<1>2. CASE Crash BY <1>2 DEF Crash
<1>3. ASSUME NEW r \in Requests, Arrive(r)
      PROVE  Places' /\ LockHeld' /\ SeenInChecks'
  BY <1>3 DEF Arrive
<1>4. ASSUME NEW r \in Requests, Request(r)
      PROVE  Places' /\ LockHeld' /\ SeenInChecks'
  <2>1. CASE ReadLatch(r) BY <2>1 DEF ReadLatch, SeeLatch, Checks
  <2>2. CASE Pass(r) BY <2>2 DEF Pass, After, Checks
  <2>3. CASE Deny(r) \/ Fail(r) BY <2>3 DEF Deny, Fail, Leave, Checks
  <2>4. CASE TakeCondition(r) BY <2>4 DEF TakeCondition
  <2>5. CASE SwitchWait(r) BY <2>5 DEF SwitchWait
  <2>6. CASE Proceed(r) BY <2>6 DEF Proceed
  <2>7. CASE TakeRequestLock(r) BY <2>7 DEF TakeRequestLock
  <2>8. CASE Release(r) BY <2>8 DEF Release
  <2>9. CASE Answer(r) BY <2>9 DEF Answer
  <2> QED BY <1>4, <2>1, <2>2, <2>3, <2>4, <2>5, <2>6, <2>7, <2>8, <2>9 DEF Request
<1>5. ASSUME NEW h \in Probes, Probe(h)
      PROVE  Places' /\ LockHeld' /\ SeenInChecks'
  <2>1. CASE ProbeLock(h) BY <2>1 DEF ProbeLock
  <2>2. CASE ProbeLatch(h) BY <2>2 DEF ProbeLatch, SeeLatch
  <2>3. CASE ProbeProjection(h) BY <2>3 DEF ProbeProjection
  <2>4. CASE ProbeCount(h) BY <2>4 DEF ProbeCount, Report
  <2> QED BY <1>5, <2>1, <2>2, <2>3, <2>4 DEF Probe
<1>6. CASE UNCHANGED gateVars BY <1>6 DEF gateVars
<1> QED BY <1>1, <1>2, <1>3, <1>4, <1>5, <1>6 DEF Next
LEMMA SpentStep == ASSUME GateAssumption, TypeOK, AllSpent, SeenInChecks,
         [Next]_gateVars
  PROVE  AllSpent'
<1> USE GateAssumption DEF TypeOK, AllSpent, Goto, Unsee, Untarget
<1>1. CASE RaiseLatch BY <1>1 DEF RaiseLatch, Written
<1>2. CASE ClearLatch BY <1>2 DEF ClearLatch, Written
<1>3. CASE Publish BY <1>3 DEF Publish, Written
<1>4. CASE Crash BY <1>4 DEF Crash
<1>5. ASSUME NEW r \in Requests, Arrive(r) PROVE AllSpent' BY <1>5 DEF Arrive
<1>6. ASSUME NEW r \in Requests, Request(r) PROVE AllSpent'
  <2>1. CASE ReadLatch(r) BY <2>1 DEF ReadLatch, SeeLatch, Checks
  <2>2. CASE Pass(r) BY <2>2 DEF Pass, Checks
  <2>3. CASE Deny(r) \/ Fail(r) BY <2>3 DEF Deny, Fail, Leave
  <2>4. CASE TakeCondition(r) BY <2>4 DEF TakeCondition
  <2>5. CASE SwitchWait(r) BY <2>5 DEF SwitchWait
  <2>6. CASE Proceed(r) BY <2>6 DEF Proceed
  <2>7. CASE TakeRequestLock(r) BY <2>7 DEF TakeRequestLock
  <2>8. CASE Release(r) BY <2>8 DEF Release
  <2>9. CASE Answer(r) BY <2>9 DEF Answer
  <2> QED BY <1>6, <2>1, <2>2, <2>3, <2>4, <2>5, <2>6, <2>7, <2>8, <2>9 DEF Request
<1>7. ASSUME NEW h \in Probes, Probe(h) PROVE AllSpent'
  <2>1. CASE ProbeLock(h) BY <2>1 DEF ProbeLock
  <2>2. CASE ProbeLatch(h) BY <2>2 DEF ProbeLatch, SeeLatch
  <2>3. CASE ProbeProjection(h) BY <2>3 DEF ProbeProjection
  <2>4. CASE ProbeCount(h)
    <3>1. seen[h] \in spent \cup {None}
      BY <2>4 DEF ProbeCount, Report, SeenInChecks
    <3>2. proof' \in {seen[h], proof} /\ seen' = [seen EXCEPT ![h] = Unread]
          /\ UNCHANGED <<latch, spent>>
      BY <2>4 DEF ProbeCount, Report
    <3> QED BY <3>1, <3>2
  <2> QED BY <1>7, <2>1, <2>2, <2>3, <2>4 DEF Probe
<1>8. CASE UNCHANGED gateVars BY <1>8 DEF gateVars
<1> QED BY <1>1, <1>2, <1>3, <1>4, <1>5, <1>6, <1>7, <1>8 DEF Next, Host

LEMMA ProofStep == ASSUME GateAssumption, GInv, [Next]_gateVars, Places', LockHeld'
  PROVE  ProofStands'
<1> USE GateAssumption DEF GInv, TypeOK, AllSpent, Places, LockHeld, SeenInChecks,
        ProofStands, Proved, Goto, Unsee, Untarget, Checks
<1>1. CASE RaiseLatch BY <1>1 DEF RaiseLatch, Written
<1>2. CASE ClearLatch BY <1>2 DEF ClearLatch, Written
<1>3. CASE Publish BY <1>3 DEF Publish, Written
<1>4. CASE Crash BY <1>4 DEF Crash
<1>5. ASSUME NEW r \in Requests, Arrive(r) PROVE ProofStands' BY <1>5 DEF Arrive
<1>6. ASSUME NEW r \in Requests, Request(r) PROVE ProofStands'
  <2>1. CASE ReadLatch(r) BY <2>1 DEF ReadLatch, SeeLatch, Checks
  <2>2. CASE Pass(r) BY <2>2 DEF Pass, Fenced
  <2>3. CASE Deny(r) \/ Fail(r) BY <2>3 DEF Deny, Fail, Leave
  <2>4. CASE TakeCondition(r) BY <2>4 DEF TakeCondition
  <2>5. CASE SwitchWait(r) BY <2>5 DEF SwitchWait
  <2>6. CASE Proceed(r) BY <2>6 DEF Proceed
  <2>7. CASE TakeRequestLock(r) BY <2>7 DEF TakeRequestLock
  <2>8. CASE Release(r) BY <2>8 DEF Release
  <2>9. CASE Answer(r) BY <2>9 DEF Answer
  <2> QED BY <1>6, <2>1, <2>2, <2>3, <2>4, <2>5, <2>6, <2>7, <2>8, <2>9 DEF Request
<1>7. ASSUME NEW h \in Probes, Probe(h) PROVE ProofStands'
  <2>1. CASE ProbeLock(h) BY <2>1 DEF ProbeLock
  <2>2. CASE ProbeLatch(h) BY <2>2 DEF ProbeLatch, SeeLatch
  <2>3. CASE ProbeProjection(h) BY <2>3 DEF ProbeProjection
  <2>4. CASE ProbeCount(h) BY <2>4 DEF ProbeCount, Report
  <2> QED BY <1>7, <2>1, <2>2, <2>3, <2>4 DEF Probe
<1>8. CASE UNCHANGED gateVars BY <1>8 DEF gateVars
<1> QED BY <1>1, <1>2, <1>3, <1>4, <1>5, <1>6, <1>7, <1>8 DEF Next, Host

LEMMA SteadyStep == ASSUME GateAssumption, GInv, [Next]_gateVars
  PROVE  SteadyReads'
<1> USE GateAssumption DEF GInv, TypeOK, AllSpent, Places, LockHeld, SeenInChecks,
        SteadyReads, Goto, Unsee, Untarget, Checks
<1>1. CASE RaiseLatch BY <1>1 DEF RaiseLatch, Written
<1>2. CASE ClearLatch BY <1>2 DEF ClearLatch, Written
<1>3. CASE Publish BY <1>3 DEF Publish, Written
<1>4. CASE Crash BY <1>4 DEF Crash
<1>5. ASSUME NEW r \in Requests, Arrive(r) PROVE SteadyReads' BY <1>5 DEF Arrive
<1>6. ASSUME NEW r \in Requests, Request(r) PROVE SteadyReads'
  <2>1. CASE ReadLatch(r) BY <2>1 DEF ReadLatch, SeeLatch, Checks
  <2>2. CASE Pass(r) BY <2>2 DEF Pass, Checks
  <2>3. CASE Deny(r) \/ Fail(r) BY <2>3 DEF Deny, Fail, Leave
  <2>4. CASE TakeCondition(r) BY <2>4 DEF TakeCondition
  <2>5. CASE SwitchWait(r) BY <2>5 DEF SwitchWait
  <2>6. CASE Proceed(r) BY <2>6 DEF Proceed
  <2>7. CASE TakeRequestLock(r) BY <2>7 DEF TakeRequestLock
  <2>8. CASE Release(r) BY <2>8 DEF Release
  <2>9. CASE Answer(r) BY <2>9 DEF Answer
  <2> QED BY <1>6, <2>1, <2>2, <2>3, <2>4, <2>5, <2>6, <2>7, <2>8, <2>9 DEF Request
<1>7. ASSUME NEW h \in Probes, Probe(h) PROVE SteadyReads'
  <2>1. CASE ProbeLock(h) BY <2>1 DEF ProbeLock
  <2>2. CASE ProbeLatch(h) BY <2>2 DEF ProbeLatch, SeeLatch
  <2>3. CASE ProbeProjection(h) BY <2>3, LatchOnlyFences DEF ProbeProjection
  <2>4. CASE ProbeCount(h) BY <2>4 DEF ProbeCount, Report
  <2> QED BY <1>7, <2>1, <2>2, <2>3, <2>4 DEF Probe
<1>8. CASE UNCHANGED gateVars BY <1>8 DEF gateVars
<1> QED BY <1>1, <1>2, <1>3, <1>4, <1>5, <1>6, <1>7, <1>8 DEF Next, Host

LEMMA FencedStep == ASSUME GateAssumption, GInv, FencedStands, First \in Required,
                           [Next]_gateVars
  PROVE  FencedStands'
<1> USE GateAssumption DEF GInv, TypeOK, AllSpent, Places, LockHeld, SeenInChecks,
        SteadyReads, FencedStands, Goto, Unsee, Untarget, Checks
<1>1. CASE RaiseLatch BY <1>1 DEF RaiseLatch, Written
<1>2. CASE ClearLatch BY <1>2 DEF ClearLatch, Written
<1>3. CASE Publish BY <1>3 DEF Publish, Written
<1>4. CASE Crash BY <1>4 DEF Crash
<1>5. ASSUME NEW r \in Requests, Arrive(r) PROVE FencedStands' BY <1>5 DEF Arrive
<1>6. ASSUME NEW r \in Requests, Request(r) PROVE FencedStands'
  <2>1. CASE ReadLatch(r) BY <2>1 DEF ReadLatch, SeeLatch, Checks
  <2>2. CASE Pass(r)
    <3>1. CASE pc[r] = "final"
      <4>1. fencedZero => r \in blind
        BY <2>2, <3>1, RequiredFencesAll DEF Pass, Asked
      <4>2. ~fencedZero' BY <2>2, <3>1, <4>1 DEF Pass
      <4> QED BY <4>2
    <3>2. CASE pc[r] # "final"
      <4>1. pc'[r] # "final" /\ \A t \in Threads \ {r} : pc'[t] = pc[t]
        BY <2>2, <3>2 DEF Pass, After
      <4>2. /\ seen' = [seen EXCEPT ![r] = Unread] /\ blind' = blind \ {r}
            /\ UNCHANGED <<files, inflight, fencedZero>>
        BY <2>2, <3>2 DEF Pass
      <4>3. Fenced(First, latch, projection)' = Fenced(First, latch, projection)
        BY <4>2 DEF Fenced
      <4> QED BY <4>1, <4>2, <4>3
    <3> QED BY <3>1, <3>2
  <2>3. CASE Deny(r) \/ Fail(r)
    <3>1. /\ seen' = [seen EXCEPT ![r] = Unread] /\ pc'[r] # "final"
          /\ \A t \in Threads \ {r} : pc'[t] = pc[t]
          /\ blind' = blind \ {r}
          /\ UNCHANGED <<files, inflight, fencedZero>>
      BY <2>3 DEF Deny, Fail, Leave
    <3>2. Fenced(First, latch, projection)' = Fenced(First, latch, projection)
      BY <3>1 DEF Fenced
    <3> QED BY <3>1, <3>2
  <2>4. CASE TakeCondition(r) BY <2>4 DEF TakeCondition
  <2>5. CASE SwitchWait(r) BY <2>5 DEF SwitchWait
  <2>6. CASE Proceed(r) BY <2>6 DEF Proceed
  <2>7. CASE TakeRequestLock(r) BY <2>7 DEF TakeRequestLock
  <2>8. CASE Release(r) BY <2>8 DEF Release
  <2>9. CASE Answer(r) BY <2>9 DEF Answer
  <2> QED BY <1>6, <2>1, <2>2, <2>3, <2>4, <2>5, <2>6, <2>7, <2>8, <2>9 DEF Request
<1>7. ASSUME NEW h \in Probes, Probe(h) PROVE FencedStands'
  <2>1. CASE ProbeLock(h) BY <2>1 DEF ProbeLock
  <2>2. CASE ProbeLatch(h) BY <2>2 DEF ProbeLatch, SeeLatch
  <2>3. CASE ProbeProjection(h) BY <2>3 DEF ProbeProjection
  <2>4. CASE ProbeCount(h) BY <2>4 DEF ProbeCount, Report
  <2> QED BY <1>7, <2>1, <2>2, <2>3, <2>4 DEF Probe
<1>8. CASE UNCHANGED gateVars BY <1>8 DEF gateVars
<1> QED BY <1>1, <1>2, <1>3, <1>4, <1>5, <1>6, <1>7, <1>8 DEF Next, Host

LEMMA GInvStep == ASSUME GInv, [Next]_gateVars PROVE GInv'
<1>1. TypeOK' BY TypeStep, ThermalAssumption, GateAssumption DEF GInv
<1>2. Places' /\ LockHeld' /\ SeenInChecks' BY LockStep, GateAssumption DEF GInv
<1>3. AllSpent' BY SpentStep, GateAssumption DEF GInv
<1>4. ProofStands' BY ProofStep, GateAssumption, <1>2
<1>5. SteadyReads' BY SteadyStep, GateAssumption
<1> QED BY <1>1, <1>2, <1>3, <1>4, <1>5 DEF GInv

(* Type correctness, with a count that stays a natural number.             *)
THEOREM GateTypeCorrect == Spec => []TypeOK
<1>1. Init => GInv BY InitGInv
<1>2. GInv /\ [Next]_gateVars => GInv' BY GInvStep
<1>3. GInv => TypeOK BY DEF GInv
<1> QED BY <1>1, <1>2, <1>3, PTL DEF Spec

(* If models[0] is a required model, a fenced zero of any cause denies     *)
(* every request until the host writes one of its files.                   *)
THEOREM FencedZeroIsFinal == First \in Required => (Spec => []FencedZeroWins)
<1> SUFFICES ASSUME First \in Required PROVE Spec => []FencedZeroWins
  OBVIOUS
<1>1. Init => GInv /\ FencedStands BY InitGInv
<1>2. GInv /\ FencedStands /\ [Next]_gateVars => (GInv /\ FencedStands)'
  BY GInvStep, FencedStep, GateAssumption
<1>3. GInv /\ FencedStands => FencedZeroWins
  BY DEF FencedStands, FencedZeroWins
<1> QED BY <1>1, <1>2, <1>3, PTL DEF Spec

-----------------------------------------------------------------------------
(* A request at its final check that has read the latch of a proved zero   *)
(* is denied: only a stray passes.                                         *)
LEMMA ProvedDenies ==
  ASSUME GateAssumption, GInv, Proved, NEW r \in Requests, Pass(r), pc[r] = "final"
  PROVE  r \in blind
  BY DEF GInv, ProofStands, Proved, Pass, Fenced, Checks

LEMMA PromiseStep ==
  ASSUME GInv, GInv', [Next]_gateVars
  PROVE  [Promise!Next]_Promise!promiseVars
<1> USE GateAssumption DEF Promise!promiseVars, Promise!Next
<1>1. CASE RaiseLatch
  <2>1. ~Proved /\ ~Proved'
    BY <1>1 DEF RaiseLatch, Written, Proved, GInv, AllSpent
  <2>2. latch = None /\ latch' \in Actions /\ inflight' = inflight
    BY <1>1 DEF RaiseLatch
  <2>3. Promise!Raise BY <2>1, <2>2 DEF Promise!Raise, Proved
  <2> QED BY <2>3
<1>2. CASE ClearLatch
  BY <1>2 DEF ClearLatch, Written, Promise!Lift, Proved
<1>3. CASE Publish
  BY <1>3 DEF Publish, Written, Proved
<1>4. CASE Crash
  BY <1>4 DEF Crash, Proved, Promise!Die
<1>5. ASSUME NEW r \in Requests, Arrive(r)
      PROVE  [Promise!Next]_Promise!promiseVars
  BY <1>5 DEF Arrive, Proved
<1>6. ASSUME NEW r \in Requests, Request(r)
      PROVE  [Promise!Next]_Promise!promiseVars
  <2>1. latch' = latch
    BY <1>6 DEF Request, ReadLatch, SeeLatch, Pass, Deny, Fail, Leave,
       TakeCondition, SwitchWait, Proceed, TakeRequestLock, Release, Answer
  <2>2. CASE Pass(r) /\ pc[r] = "final"
    <3>1. inflight' = inflight + 1 BY <2>2 DEF Pass
    <3>2. CASE r \in blind
      <4>1. ~Proved' BY <2>2, <3>2 DEF Pass, Proved
      <4>2. Promise!Stray BY <2>1, <3>1, <4>1 DEF Promise!Stray, Proved
      <4> QED BY <4>2
    <3>3. CASE r \notin blind
      <4>1. ~Proved BY <2>2, <3>3, ProvedDenies
      <4>2. proof' = proof BY <2>2, <3>3 DEF Pass
      <4>3. Promise!Count
        BY <2>1, <3>1, <4>1, <4>2 DEF Promise!Count, Proved
      <4> QED BY <4>3
    <3> QED BY <3>2, <3>3
  <2>3. CASE Release(r)
    <3>1. proof' = proof BY <2>3 DEF Release
    <3> QED BY <2>1, <2>3, <3>1 DEF Release, Promise!Uncount, Proved
  <2>4. CASE UNCHANGED <<inflight, proof>>
    BY <2>1, <2>4 DEF Proved
  <2> QED
    BY <1>6, <2>2, <2>3, <2>4 DEF Request, ReadLatch, SeeLatch, Pass, Deny, Fail,
       Leave, TakeCondition, SwitchWait, Proceed, TakeRequestLock, Answer
<1>7. ASSUME NEW h \in Probes, Probe(h)
      PROVE  [Promise!Next]_Promise!promiseVars
  <2>1. UNCHANGED <<latch, inflight>>
    BY <1>7 DEF Probe, ProbeLock, ProbeLatch, SeeLatch, ProbeProjection, ProbeCount,
       Report
  <2>2. CASE ProbeCount(h)
    <3>1. Proved => Proved'
      BY <2>1, <2>2 DEF ProbeCount, Report, Proved, GInv, ProofStands, SeenInChecks
    <3>2. Proved' => latch # None /\ inflight = 0
      BY <2>1, <2>2 DEF ProbeCount, Report, Proved, GInv, ProofStands
    <3>3. CASE Proved'
      BY <2>1, <3>2, <3>3 DEF Promise!Prove, Proved
    <3>4. CASE ~Proved' /\ ~Proved
      BY <2>1, <3>4 DEF Proved
    <3> QED BY <3>1, <3>3, <3>4
  <2>3. CASE ~ProbeCount(h)
    BY <1>7, <2>1, <2>3 DEF Probe, ProbeLock, ProbeLatch, SeeLatch, ProbeProjection, Proved
  <2> QED BY <2>2, <2>3
<1>8. CASE UNCHANGED gateVars
  BY <1>8 DEF gateVars, Proved
<1> QED BY <1>1, <1>2, <1>3, <1>4, <1>5, <1>6, <1>7, <1>8 DEF Next, Host

(* The gate implements the promise: a zero proved under an action is final *)
(* until the host lifts that action's latch, whatever the projection says, *)
(* whichever model is first and however often the process dies.            *)
THEOREM SameActionZeroIsFinal == Spec => ZeroIsFinal
<1>1. Init => Promise!Init
  BY DEF Init, Promise!Init, Proved
<1>2. Init => GInv BY InitGInv
<1>3. GInv /\ [Next]_gateVars => GInv' BY GInvStep
<1>4. GInv /\ GInv' /\ [Next]_gateVars => [Promise!Next]_Promise!promiseVars
  BY PromiseStep
<1> QED BY <1>1, <1>2, <1>3, <1>4, PTL DEF Spec, ZeroIsFinal, Promise!Spec

-----------------------------------------------------------------------------
(* If models[0] is a required model, no required model is refused for its  *)
(* heat unless the latch holds or the projection denies.                   *)
THEOREM RequiredStaysAvailable ==
  First \in Required => (Spec => RequiredRefusedOnlyInDanger)
<1> SUFFICES ASSUME First \in Required PROVE Spec => RequiredRefusedOnlyInDanger
  OBVIOUS
<1>1. Init => GInv BY InitGInv
<1>2. GInv /\ [Next]_gateVars => GInv' BY GInvStep
<1>3. ASSUME GInv, [Next]_gateVars, NEW r \in Requests,
             pc[r] # "cooldown", pc'[r] = "cooldown", target[r] \in Required
      PROVE  Danger(seen[r], projection)
  <2>1. Deny(r)
    <3>1. ASSUME NEW q \in Requests, Pass(q), q = r PROVE FALSE
      <4>1. pc[r] \in Checks /\ pc'[r] = After(pc[r])
        BY <1>3, <3>1 DEF GInv, TypeOK, Pass, Goto
      <4> QED BY <1>3, <4>1 DEF After, Checks
    <3>2. r \in Threads /\ pc = [t \in Threads |-> pc[t]]
      BY <1>3 DEF GInv, TypeOK
    <3>3. ~Host /\ ~Crash /\ ~UNCHANGED gateVars
      BY <1>3, <3>2 DEF Host, RaiseLatch, ClearLatch, Publish, Crash, gateVars
    <3>4. ASSUME NEW h \in Probes, Probe(h) PROVE FALSE
      BY <1>3, <3>2, <3>4, GateAssumption DEF Probe, ProbeLock, ProbeLatch, SeeLatch,
         ProbeProjection, ProbeCount, Report, Goto
    <3>5. ASSUME NEW q \in Requests, Arrive(q) PROVE FALSE
      BY <1>3, <3>2, <3>5 DEF Arrive, Goto
    <3>6. ASSUME NEW q \in Requests, Request(q), ~Deny(q) PROVE FALSE
      BY <1>3, <3>1, <3>2, <3>6 DEF Request, ReadLatch, SeeLatch, Pass, Fail, Leave,
         TakeCondition, SwitchWait, Proceed, TakeRequestLock, Release, Answer, Goto
    <3>7. PICK q \in Requests : Deny(q)
      BY <1>3, <3>3, <3>4, <3>5, <3>6 DEF Next
    <3> QED BY <1>3, <3>2, <3>7 DEF Deny, Leave, Goto
  <2> QED
    BY <1>3, <2>1 DEF Deny, Asked, Fenced, Danger, Denies
<1>4. GInv /\ [Next]_gateVars =>
        [\A r \in Requests :
           /\ pc[r] # "cooldown" /\ pc'[r] = "cooldown"
           /\ target[r] \in Required
           => Danger(seen[r], projection)]_gateVars
  BY <1>3
<1> QED BY <1>1, <1>2, <1>4, PTL DEF Spec, RequiredRefusedOnlyInDanger
=============================================================================
