------------------------ MODULE SleeperProxy_proofs ------------------------
(***************************************************************************)
(* The safety of the proxy's locks, gates and counters, for every lineup   *)
(* and any number of threads.  The inductive invariant says where a thread *)
(* holds which lock; with it, the quiescence of a sleeper and the pending  *)
(* switch of a request exclude whoever holds the condition for another     *)
(* model.                                                                  *)
(***************************************************************************)
EXTENDS SleeperProxy, FiniteSetTheorems, TLAPS

USE DEF Threads

-----------------------------------------------------------------------------
(* First type correctness, action by action: the lemmas behind TypeOK.     *)
(* Thread t moves to l; of the others, those that wait may be woken.       *)
Moves(t, l) ==
  /\ pc' = [u \in Threads |-> pc'[u]]
  /\ pc'[t] = l
  /\ \A u \in Threads \ {t} :
       pc'[u] = pc[u] \/ (pc[u] = "waiting" /\ pc'[u] = "resume")

(* Go moves its thread and leaves the others alone.                        *)
LEMMA GoMoves ==
  ASSUME PcTypes, NEW t \in Threads, NEW l, Go(t, l)
  PROVE  Moves(t, l)
BY DEF PcTypes, Go, Moves

(* notify_all moves the waiters, and only them.                            *)
LEMMA NotifyMoves ==
  ASSUME PcTypes, NEW t \in Threads, NEW l, l # "waiting", GoNotify(t, l)
  PROVE  Moves(t, l)
BY DEF PcTypes, GoNotify, Notified, Moves

(* A thread that returns comes to rest.                                    *)
LEMMA ReturnMoves ==
  ASSUME PcTypes, NEW t \in Threads, Return(t) \/ ReturnNotify(t)
  PROVE  Moves(t, Rest(t)) /\ Rest(t) \in {"idle", "done"}
<1>1. Rest(t) \in {"idle", "done"}
  BY DEF Rest
<1> QED
  BY <1>1, GoMoves, NotifyMoves DEF Return, ReturnNotify

(* A request that moves to a place of its own keeps the counters typed.    *)
LEMMA RequestPcTypes ==
  ASSUME PcTypes, NEW r \in Requests, NEW l \in RequestPC, Moves(r, l)
  PROVE  PcTypes'
<1>1. "resume" \in RequestPC /\ "resume" \in SleeperPC
  BY DEF RequestPC, SleeperPC
<1>2. \A c \in Controllers : pc[c] # "waiting"
  BY DEF PcTypes, ControllerPC, OpSteps
<1> QED
  BY <1>1, <1>2, ManagerAssumption DEF PcTypes, Moves

(* The same of a sleeper.                                                  *)
LEMMA SleeperPcTypes ==
  ASSUME PcTypes, NEW s \in Sleepers, NEW l \in SleeperPC, Moves(s, l)
  PROVE  PcTypes'
<1>1. "resume" \in RequestPC /\ "resume" \in SleeperPC
  BY DEF RequestPC, SleeperPC
<1>2. \A c \in Controllers : pc[c] # "waiting"
  BY DEF PcTypes, ControllerPC, OpSteps
<1> QED
  BY <1>1, <1>2, ManagerAssumption DEF PcTypes, Moves

(* The same of a controller.                                               *)
LEMMA ControllerPcTypes ==
  ASSUME PcTypes, NEW c \in Controllers, NEW l \in ControllerPC, Moves(c, l)
  PROVE  PcTypes'
<1>1. "resume" \in RequestPC /\ "resume" \in SleeperPC
  BY DEF RequestPC, SleeperPC
<1>2. \A d \in Controllers : pc[d] # "waiting"
  BY DEF PcTypes, ControllerPC, OpSteps
<1> QED
  BY <1>1, <1>2, ManagerAssumption DEF PcTypes, Moves

(* The stack of a thread that returns is typed.                            *)
LEMMA ForgetTypes ==
  ASSUME LocalTypes, NEW t \in Threads, Forget(t)
  PROVE  LocalTypes'
BY DEF LocalTypes, Forget

(* Returning keeps the counters and the stacks typed.                      *)
LEMMA ReturnTypes ==
  ASSUME PcTypes, LocalTypes, NEW t \in Threads, Return(t) \/ ReturnNotify(t)
  PROVE  PcTypes' /\ LocalTypes'
<1>1. {"idle", "done"} \subseteq RequestPC \cap SleeperPC \cap ControllerPC
  BY DEF RequestPC, SleeperPC, ControllerPC
<1>2. LocalTypes'
  BY ForgetTypes DEF Return, ReturnNotify
<1>3. PcTypes'
  BY <1>1, ReturnMoves, RequestPcTypes, SleeperPcTypes, ControllerPcTypes
<1> QED
  BY <1>2, <1>3

-----------------------------------------------------------------------------
(* What the engines do keeps their states.                                 *)
LEMMA EngineTypes ==
  ASSUME engine \in [Models -> EngineStates], NEW m,
         \/ FallAsleep(m) \/ SleepFails(m) \/ WakeUp(m) \/ WakeFails(m) \/ Settle(m)
         \/ UNCHANGED engine
  PROVE  engine' \in [Models -> EngineStates]
BY DEF FallAsleep, SleepFails, WakeUp, WakeFails, Settle, EngineStates

(* What is left alone keeps its type.                                      *)
LEMMA SameTypes ==
  /\ UNCHANGED locks /\ LockTypes => LockTypes'
  /\ UNCHANGED owner /\ OwnerTypes => OwnerTypes'
  /\ UNCHANGED gate /\ GateTypes => GateTypes'
  /\ UNCHANGED mode /\ ModeTypes => ModeTypes'
  /\ UNCHANGED pc /\ PcTypes => PcTypes'
  /\ UNCHANGED locals /\ LocalTypes => LocalTypes'
BY DEF locks, owner, gate, mode, locals, LockTypes, OwnerTypes, GateTypes, ModeTypes,
       PcTypes, LocalTypes

(* The fields of an owner record keep their types.                         *)
LEMMA RecordTypes ==
  ASSUME NEW phase \in Phases, NEW m \in Models \cup {None, System}
  PROVE  Record(phase, m) \in [phase : Phases, model : Models \cup {None, System}]
BY DEF Record

(* The three changes of ownership that several exits share keep it typed.  *)
LEMMA OwnerChangeTypes ==
  ASSUME OwnerTypes, NEW m \in Models \cup {None},
         \/ ClearOwner
         \/ MarkUnknown(m) /\ UNCHANGED active
         \/ PublishDemand(m) /\ UNCHANGED active,
         starting' \in {starting, None}
  PROVE  OwnerTypes'
<1>1. {"idle", "unknown", "demand"} \subseteq Phases
  BY DEF Phases
<1>2. {"sleeping", "unknown", "demand"}
        \subseteq {"unknown", "sleeping", "active", "starting", "demand"}
  OBVIOUS
<1>3. starting' \in Models \cup {None, System}
  BY DEF OwnerTypes
<1>4. CASE ClearOwner
  <2>1. published' \in [phase : Phases, model : Models \cup {None, System}]
    BY <1>1, <1>4, RecordTypes DEF ClearOwner
  <2> QED
    BY <1>2, <1>3, <1>4, <2>1 DEF OwnerTypes, ClearOwner
<1>5. CASE MarkUnknown(m) /\ UNCHANGED active
  <2>1. published' \in [phase : Phases, model : Models \cup {None, System}]
    BY <1>1, <1>5, RecordTypes DEF MarkUnknown
  <2> QED
    BY <1>2, <1>3, <1>5, <2>1 DEF OwnerTypes, MarkUnknown
<1>6. CASE PublishDemand(m) /\ UNCHANGED active
  <2>1. published' \in [phase : Phases, model : Models \cup {None, System}]
    BY <1>1, <1>6, RecordTypes DEF PublishDemand
  <2> QED
    BY <1>2, <1>3, <1>6, <2>1 DEF OwnerTypes, PublishDemand
<1> QED
  BY <1>4, <1>5, <1>6

-----------------------------------------------------------------------------
(* Everything but the engines.                                             *)
ProxyTypes ==
  LockTypes /\ OwnerTypes /\ GateTypes /\ ModeTypes /\ PcTypes /\ LocalTypes

(* The counters stay typed as a request goes on, with or without notify_all.*)
LEMMA RequestGoTypes ==
  ASSUME PcTypes, NEW r \in Requests, NEW l \in RequestPC,
         Go(r, l) \/ (GoNotify(r, l) /\ l # "waiting")
  PROVE  PcTypes'
BY GoMoves, NotifyMoves, RequestPcTypes

(* The same of a sleeper.                                                  *)
LEMMA SleeperGoTypes ==
  ASSUME PcTypes, NEW s \in Sleepers, NEW l \in SleeperPC,
         Go(s, l) \/ (GoNotify(s, l) /\ l # "waiting")
  PROVE  PcTypes'
BY GoMoves, NotifyMoves, SleeperPcTypes

(* The same of a controller.                                               *)
LEMMA ControllerGoTypes ==
  ASSUME PcTypes, NEW c \in Controllers, NEW l \in ControllerPC, Go(c, l)
  PROVE  PcTypes'
BY GoMoves, ControllerPcTypes

(* A request that leaves the lease: the locks and the pending switch.      *)
LEMMA LeaveLeaseTypes ==
  ASSUME LockTypes, GateTypes, NEW r \in Requests, LeaveLease(r),
         condition' \in {condition, None}, UNCHANGED <<sleepLock, quiescing, inflight>>
  PROVE  LockTypes' /\ GateTypes'
BY DEF LockTypes, GateTypes, LeaveLease

(* A failed revalidation of the owner leaves everything typed.             *)
LEMMA RevalidationFailsTypes ==
  ASSUME ProxyTypes, NEW r \in Requests, RevalidationFails(r) \/ RevalidationEscapes(r)
  PROVE  ProxyTypes'
<1>1. target[r] \in Models \cup {None}
  BY DEF ProxyTypes, LocalTypes
<1>2. LeaveRevalidation(r)
  BY DEF RevalidationFails, RevalidationEscapes
<1>3. LockTypes' /\ GateTypes'
  BY <1>2, LeaveLeaseTypes DEF ProxyTypes, LeaveRevalidation
<1>4. OwnerTypes'
  <2>1. CASE RevalidationFails(r)
    BY <1>1, <2>1, OwnerChangeTypes DEF ProxyTypes, RevalidationFails
  <2>2. CASE RevalidationEscapes(r)
    BY <2>2, SameTypes DEF ProxyTypes, RevalidationEscapes
  <2> QED
    BY <2>1, <2>2
<1>5. ModeTypes'
  BY <1>2, SameTypes DEF ProxyTypes, LeaveRevalidation
<1>6. PcTypes' /\ LocalTypes'
  BY <1>2, ReturnTypes DEF ProxyTypes, LeaveRevalidation
<1> QED
  BY <1>3, <1>4, <1>5, <1>6 DEF ProxyTypes

(* The exits of a failed start.                                            *)
LEMMA ExitStartupTypes ==
  ASSUME ProxyTypes, NEW r \in Requests, ExitStartup(r),
         \/ ClearOwner
         \/ PublishDemand(target[r]) /\ UNCHANGED active
         \/ /\ published' = Record(IF ready THEN "ready" ELSE "idle", active)
            /\ UNCHANGED <<active, ready, lifecycle>>
  PROVE  ProxyTypes'
<1>1. target[r] \in Models \cup {None}
  BY DEF ProxyTypes, LocalTypes
<1>2. LockTypes' /\ GateTypes'
  BY LeaveLeaseTypes DEF ProxyTypes, ExitStartup
<1>3. OwnerTypes'
  <2>1. CASE ClearOwner \/ (PublishDemand(target[r]) /\ UNCHANGED active)
    BY <1>1, <2>1, OwnerChangeTypes DEF ProxyTypes, ExitStartup
  <2>2. CASE /\ published' = Record(IF ready THEN "ready" ELSE "idle", active)
             /\ UNCHANGED <<active, ready, lifecycle>>
    <3>1. (IF ready THEN "ready" ELSE "idle") \in Phases
      BY DEF Phases
    <3>2. published' \in [phase : Phases, model : Models \cup {None, System}]
      BY <2>2, <3>1, RecordTypes DEF ProxyTypes, OwnerTypes
    <3> QED
      BY <2>2, <3>2 DEF ProxyTypes, OwnerTypes, ExitStartup
  <2> QED
    BY <2>1, <2>2
<1>4. ModeTypes'
  BY SameTypes DEF ProxyTypes, ExitStartup
<1>5. PcTypes' /\ LocalTypes'
  BY ReturnTypes DEF ProxyTypes, ExitStartup
<1> QED
  BY <1>2, <1>3, <1>4, <1>5 DEF ProxyTypes

(* A failed start leaves everything typed, whether it is undone or not.    *)
LEMMA FailStartupTypes ==
  ASSUME ProxyTypes, NEW r \in Requests,
         FailStartup(r) \/ LeaveDemand(r) \/ UndoEscapes(r)
  PROVE  ProxyTypes'
<1>1. CASE LeaveDemand(r) \/ UndoEscapes(r)
  BY <1>1, ExitStartupTypes DEF LeaveDemand, UndoEscapes
<1>2. CASE FailStartup(r) /\ active = target[r]
  <2>1. "undoCheck" \in RequestPC
    BY DEF RequestPC, Acquiring, Activating, StartupSteps
  <2>2. PcTypes'
    BY <1>2, <2>1, RequestGoTypes DEF FailStartup, ProxyTypes
  <2> QED
    BY <1>2, <2>2, SameTypes DEF FailStartup, ProxyTypes
<1> QED
  BY <1>1, <1>2 DEF FailStartup

(* The announcement of a start is typed.                                   *)
LEMMA StartActivationTypes ==
  ASSUME ProxyTypes, NEW r \in Requests, NEW cached, StartActivation(r, cached),
         active' \in {active, None}, ready' \in {ready, FALSE},
         UNCHANGED <<target, probe, expired, op>>
  PROVE  OwnerTypes' /\ PcTypes' /\ LocalTypes'
<1>1. target[r] \in Models \cup {None}
  BY DEF ProxyTypes, LocalTypes
<1>2. {"peerCheck", "oldSleep"} \subseteq RequestPC
  BY DEF RequestPC, Acquiring, Activating, StartupSteps
<1>3. PcTypes'
  BY <1>2, RequestGoTypes DEF StartActivation, ProxyTypes
<1>4. Record("starting", target[r]) \in [phase : Phases, model : Models \cup {None, System}]
  BY <1>1, RecordTypes DEF Phases
<1>5. OwnerTypes'
  BY <1>1, <1>4 DEF ProxyTypes, OwnerTypes, StartActivation
<1>6. LocalTypes'
  BY DEF ProxyTypes, LocalTypes, StartActivation, Peers
<1> QED
  BY <1>3, <1>5, <1>6

-----------------------------------------------------------------------------
(* The steps that only move a request.                                     *)
LEMMA RequestMovesTypes ==
  ASSUME ProxyTypes, NEW r \in Requests, NEW l \in RequestPC,
         Go(r, l) \/ (GoNotify(r, l) /\ l # "waiting"),
         UNCHANGED <<locks, owner, gate, mode, locals>>
  PROVE  ProxyTypes'
<1>1. PcTypes'
  BY RequestGoTypes DEF ProxyTypes
<1> QED
  BY <1>1, SameTypes DEF ProxyTypes

(* The steps that only take a model off the list of a loop.                *)
LEMMA VisitTypes ==
  ASSUME ProxyTypes, NEW t \in Threads, NEW m,
         todo' = [todo EXCEPT ![t] = @ \ {m}],
         UNCHANGED <<locks, owner, gate, mode, pc, target, probe, expired, op>>
  PROVE  ProxyTypes'
<1>1. LocalTypes'
  BY DEF ProxyTypes, LocalTypes
<1> QED
  BY <1>1, SameTypes DEF ProxyTypes

(* A thread that returns and does nothing else leaves everything typed.    *)
LEMMA ReturnOnlyTypes ==
  ASSUME ProxyTypes, NEW t \in Threads, Return(t) \/ ReturnNotify(t),
         UNCHANGED <<locks, owner, gate, mode>>
  PROVE  ProxyTypes'
<1>1. PcTypes' /\ LocalTypes'
  BY ReturnTypes DEF ProxyTypes
<1> QED
  BY <1>1, SameTypes DEF ProxyTypes

(* A deadline that passes leaves everything typed.                         *)
LEMMA DeadlineTypes ==
  ASSUME TypeOK, NEW t \in Requests \cup Sleepers, NEW blocked, DeadlinePasses(t, blocked)
  PROVE  TypeOK'
<1>1. LocalTypes'
  BY DEF TypeOK, LocalTypes, DeadlinePasses
<1>2. PcTypes'
  <2>1. t \in Threads
    OBVIOUS
  <2>2. "resume" \in RequestPC /\ "resume" \in SleeperPC
    BY DEF RequestPC, SleeperPC
  <2>3. CASE t \in Requests
    BY <2>1, <2>2, <2>3, RequestGoTypes DEF TypeOK, PcTypes, DeadlinePasses
  <2>4. CASE t \in Sleepers
    BY <2>1, <2>2, <2>4, SleeperGoTypes DEF TypeOK, PcTypes, DeadlinePasses
  <2> QED
    BY <2>3, <2>4
<1> QED
  BY <1>1, <1>2, SameTypes DEF TypeOK, DeadlinePasses

(* The request up to the lease.                                            *)
LEMMA EnterTypes ==
  ASSUME TypeOK, NEW r \in Requests,
         \/ Arrive(r) \/ DenyEntry(r) \/ DeferToDrain(r) \/ DeferToInflight(r)
         \/ GiveUpInDrain(r) \/ GiveUpInCount(r) \/ PassSwitch(r) \/ DenySwitch(r)
         \/ TakeLease(r)
  PROVE  TypeOK'
<1> USE DEF TypeOK, ProxyTypes
<1>0. {"enter", "waiting", "lease", "ownerCheck"} \subseteq RequestPC
  BY DEF RequestPC, Acquiring, Activating
<1>1. CASE Arrive(r)
  <2>1. LocalTypes'
    BY <1>1 DEF Arrive, LocalTypes
  <2>2. PcTypes'
    BY <1>0, <1>1, RequestGoTypes DEF Arrive
  <2> QED
    BY <1>1, <2>1, <2>2, SameTypes DEF Arrive
<1>2. CASE DenyEntry(r) \/ GiveUpInCount(r) \/ DenySwitch(r)
  <2>1. ProxyTypes'
    BY <1>2, ReturnOnlyTypes DEF DenyEntry, GiveUpInCount, DenySwitch
  <2> QED
    BY <1>2, <2>1 DEF DenyEntry, GiveUpInCount, DenySwitch
<1>3. CASE DeferToDrain(r)
  BY <1>0, <1>3, RequestMovesTypes DEF DeferToDrain
<1>4. CASE DeferToInflight(r)
  <2>1. target[r] \in Models \cup {None}
    BY DEF LocalTypes
  <2>2. GateTypes'
    BY <1>4, <2>1 DEF DeferToInflight, GateTypes
  <2>3. PcTypes'
    BY <1>0, <1>4, RequestGoTypes DEF DeferToInflight
  <2> QED
    BY <1>4, <2>2, <2>3, SameTypes DEF DeferToInflight
<1>5. CASE GiveUpInDrain(r)
  <2>1. /\ Return(r) \/ ReturnNotify(r)
        /\ pending' \in {pending, None}
    BY <1>5 DEF GiveUpInDrain, DropPending
  <2>2. GateTypes'
    BY <1>5, <2>1 DEF GiveUpInDrain, GateTypes
  <2>3. PcTypes' /\ LocalTypes'
    BY <2>1, ReturnTypes
  <2> QED
    BY <1>5, <2>2, <2>3, SameTypes DEF GiveUpInDrain
<1>6. CASE PassSwitch(r)
  <2>1. LockTypes'
    BY <1>6 DEF PassSwitch, LockTypes
  <2>2. PcTypes'
    BY <1>0, <1>6, RequestGoTypes DEF PassSwitch
  <2> QED
    BY <1>6, <2>1, <2>2, SameTypes DEF PassSwitch
<1>7. CASE TakeLease(r)
  <2>1. LockTypes'
    BY <1>7 DEF TakeLease, LockTypes
  <2>2. OwnerTypes' /\ PcTypes' /\ LocalTypes'
    <3>1. CASE active = target[r]
      <4>1. PcTypes'
        BY <1>0, <1>7, <3>1, RequestGoTypes DEF TakeLease
      <4> QED
        BY <1>7, <3>1, <4>1, SameTypes DEF TakeLease, owner, locals
    <3>2. CASE active # target[r]
      BY <1>7, <3>2, StartActivationTypes DEF TakeLease
    <3> QED
      BY <3>1, <3>2
  <2> QED
    BY <1>7, <2>1, <2>2, SameTypes DEF TakeLease
<1> QED
  BY <1>1, <1>2, <1>3, <1>4, <1>5, <1>6, <1>7

(* The readiness a request publishes as it leaves the lease.               *)
LEMMA PublishReadyTypes ==
  ASSUME ProxyTypes, NEW r \in Requests,
         ready' = TRUE, lifecycle' = "active", published' = Record("ready", target[r]),
         UNCHANGED active, starting' \in {starting, None},
         LeaveLease(r), UNCHANGED <<condition, sleepLock, quiescing, inflight, mode, locals>>,
         Go(r, "admit") \/ GoNotify(r, "admit")
  PROVE  ProxyTypes'
<1>1. target[r] \in Models \cup {None}
  BY DEF ProxyTypes, LocalTypes
<1>2. "admit" \in RequestPC
  BY DEF RequestPC, Acquiring
<1>3. PcTypes'
  BY <1>2, RequestGoTypes DEF ProxyTypes
<1>4. Record("ready", target[r]) \in [phase : Phases, model : Models \cup {None, System}]
  BY <1>1, RecordTypes DEF Phases
<1>5. OwnerTypes'
  BY <1>4 DEF ProxyTypes, OwnerTypes
<1>6. LockTypes' /\ GateTypes'
  BY LeaveLeaseTypes DEF ProxyTypes
<1> QED
  BY <1>3, <1>5, <1>6, SameTypes DEF ProxyTypes

(* The revalidation of a cached owner.                                     *)
LEMMA OwnerStepTypes ==
  ASSUME TypeOK, NEW r \in Requests, OwnerCheck(r) \/ OwnerPeers(r) \/ OwnerListed(r)
  PROVE  TypeOK'
<1> USE DEF TypeOK, ProxyTypes
<1>1. CASE OwnerCheck(r)
  <2> "ownerPeers" \in RequestPC
    BY DEF RequestPC, Acquiring, Activating
  <2>1. CASE /\ active' = None /\ ready' = FALSE
             /\ StartActivation(r, None)
             /\ UNCHANGED <<engine, locks, gate, mode, target, probe, expired, op>>
    BY <2>1, StartActivationTypes, SameTypes
  <2>2. CASE /\ Go(r, "ownerPeers")
             /\ todo' = [todo EXCEPT ![r] = Peers(r)]
             /\ UNCHANGED <<engine, locks, owner, gate, mode, target, probe, expired, op>>
    <3>1. LocalTypes'
      BY <2>2 DEF LocalTypes, Peers
    <3>2. PcTypes'
      BY <2>2, RequestGoTypes
    <3> QED
      BY <2>2, <3>1, <3>2, SameTypes
  <2>3. CASE RevalidationFails(r) \/ RevalidationEscapes(r)
    BY <2>3, RevalidationFailsTypes
       DEF RevalidationFails, RevalidationEscapes, LeaveRevalidation
  <2> QED
    BY <1>1, <2>1, <2>2, <2>3 DEF OwnerCheck
<1>2. CASE OwnerPeers(r)
  <2>1. CASE RevalidationFails(r) \/ RevalidationEscapes(r)
    BY <2>1, RevalidationFailsTypes
       DEF RevalidationFails, RevalidationEscapes, LeaveRevalidation
  <2>2. CASE ~RevalidationFails(r) /\ ~RevalidationEscapes(r)
    BY <1>2, <2>2, VisitTypes DEF OwnerPeers
  <2> QED
    BY <2>1, <2>2
<1>3. CASE OwnerListed(r)
  <2>1. CASE RevalidationFails(r) \/ RevalidationEscapes(r)
    BY <2>1, RevalidationFailsTypes
       DEF RevalidationFails, RevalidationEscapes, LeaveRevalidation
  <2>2. CASE ~RevalidationFails(r) /\ ~RevalidationEscapes(r)
    <3>1. ProxyTypes'
      BY <1>3, <2>2, PublishReadyTypes DEF OwnerListed
    <3> QED
      BY <1>3, <2>2, <3>1 DEF OwnerListed
  <2> QED
    BY <2>1, <2>2
<1> QED
  BY <1>1, <1>2, <1>3

(* The start of the target, call by call.                                  *)
LEMMA StartupStepTypes ==
  ASSUME TypeOK, NEW r \in Requests,
         \/ OldSleep(r) \/ OldWait(r) \/ PeerCheck(r) \/ PeerSleep(r) \/ PeerWait(r)
         \/ TargetCheck(r) \/ WakePhase(r) \/ LeaveSleep(r) \/ Readiness(r)
  PROVE  TypeOK'
<1> USE DEF TypeOK, ProxyTypes
<1>0. StartupSteps \subseteq RequestPC
  BY DEF RequestPC, Acquiring, Activating
<1>1. CASE OldSleep(r)
  <2>1. engine' \in [Models -> EngineStates]
    BY <1>1, EngineTypes DEF OldSleep
  <2>2. ProxyTypes'
    BY <1>0, <1>1, FailStartupTypes, RequestMovesTypes DEF OldSleep, StartupSteps
  <2> QED
    BY <2>1, <2>2
<1>2. CASE OldWait(r)
  <2>1. CASE FailStartup(r) /\ UNCHANGED engine
    BY <2>1, FailStartupTypes
  <2>2. CASE /\ ClearOwner
             /\ Go(r, "peerCheck")
             /\ UNCHANGED <<engine, locks, starting, gate, mode, locals>>
    <3>1. PcTypes'
      BY <1>0, <2>2, RequestGoTypes DEF StartupSteps
    <3>2. OwnerTypes'
      BY <2>2, OwnerChangeTypes
    <3> QED
      BY <2>2, <3>1, <3>2, SameTypes
  <2> QED
    BY <1>2, <2>1, <2>2 DEF OldWait
<1>3. CASE PeerCheck(r)
  <2>1. PICK m \in todo[r] :
          \/ /\ todo' = [todo EXCEPT ![r] = @ \ {m}]
             /\ UNCHANGED <<engine, locks, owner, gate, mode, pc, target, probe, expired, op>>
          \/ /\ probe' = [probe EXCEPT ![r] = m]
             /\ Go(r, "peerSleep")
             /\ UNCHANGED <<engine, locks, owner, gate, mode, target, todo, expired, op>>
          \/ FailStartup(r) /\ UNCHANGED engine
    BY <1>3 DEF PeerCheck
  <2>2. CASE /\ probe' = [probe EXCEPT ![r] = m]
             /\ Go(r, "peerSleep")
             /\ UNCHANGED <<engine, locks, owner, gate, mode, target, todo, expired, op>>
    <3>1. m \in Models
      BY DEF LocalTypes
    <3>2. LocalTypes'
      BY <2>2, <3>1 DEF LocalTypes
    <3>3. PcTypes'
      BY <1>0, <2>2, RequestGoTypes DEF StartupSteps
    <3> QED
      BY <2>2, <3>2, <3>3, SameTypes
  <2> QED
    BY <2>1, <2>2, FailStartupTypes, VisitTypes
<1>4. CASE PeerSleep(r)
  <2>1. engine' \in [Models -> EngineStates]
    BY <1>4, EngineTypes DEF PeerSleep
  <2>2. ProxyTypes'
    BY <1>0, <1>4, FailStartupTypes, RequestMovesTypes DEF PeerSleep, StartupSteps
  <2> QED
    BY <2>1, <2>2
<1>5. CASE PeerWait(r)
  <2>1. CASE FailStartup(r) /\ UNCHANGED engine
    BY <2>1, FailStartupTypes
  <2>2. CASE /\ todo' = [todo EXCEPT ![r] = @ \ {probe[r]}]
             /\ probe' = [probe EXCEPT ![r] = None]
             /\ Go(r, "peerCheck")
             /\ UNCHANGED <<engine, locks, owner, gate, mode, target, expired, op>>
    <3>1. LocalTypes'
      BY <2>2 DEF LocalTypes
    <3>2. PcTypes'
      BY <1>0, <2>2, RequestGoTypes DEF StartupSteps
    <3> QED
      BY <2>2, <3>1, <3>2, SameTypes
  <2> QED
    BY <1>5, <2>1, <2>2 DEF PeerWait
<1>6. CASE TargetCheck(r)
  <2>1. CASE FailStartup(r) /\ UNCHANGED engine
    BY <2>1, FailStartupTypes
  <2>2. ASSUME NEW l \in {"readiness", "weights"}, RememberTarget(r, l)
        PROVE  TypeOK'
    <3>1. PcTypes'
      BY <1>0, <2>2, RequestGoTypes DEF StartupSteps, RememberTarget
    <3>2. OwnerTypes'
      BY <2>2 DEF RememberTarget, OwnerTypes, LocalTypes
    <3> QED
      BY <2>2, <3>1, <3>2, SameTypes DEF RememberTarget
  <2> QED
    BY <1>6, <2>1, <2>2 DEF TargetCheck
<1>7. CASE WakePhase(r)
  <2>1. engine' \in [Models -> EngineStates]
    BY <1>7, EngineTypes DEF WakePhase
  <2>2. pc[r] \in WakePhases => NextPhase(pc[r]) \in RequestPC
    BY <1>0 DEF WakePhases, NextPhase, StartupSteps
  <2>3. ProxyTypes'
    BY <1>7, <2>2, FailStartupTypes, RequestMovesTypes DEF WakePhase
  <2> QED
    BY <2>1, <2>3
<1>8. CASE LeaveSleep(r)
  <2>1. ProxyTypes'
    BY <1>0, <1>8, FailStartupTypes, RequestMovesTypes DEF LeaveSleep, StartupSteps
  <2> QED
    BY <1>8, <2>1 DEF LeaveSleep
<1>9. CASE Readiness(r)
  <2>1. CASE FailStartup(r) /\ UNCHANGED engine
    BY <2>1, FailStartupTypes
  <2>2. CASE ~FailStartup(r)
    <3>1. ProxyTypes'
      BY <1>9, <2>2, PublishReadyTypes DEF Readiness
    <3> QED
      BY <1>9, <2>2, <3>1 DEF Readiness
  <2> QED
    BY <1>9, <2>1, <2>2 DEF Readiness
<1> QED
  BY <1>1, <1>2, <1>3, <1>4, <1>5, <1>6, <1>7, <1>8, <1>9

(* The undoing of a failed start.                                          *)
LEMMA UndoStepTypes ==
  ASSUME TypeOK, NEW r \in Requests, UndoCheck(r) \/ UndoSleep(r) \/ UndoWait(r)
  PROVE  TypeOK'
<1> USE DEF TypeOK, ProxyTypes
<1>0. StartupSteps \subseteq RequestPC
  BY DEF RequestPC, Acquiring, Activating
<1>1. ASSUME LeaveAsleep(r) PROVE TypeOK'
  BY <1>1, ExitStartupTypes DEF LeaveAsleep
<1>2. CASE UndoCheck(r)
  <2>1. CASE LeaveAsleep(r)
    BY <1>1, <2>1
  <2>2. CASE ~LeaveAsleep(r)
    <3>1. ProxyTypes'
      BY <1>0, <1>2, <2>2, FailStartupTypes, RequestMovesTypes DEF UndoCheck, StartupSteps
    <3> QED
      BY <1>2, <2>2, <3>1 DEF UndoCheck
  <2> QED
    BY <2>1, <2>2
<1>3. CASE UndoSleep(r)
  <2>1. engine' \in [Models -> EngineStates]
    BY <1>3, EngineTypes DEF UndoSleep
  <2>2. ProxyTypes'
    BY <1>0, <1>3, FailStartupTypes, RequestMovesTypes DEF UndoSleep, StartupSteps
  <2> QED
    BY <2>1, <2>2
<1>4. CASE UndoWait(r)
  BY <1>1, <1>4, FailStartupTypes DEF UndoWait
<1> QED
  BY <1>2, <1>3, <1>4

(* Admission, up to the release.                                           *)
LEMMA ServeTypes ==
  ASSUME TypeOK, NEW r \in Requests,
         Admit(r) \/ UpstreamLost(r) \/ MarkOwnerUnavailable(r) \/ NotifyRelease(r)
  PROVE  TypeOK'
<1> USE DEF TypeOK, ProxyTypes
<1>0. {"leased", "lost", "marked"} \subseteq RequestPC
  BY DEF RequestPC, Serving
<1>1. CASE Admit(r)
  <2>1. LockTypes'
    BY <1>1 DEF Admit, LockTypes
  <2>2. GateTypes'
    BY <1>1 DEF Admit, GateTypes
  <2>3. PcTypes' /\ LocalTypes'
    BY <1>0, <1>1, RequestGoTypes, ReturnTypes, SameTypes DEF Admit
  <2> QED
    BY <1>1, <2>1, <2>2, <2>3, SameTypes DEF Admit
<1>2. CASE UpstreamLost(r)
  BY <1>0, <1>2, RequestMovesTypes DEF UpstreamLost
<1>3. CASE MarkOwnerUnavailable(r)
  <2>1. target[r] \in Models \cup {None}
    BY DEF LocalTypes
  <2>2. PcTypes'
    BY <1>0, <1>3, RequestGoTypes DEF MarkOwnerUnavailable
  <2>3. OwnerTypes'
    BY <1>3, <2>1, OwnerChangeTypes, SameTypes DEF MarkOwnerUnavailable, owner
  <2> QED
    BY <1>3, <2>2, <2>3, SameTypes DEF MarkOwnerUnavailable
<1>4. CASE NotifyRelease(r)
  BY <1>4, ReturnOnlyTypes DEF NotifyRelease
<1> QED
  BY <1>1, <1>2, <1>3, <1>4

-----------------------------------------------------------------------------
(* A sleeper.                                                              *)
LEMMA LeaveForTypes ==
  ASSUME ProxyTypes, NEW s \in Sleepers, NEW l \in {"commit", "abort"}, LeaveFor(s, l)
  PROVE  ProxyTypes'
<1>1. l \in SleeperPC
  BY DEF SleeperPC, SleepSteps
<1>2. PcTypes'
  BY <1>1, SleeperGoTypes DEF LeaveFor, ProxyTypes
<1>3. LockTypes'
  BY DEF LeaveFor, ProxyTypes, LockTypes
<1> QED
  BY <1>2, <1>3, SameTypes DEF LeaveFor, ProxyTypes

(* A sleeper that only goes on leaves everything typed.                    *)
LEMMA SleeperMovesTypes ==
  ASSUME ProxyTypes, NEW s \in Sleepers, NEW l \in SleeperPC, Go(s, l),
         UNCHANGED <<locks, owner, gate, mode, locals>>
  PROVE  ProxyTypes'
<1>1. PcTypes'
  BY SleeperGoTypes DEF ProxyTypes
<1> QED
  BY <1>1, SameTypes DEF ProxyTypes

(* The steps under the sleep lock and the condition.                       *)
LEMMA DrainTypes ==
  ASSUME TypeOK, NEW s \in Sleepers,
         \/ SleepCall(s) \/ TakeSleepLock(s) \/ SleepCallExpires(s)
         \/ WaitForZero(s) \/ GiveUpZero(s) \/ Drained(s) \/ Announce(s)
  PROVE  TypeOK'
<1> USE DEF TypeOK, ProxyTypes
<1>0. {"sleepLock", "enter", "waiting", "sleepLease", "announce"} \subseteq SleeperPC
  BY DEF SleeperPC, SleepSteps
<1>1. CASE SleepCall(s)
  BY <1>0, <1>1, SleeperMovesTypes DEF SleepCall
<1>2. CASE TakeSleepLock(s)
  <2>1. LockTypes'
    BY <1>2 DEF TakeSleepLock, LockTypes
  <2>2. PcTypes'
    BY <1>0, <1>2, SleeperGoTypes DEF TakeSleepLock
  <2> QED
    BY <1>2, <2>1, <2>2, SameTypes DEF TakeSleepLock
<1>3. CASE SleepCallExpires(s)
  <2>1. LockTypes'
    BY <1>3 DEF SleepCallExpires, FreeSleepLock, LockTypes
  <2>2. PcTypes' /\ LocalTypes'
    BY <1>3, ReturnTypes DEF SleepCallExpires
  <2> QED
    BY <1>3, <2>1, <2>2, SameTypes DEF SleepCallExpires
<1>4. CASE WaitForZero(s)
  <2>1. GateTypes'
    BY <1>4 DEF WaitForZero, GateTypes
  <2>2. PcTypes'
    BY <1>0, <1>4, SleeperGoTypes DEF WaitForZero
  <2> QED
    BY <1>4, <2>1, <2>2, SameTypes DEF WaitForZero
<1>5. CASE GiveUpZero(s)
  <2>1. LockTypes'
    BY <1>5 DEF GiveUpZero, FreeSleepLock, LockTypes
  <2>2. GateTypes'
    BY <1>5 DEF GiveUpZero, GateTypes
  <2>3. PcTypes' /\ LocalTypes'
    BY <1>5, ReturnTypes DEF GiveUpZero
  <2> QED
    BY <1>5, <2>1, <2>2, <2>3, SameTypes DEF GiveUpZero
<1>6. CASE Drained(s)
  <2>1. GateTypes'
    BY <1>6 DEF Drained, GateTypes
  <2>2. PcTypes'
    BY <1>0, <1>6, SleeperGoTypes DEF Drained
  <2>3. LocalTypes'
    BY <1>6 DEF Drained, LocalTypes, OwnerTypes
  <2> QED
    BY <1>6, <2>1, <2>2, <2>3, SameTypes DEF Drained
<1>7. CASE Announce(s)
  <2>1. Record("sleeping", target[s]) \in [phase : Phases, model : Models \cup {None, System}]
    <3>1. target[s] \in Models \cup {None}
      BY DEF LocalTypes
    <3> QED
      BY <3>1, RecordTypes DEF Phases
  <2>2. OwnerTypes'
    BY <1>7, <2>1 DEF Announce, OwnerTypes
  <2>3. PcTypes'
    BY <1>0, <1>7, SleeperGoTypes DEF Announce
  <2> QED
    BY <1>7, <2>2, <2>3, SameTypes DEF Announce
<1> QED
  BY <1>1, <1>2, <1>3, <1>4, <1>5, <1>6, <1>7

(* The steps under the lease, and the commit.                              *)
LEMMA SleepStepTypes ==
  ASSUME TypeOK, NEW s \in Sleepers,
         \/ TakeSleepLease(s) \/ ContainmentExpires(s) \/ ValidateAsleep(s) \/ AllAsleep(s)
         \/ SleepCheck(s) \/ SleepPost(s) \/ SleepPoll(s)
         \/ CommitSleep(s) \/ AbortSleep(s) \/ AnnounceFails(s) \/ EndUnpublished(s)
  PROVE  TypeOK'
<1> USE DEF TypeOK, ProxyTypes
<1>0. SleepingSteps \subseteq SleeperPC
  BY DEF SleeperPC, SleepSteps
<1>1. CASE TakeSleepLease(s)
  <2>1. LockTypes'
    BY <1>1 DEF TakeSleepLease, LockTypes
  <2>2. PcTypes'
    BY <1>0, <1>1, SleeperGoTypes DEF TakeSleepLease, SleepingSteps
  <2>3. LocalTypes'
    BY <1>1 DEF TakeSleepLease, LocalTypes
  <2> QED
    BY <1>1, <2>1, <2>2, <2>3, SameTypes DEF TakeSleepLease
<1>2. CASE ContainmentExpires(s) \/ AllAsleep(s) \/ SleepPoll(s)
  <2>1. \E l \in {"commit", "abort"} : LeaveFor(s, l)
    BY <1>2 DEF ContainmentExpires, AllAsleep, SleepPoll
  <2> QED
    BY <1>2, <2>1, LeaveForTypes DEF ContainmentExpires, AllAsleep, SleepPoll
<1>3. CASE ValidateAsleep(s)
  BY <1>3, VisitTypes, LeaveForTypes DEF ValidateAsleep
<1>4. CASE SleepCheck(s)
  <2>1. ProxyTypes'
    BY <1>0, <1>4, LeaveForTypes, SleeperMovesTypes DEF SleepCheck, SleepingSteps
  <2> QED
    BY <1>4, <2>1 DEF SleepCheck
<1>5. CASE SleepPost(s)
  <2>1. engine' \in [Models -> EngineStates]
    BY <1>5, EngineTypes DEF SleepPost
  <2>2. ProxyTypes'
    BY <1>0, <1>5, LeaveForTypes, SleeperMovesTypes DEF SleepPost, SleepingSteps
  <2> QED
    BY <2>1, <2>2
<1>6. ASSUME EndSleep(s), OwnerTypes' PROVE TypeOK'
  <2>1. LockTypes'
    BY <1>6 DEF EndSleep, FreeSleepLock, LockTypes
  <2>2. GateTypes'
    BY <1>6 DEF EndSleep, GateTypes
  <2>3. PcTypes' /\ LocalTypes'
    BY <1>6, ReturnTypes DEF EndSleep
  <2> QED
    BY <1>6, <2>1, <2>2, <2>3, SameTypes DEF EndSleep
<1>7. CASE CommitSleep(s)
  <2>1. starting' = starting
    BY <1>7 DEF CommitSleep, EndSleep
  <2>2. OwnerTypes'
    <3>1. CASE target[s] = None
      <4>1. Record("idle", None) \in [phase : Phases, model : Models \cup {None, System}]
        BY RecordTypes DEF Phases
      <4> QED
        BY <1>7, <2>1, <3>1, <4>1 DEF CommitSleep, OwnerTypes
    <3>2. CASE target[s] # None
      BY <1>7, <2>1, <3>2, OwnerChangeTypes DEF CommitSleep
    <3> QED
      BY <3>1, <3>2
  <2> QED
    BY <1>6, <1>7, <2>2 DEF CommitSleep
<1>8. CASE AbortSleep(s)
  <2>1. target[s] \in Models \cup {None}
    BY DEF LocalTypes
  <2>2. starting' = starting
    BY <1>8 DEF AbortSleep, EndSleep
  <2>3. OwnerTypes'
    BY <1>8, <2>1, <2>2, OwnerChangeTypes DEF AbortSleep
  <2> QED
    BY <1>6, <1>8, <2>3 DEF AbortSleep
<1>9. CASE AnnounceFails(s)
  <2>1. PcTypes'
    BY <1>9, SleeperGoTypes DEF AnnounceFails, SleeperPC, SleepSteps
  <2> QED
    BY <1>9, <2>1, SameTypes DEF AnnounceFails
<1>10. CASE EndUnpublished(s)
  <2>1. LockTypes'
    BY <1>10 DEF EndUnpublished, FreeSleepLock, LockTypes
  <2>2. OwnerTypes'
    BY <1>10 DEF EndUnpublished, OwnerTypes
  <2>3. quiescing' \in BOOLEAN
    BY <1>10, ZenonT(30) DEF EndUnpublished, GateTypes
  <2>4. GateTypes'
    BY <1>10, <2>3 DEF EndUnpublished, GateTypes
  <2>5. PcTypes' /\ LocalTypes'
    BY <1>10, ReturnTypes DEF EndUnpublished
  <2> QED
    BY <1>10, <2>1, <2>2, <2>4, <2>5, SameTypes DEF EndUnpublished
<1> QED
  BY <1>1, <1>2, <1>3, <1>4, <1>5, <1>7, <1>8, <1>9, <1>10

-----------------------------------------------------------------------------
(* A startup operation.                                                    *)
LEMMA OpMovesTypes ==
  ASSUME TypeOK, NEW c \in Controllers, NEW l \in ControllerPC, Go(c, l),
         engine' \in [Models -> EngineStates], UNCHANGED <<locks, owner, gate, mode>>,
         LocalTypes'
  PROVE  TypeOK'
<1>1. PcTypes'
  BY ControllerGoTypes DEF TypeOK
<1> QED
  BY <1>1, SameTypes DEF TypeOK

(* The call of a startup operation, up to its announcement.                *)
LEMMA OpBeginTypes ==
  ASSUME TypeOK, NEW c \in Controllers,
         ControlCall(c) \/ TakeOpLease(c) \/ OpBegin(c),
         pc[c] = "opBegin" /\ op[c] = "sleep" => target[c] \in Models
  PROVE  TypeOK'
<1> USE DEF TypeOK
<1>0. {"opLease", "opBegin", "opCheck"} \subseteq ControllerPC
  BY DEF ControllerPC, OpSteps
<1>1. CASE ControlCall(c)
  <2>1. LocalTypes'
    BY <1>1 DEF ControlCall, LocalTypes, Ops
  <2> QED
    BY <1>0, <1>1, <2>1, OpMovesTypes DEF ControlCall
<1>2. CASE TakeOpLease(c)
  <2>1. LockTypes'
    BY <1>2 DEF TakeOpLease, LockTypes
  <2>2. PcTypes'
    BY <1>0, <1>2, ControllerGoTypes DEF TakeOpLease
  <2> QED
    BY <1>2, <2>1, <2>2, SameTypes DEF TakeOpLease
<1>3. CASE OpBegin(c) /\ OpRefused(c)
  <2>1. LockTypes'
    BY <1>3 DEF OpBegin, LockTypes
  <2>2. PcTypes' /\ LocalTypes'
    BY <1>3, ReturnTypes DEF OpBegin
  <2>3. OwnerTypes'
    BY <1>3, SameTypes DEF OpBegin, owner
  <2> QED
    BY <1>3, <2>1, <2>2, <2>3, SameTypes DEF OpBegin
<1>4. CASE OpBegin(c) /\ ~OpRefused(c)
  <2>1. LockTypes'
    BY <1>4 DEF OpBegin, LockTypes
  <2>2. starting' \in Models \cup {None, System}
    BY <1>4 DEF OpBegin, LocalTypes
  <2>3. published' \in [phase : Phases, model : Models \cup {None, System}]
    <3>1. OpPhase(c) \in Phases
      BY DEF OpPhase, Phases
    <3> QED
      BY <1>4, <2>2, <3>1, RecordTypes DEF OpBegin
  <2>4. OwnerTypes'
    BY <1>4, <2>2, <2>3 DEF OpBegin, OwnerTypes
  <2>5. LocalTypes'
    BY <1>4 DEF OpBegin, LocalTypes
  <2>6. PcTypes'
    BY <1>0, <1>4, ControllerGoTypes DEF OpBegin
  <2> QED
    BY <1>4, <2>1, <2>4, <2>5, <2>6, SameTypes DEF OpBegin
<1> QED
  BY <1>1, <1>2, <1>3, <1>4

(* Its loop over the engines.                                              *)
LEMMA OpStepTypes ==
  ASSUME TypeOK, NEW c \in Controllers,
         OpCheck(c) \/ OpSleep(c) \/ OpPoll(c) \/ OpListed(c)
  PROVE  TypeOK'
<1> USE DEF TypeOK
<1>0. OpSteps \subseteq ControllerPC
  BY DEF ControllerPC
<1>1. ASSUME NEW l \in OpSteps, Go(c, l), UNCHANGED <<locks, owner, gate, mode, locals>>,
             engine' \in [Models -> EngineStates]
      PROVE  TypeOK'
  BY <1>0, <1>1, OpMovesTypes, SameTypes
<1>2. CASE OpCheck(c)
  <2>1. PICK m \in todo[c] :
          \/ /\ \/ /\ probe' = [probe EXCEPT ![c] = m]
                   /\ Go(c, "opPoll") \/ Go(c, "opSleep")
                   /\ UNCHANGED <<target, todo, expired, op>>
                \/ /\ target' \in {target, [target EXCEPT ![c] = m]}
                   /\ todo' = [todo EXCEPT ![c] = @ \ {m}]
                   /\ UNCHANGED <<pc, probe, expired, op>>
                \/ Go(c, "opFinally") /\ UNCHANGED locals
             /\ UNCHANGED <<engine, locks, owner, gate, mode>>
    BY <1>2 DEF OpCheck, OpFails
  <2>2. m \in Models
    BY DEF LocalTypes
  <2>3. LocalTypes'
    BY <2>1, <2>2, SameTypes DEF LocalTypes, locals
  <2>4. {"opPoll", "opSleep", "opFinally"} \subseteq ControllerPC
    BY <1>0 DEF OpSteps
  <2>5. PcTypes'
    BY <2>1, <2>4, ControllerGoTypes, SameTypes
  <2> QED
    BY <2>1, <2>3, <2>5, SameTypes
<1>3. CASE OpSleep(c)
  <2>1. engine' \in [Models -> EngineStates]
    BY <1>3, EngineTypes DEF OpSleep
  <2> QED
    BY <1>1, <1>3, <2>1 DEF OpSleep, OpFails, OpSteps
<1>4. CASE OpPoll(c)
  <2>1. CASE OpFails(c)
    BY <1>1, <1>4, <2>1 DEF OpPoll, OpFails, OpSteps
  <2>2. CASE /\ todo' = [todo EXCEPT ![c] = @ \ {probe[c]}]
             /\ probe' = [probe EXCEPT ![c] = None]
             /\ Go(c, "opCheck")
             /\ UNCHANGED <<target, expired, op>>
    <3>1. LocalTypes'
      BY <2>2 DEF LocalTypes
    <3> QED
      BY <1>0, <1>4, <2>2, <3>1, OpMovesTypes DEF OpPoll, OpSteps
  <2> QED
    BY <1>4, <2>1, <2>2 DEF OpPoll
<1>5. CASE OpListed(c)
  BY <1>1, <1>5 DEF OpListed, OpFails, OpSteps
<1> QED
  BY <1>2, <1>3, <1>4, <1>5

(* Its result and its end.                                                 *)
LEMMA OpCommitTypes ==
  ASSUME TypeOK, NEW c \in Controllers,
         \/ CommitOpSleep(c) \/ CommitFinalize(c) \/ CommitAdopt(c)
         \/ OpFinally(c) \/ Reconciled(c)
  PROVE  TypeOK'
<1> USE DEF TypeOK
<1>0. "opFinally" \in ControllerPC
  BY DEF ControllerPC, OpSteps
<1>1. CASE CommitOpSleep(c)
  <2>1. OwnerTypes'
    BY <1>1, OwnerChangeTypes, SameTypes DEF CommitOpSleep, owner
  <2>2. PcTypes'
    BY <1>0, <1>1, ControllerGoTypes DEF CommitOpSleep
  <2> QED
    BY <1>1, <2>1, <2>2, SameTypes DEF CommitOpSleep
<1>2. CASE CommitFinalize(c)
  <2>1. OwnerTypes'
    BY <1>2, OwnerChangeTypes DEF CommitFinalize
  <2>2. PcTypes'
    BY <1>0, <1>2, ControllerGoTypes DEF CommitFinalize
  <2>3. ModeTypes'
    BY <1>2 DEF CommitFinalize, ModeTypes
  <2> QED
    BY <1>2, <2>1, <2>2, <2>3, SameTypes DEF CommitFinalize
<1>3. CASE CommitAdopt(c)
  <2>1. OwnerTypes'
    BY <1>3 DEF CommitAdopt, OwnerTypes, LocalTypes
  <2>2. PcTypes'
    BY <1>0, <1>3, ControllerGoTypes DEF CommitAdopt
  <2>3. ModeTypes'
    BY <1>3 DEF CommitAdopt, ModeTypes
  <2> QED
    BY <1>3, <2>1, <2>2, <2>3, SameTypes DEF CommitAdopt
<1>4. ASSUME EndOp(c), active' \in {active, None}, ready' \in BOOLEAN,
             lifecycle' \in {lifecycle, "sleeping"}, listening' \in {listening, TRUE}
      PROVE  TypeOK'
  <2>1. LockTypes'
    BY <1>4 DEF EndOp, LockTypes
  <2>2. OwnerTypes'
    <3>1. Record("idle", None) \in [phase : Phases, model : Models \cup {None, System}]
      BY RecordTypes DEF Phases
    <3> QED
      BY <1>4, <3>1 DEF EndOp, OwnerTypes
  <2>3. ModeTypes'
    BY <1>4 DEF EndOp, ModeTypes
  <2>4. PcTypes' /\ LocalTypes'
    BY <1>4, ReturnTypes DEF EndOp
  <2> QED
    BY <1>4, <2>1, <2>2, <2>3, <2>4, SameTypes DEF EndOp
<1>5. CASE OpFinally(c)
  BY <1>4, <1>5 DEF OpFinally, OwnerTypes
<1>6. CASE Reconciled(c)
  BY <1>4, <1>6 DEF Reconciled
<1> QED
  BY <1>1, <1>2, <1>3, <1>5, <1>6


-----------------------------------------------------------------------------
(* A new process starts typed, over engines and a file that are.           *)
LEMMA CrashTypes ==
  ASSUME TypeOK, Crash
  PROVE  TypeOK'
<1>1. "idle" \in RequestPC \cap SleeperPC \cap ControllerPC
  BY DEF RequestPC, SleeperPC, ControllerPC
<1>2. PcTypes'
  BY <1>1 DEF Crash, NewProcess, PcTypes
<1>3. LocalTypes'
  BY DEF Crash, NewProcess, LocalTypes
<1>4. OwnerTypes'
  BY DEF Crash, NewProcess, OwnerTypes, TypeOK
<1>5. LockTypes' /\ GateTypes'
  BY DEF Crash, NewProcess, LockTypes, GateTypes
<1>6. ModeTypes'
  BY ManagerAssumption DEF Crash, NewProcess, ModeTypes, TypeOK
<1> QED
  BY <1>2, <1>3, <1>4, <1>5, <1>6 DEF Crash, TypeOK

(* So does the first one.                                                  *)
LEMMA InitTypes == Init => TypeOK
<1> SUFFICES ASSUME Init PROVE TypeOK
  OBVIOUS
<1>1. "idle" \in RequestPC \cap SleeperPC \cap ControllerPC
  BY DEF RequestPC, SleeperPC, ControllerPC
<1>2. PcTypes
  BY <1>1 DEF Init, PcTypes
<1>3. LocalTypes
  BY DEF Init, LocalTypes
<1>4. OwnerTypes
  <2>1. Record("none", None) \in [phase : Phases, model : Models \cup {None, System}]
    BY RecordTypes DEF Phases
  <2> QED
    BY <2>1 DEF Init, OwnerTypes
<1>5. LockTypes /\ GateTypes
  BY DEF Init, LockTypes, GateTypes
<1>6. ModeTypes
  BY ManagerAssumption DEF Init, ModeTypes
<1>7. engine \in [Models -> EngineStates]
  BY DEF Init, EngineStates
<1> QED
  BY <1>2, <1>3, <1>4, <1>5, <1>6, <1>7 DEF TypeOK

-----------------------------------------------------------------------------
(* Then the locks and the gates.                                           *)
(* A thread in acquire holds the condition from the switch wait to its     *)
(* admission, the reconciliation from its announcement to its end.         *)
HoldsCondition(t) ==
  \/ pc[t] \in Acquiring
  \/ pc[t] \in OpSteps \ {"opBegin"} /\ op[t] = "reconcile"

HoldsLease(t) == pc[t] \in Activating \cup SleepingSteps \cup OpSteps

LocksHeld ==
  \A t \in Threads : /\ HoldsCondition(t) => condition = t
                     /\ HoldsLease(t) => lease = t

(* Nobody is between the switch wait and its admission while a sleeper     *)
(* quiesces, or for a model other than the pending one.                    *)
GatesHold ==
  \A r \in Requests :
    pc[r] \in Acquiring => ~quiescing /\ pending \in {None, target[r]}

(* An operation /startup/sleep has its model.                              *)
OpTargets ==
  \A c \in Controllers :
    pc[c] \in {"opLease", "opBegin"} /\ op[c] = "sleep" => target[c] \in Models

IInv == TypeOK /\ LocksHeld /\ GatesHold /\ InflightCounts /\ OpTargets

-----------------------------------------------------------------------------
(* What one step of thread t may do to the others, to the locks and to the *)
(* gates.  Every action of a thread is orderly.                            *)
LocksOrderly(t) ==
  /\ HoldsCondition(t)' => condition' = t
  /\ HoldsLease(t)' => lease' = t
  /\ condition' = condition \/ {condition, condition'} \subseteq {None, t}
  /\ lease' = lease \/ {lease, lease'} \subseteq {None, t}

GatesOrderly(t) ==
  /\ pc'[t] \in Acquiring =>
       /\ target'[t] = target[t]
       /\ pc[t] \in Acquiring \/ (~quiescing' /\ pending' \in {None, target[t]})
  /\ quiescing' => quiescing \/ condition = None
  /\ pending' \in {pending, None} \/ (condition = None /\ pc'[t] \notin Acquiring)

CountOrderly(t) ==
  \/ inflight' = inflight /\ (pc'[t] \in Serving <=> pc[t] \in Serving)
  \/ inflight' = inflight + 1 /\ pc[t] = "admit" /\ pc'[t] \in Serving
  \/ inflight' = inflight - 1 /\ pc[t] \in Serving /\ pc'[t] \notin Serving

OpTargetOrderly(t) ==
  pc'[t] \in {"opLease", "opBegin"} /\ op'[t] = "sleep" =>
    \/ target'[t] \in Models
    \/ pc[t] \in {"opLease", "opBegin"} /\ op[t] = "sleep" /\ target'[t] = target[t]

Orderly(t) ==
  /\ \A u \in Threads \ {t} :
       /\ pc'[u] = pc[u] \/ (pc[u] = "waiting" /\ pc'[u] = "resume")
       /\ target'[u] = target[u] /\ op'[u] = op[u]
  /\ LocksOrderly(t) /\ GatesOrderly(t) /\ CountOrderly(t) /\ OpTargetOrderly(t)

-----------------------------------------------------------------------------
(* Nobody waits while holding a lock, or while being served.               *)
LEMMA WaitersHoldNothing ==
  {"waiting", "resume"} \cap (Acquiring \cup Activating \cup SleepingSteps \cup OpSteps
                                \cup Serving \cup {"opLease", "opBegin"}) = {}
BY DEF Acquiring, Activating, StartupSteps, SleepingSteps, OpSteps, Serving

(* An orderly step robs nobody of a lock.                                  *)
LEMMA LocksHeldStep ==
  ASSUME LocksHeld, NEW t \in Threads, Orderly(t)
  PROVE  LocksHeld'
<1> SUFFICES ASSUME NEW u \in Threads
             PROVE  /\ HoldsCondition(u)' => condition' = u
                    /\ HoldsLease(u)' => lease' = u
  BY DEF LocksHeld
<1>1. CASE u = t
  BY <1>1 DEF Orderly, LocksOrderly
<1>2. CASE u # t
  <2>1. /\ pc'[u] = pc[u] \/ (pc[u] = "waiting" /\ pc'[u] = "resume")
        /\ op'[u] = op[u]
    BY <1>2 DEF Orderly
  <2>2. /\ HoldsCondition(u)' => HoldsCondition(u)
        /\ HoldsLease(u)' => HoldsLease(u)
    BY <2>1, WaitersHoldNothing DEF HoldsCondition, HoldsLease
  <2>3. u \notin {None, t}
    BY <1>2, ManagerAssumption
  <2> QED
    BY <2>2, <2>3 DEF LocksHeld, Orderly, LocksOrderly
<1> QED
  BY <1>1, <1>2

(* With the condition free, nobody is between switch wait and admission.   *)
LEMMA NobodyAcquiring ==
  ASSUME LocksHeld, condition = None
  PROVE  \A t \in Threads : pc[t] \notin Acquiring
BY ManagerAssumption DEF LocksHeld, HoldsCondition

(* An orderly step closes a gate on nobody already past it.                *)
LEMMA GatesHoldStep ==
  ASSUME LocksHeld, GatesHold, NEW t \in Threads, Orderly(t)
  PROVE  GatesHold'
<1> SUFFICES ASSUME NEW r \in Requests, pc'[r] \in Acquiring
             PROVE  ~quiescing' /\ pending' \in {None, target'[r]}
  BY DEF GatesHold
<1>1. CASE r = t
  <2>1. CASE pc[t] \in Acquiring
    BY <1>1, <2>1, NobodyAcquiring DEF Orderly, GatesOrderly, GatesHold
  <2>2. CASE pc[t] \notin Acquiring
    BY <1>1, <2>2 DEF Orderly, GatesOrderly
  <2> QED
    BY <2>1, <2>2
<1>2. CASE r # t
  <2>1. pc[r] \in Acquiring /\ target'[r] = target[r]
    BY <1>2, WaitersHoldNothing DEF Orderly
  <2>2. condition # None
    BY <2>1, NobodyAcquiring
  <2> QED
    BY <2>1, <2>2 DEF Orderly, GatesOrderly, GatesHold
<1> QED
  BY <1>1, <1>2

(* An orderly step keeps the models of the operations.                     *)
LEMMA OpTargetsStep ==
  ASSUME OpTargets, NEW t \in Threads, Orderly(t)
  PROVE  OpTargets'
<1> SUFFICES ASSUME NEW c \in Controllers,
                    pc'[c] \in {"opLease", "opBegin"}, op'[c] = "sleep"
             PROVE  target'[c] \in Models
  BY DEF OpTargets
<1>1. CASE c = t
  BY <1>1 DEF Orderly, OpTargetOrderly, OpTargets
<1>2. CASE c # t
  <2>1. pc[c] = pc'[c] /\ target'[c] = target[c] /\ op'[c] = op[c]
    BY <1>2, WaitersHoldNothing DEF Orderly
  <2> QED
    BY <2>1 DEF OpTargets
<1> QED
  BY <1>1, <1>2

(* The count of the requests being served follows inflight.                *)
InService == {r \in Requests : pc[r] \in Serving}

(* The requests being served are finitely many.                            *)
LEMMA InServiceFinite ==
  IsFiniteSet(InService) /\ IsFiniteSet(InService')
<1>1. InService \subseteq Requests /\ InService' \subseteq Requests
  BY DEF InService
<1> QED
  BY <1>1, ManagerAssumption, FS_Subset

(* Only requests are admitted and served.                                  *)
LEMMA ServingAreRequests ==
  ASSUME PcTypes, NEW t \in Threads, pc[t] \in Serving \cup Acquiring
  PROVE  t \in Requests
<1>1. (Serving \cup Acquiring) \cap (SleeperPC \cup ControllerPC) = {}
  BY DEF Serving, Acquiring, Activating, StartupSteps, SleeperPC, SleepSteps, SleepingSteps,
         ControllerPC, OpSteps
<1> QED
  BY <1>1 DEF PcTypes

(* An orderly step keeps the count, and who is served is counted.          *)
LEMMA InflightCountsStep ==
  ASSUME PcTypes, PcTypes', InflightCounts, NEW t \in Threads, Orderly(t)
  PROVE  InflightCounts' /\ (pc[t] \in Serving => inflight > 0)
<1>1. \A r \in Requests \ {t} : r \in InService' <=> r \in InService
  BY WaitersHoldNothing DEF Orderly, InService
<1>2. inflight = Cardinality(InService)
  BY DEF InflightCounts, InService
<1>3. pc[t] \in Serving => inflight > 0
  <2> SUFFICES ASSUME pc[t] \in Serving PROVE inflight > 0
    OBVIOUS
  <2>1. t \in InService
    BY ServingAreRequests DEF InService
  <2>2. Cardinality(InService) \in Nat /\ Cardinality(InService) # 0
    BY <2>1, InServiceFinite, FS_CardinalityType, FS_EmptySet
  <2> QED
    BY <1>2, <2>2
<1>4. inflight' = Cardinality(InService')
  <2>1. CASE inflight' = inflight /\ (pc'[t] \in Serving <=> pc[t] \in Serving)
    <3>1. InService' = InService
      BY <1>1, <2>1 DEF InService
    <3> QED
      BY <1>2, <2>1, <3>1
  <2>2. CASE inflight' = inflight + 1 /\ pc[t] = "admit" /\ pc'[t] \in Serving
    <3>1. t \in Requests /\ t \notin InService
      BY <2>2, ServingAreRequests DEF InService, Serving, Acquiring
    <3>2. InService' = InService \cup {t}
      BY <1>1, <2>2, <3>1 DEF InService
    <3> QED
      BY <1>2, <2>2, <3>1, <3>2, InServiceFinite, FS_AddElement
  <2>3. CASE inflight' = inflight - 1 /\ pc[t] \in Serving /\ pc'[t] \notin Serving
    <3>1. t \in InService
      BY <2>3, ServingAreRequests DEF InService
    <3>2. InService' = InService \ {t}
      BY <1>1, <2>3, <3>1 DEF InService
    <3> QED
      BY <1>2, <2>3, <3>1, <3>2, InServiceFinite, FS_RemoveElement
  <2> QED
    BY <2>1, <2>2, <2>3 DEF Orderly, CountOrderly
<1> QED
  BY <1>3, <1>4 DEF InflightCounts, InService

-----------------------------------------------------------------------------
(* What a thread's own call leaves of the other threads.                   *)
Others(t) ==
  \A u \in Threads \ {t} :
    /\ pc'[u] = pc[u] \/ (pc[u] = "waiting" /\ pc'[u] = "resume")
    /\ target'[u] = target[u] /\ op'[u] = op[u]

(* A thread that goes on leaves the others alone.                          *)
LEMMA GoOthers ==
  ASSUME PcTypes, LocalTypes, NEW t \in Threads, NEW l,
         Go(t, l) \/ (GoNotify(t, l) /\ l # "waiting"),
         UNCHANGED <<target, op>>
  PROVE  Others(t) /\ pc'[t] = l
BY GoMoves, NotifyMoves DEF Moves, Others

(* So does one that returns.                                               *)
LEMMA ReturnOthers ==
  ASSUME PcTypes, LocalTypes, NEW t \in Threads, Return(t) \/ ReturnNotify(t)
  PROVE  Others(t) /\ pc'[t] \in {"idle", "done"}
<1>1. \A u \in Threads \ {t} : target'[u] = target[u] /\ op'[u] = op[u]
  BY DEF Return, ReturnNotify, Forget, LocalTypes
<1> QED
  BY <1>1, ReturnMoves DEF Moves, Others

(* Which locks a request holds is a matter of its program counter.         *)
LEMMA RequestHolds ==
  ASSUME NEW r \in Requests, pc'[r] \in RequestPC
  PROVE  /\ HoldsCondition(r)' => pc'[r] \in Acquiring
         /\ HoldsLease(r)' => pc'[r] \in Activating
         /\ OpTargetOrderly(r)
<1>1. RequestPC \cap (SleepingSteps \cup OpSteps \cup {"opLease", "opBegin"}) = {}
  BY DEF RequestPC, Acquiring, Activating, StartupSteps, Serving, SleepingSteps, OpSteps
<1> QED
  BY <1>1 DEF HoldsCondition, HoldsLease, OpTargetOrderly

(* A request that neither holds the condition nor is being served.         *)
Outside == {"idle", "done", "enter", "waiting", "resume", "released"}

(* Outside is disjoint from the places that hold something.                *)
LEMMA OutsideOutside ==
  Outside \cap (Acquiring \cup Activating \cup Serving \cup {"admit"}) = {}
    /\ Outside \subseteq RequestPC
BY DEF Outside, Acquiring, Activating, StartupSteps, Serving, RequestPC

(* A request that stays outside is orderly.                                *)
LEMMA OutsideOrderly ==
  ASSUME NEW r \in Requests, Others(r), pc[r] \in Outside, pc'[r] \in Outside,
         UNCHANGED <<condition, lease, quiescing, inflight>>,
         pending' \in {pending, None} \/ condition = None
  PROVE  Orderly(r)
BY OutsideOutside, RequestHolds
   DEF Others, Orderly, LocksOrderly, GatesOrderly, CountOrderly

(* A request that keeps the condition.                                     *)
LEMMA InsideOrderly ==
  ASSUME LocksHeld, NEW r \in Requests, Others(r),
         pc[r] \in Acquiring, pc'[r] \in Acquiring,
         UNCHANGED <<condition, quiescing, inflight, target>>,
         pending' \in {pending, None},
         pc'[r] \in Activating => lease' = r,
         lease' = lease \/ {lease, lease'} \subseteq {None, r}
  PROVE  Orderly(r)
<1>1. condition = r /\ condition # None
  BY ManagerAssumption DEF LocksHeld, HoldsCondition
<1>2. Acquiring \subseteq RequestPC /\ Acquiring \cap Serving = {}
  BY DEF RequestPC, Acquiring, Activating, StartupSteps, Serving
<1>3. LocksOrderly(r) /\ OpTargetOrderly(r)
  BY <1>1, <1>2, RequestHolds DEF LocksOrderly
<1>4. GatesOrderly(r) /\ CountOrderly(r)
  BY <1>2 DEF GatesOrderly, CountOrderly
<1> QED
  BY <1>3, <1>4 DEF Others, Orderly

(* A request that fails, and leaves the lease and the condition.           *)
LEMMA ExitOrderly ==
  ASSUME LocksHeld, NEW r \in Requests, Others(r),
         pc[r] \in Activating, pc'[r] \in {"idle", "done"},
         condition' = None, lease' = None, UNCHANGED <<quiescing, inflight>>,
         pending' \in {pending, None}
  PROVE  Orderly(r)
<1>1. condition = r /\ lease = r
  BY DEF LocksHeld, HoldsCondition, HoldsLease, Acquiring
<1>2. pc[r] \notin Serving /\ pc'[r] \notin Serving \cup Acquiring \cup Activating
  BY DEF Acquiring, Activating, StartupSteps, Serving
<1>3. LocksOrderly(r) /\ OpTargetOrderly(r)
  <2>1. pc'[r] \in RequestPC
    BY DEF RequestPC
  <2> QED
    BY <1>1, <1>2, <2>1, RequestHolds DEF LocksOrderly
<1>4. GatesOrderly(r) /\ CountOrderly(r)
  BY <1>2 DEF GatesOrderly, CountOrderly
<1> QED
  BY <1>3, <1>4 DEF Others, Orderly

-----------------------------------------------------------------------------
(* The request up to the lease, and after its admission.                   *)
LEMMA EnterOrderly ==
  ASSUME IInv, NEW r \in Requests,
         \/ Arrive(r) \/ DenyEntry(r) \/ DeferToDrain(r) \/ DeferToInflight(r)
         \/ GiveUpInDrain(r) \/ GiveUpInCount(r) \/ DenySwitch(r) \/ NotifyRelease(r)
         \/ DeadlinePasses(r, {"waiting", "resume"})
  PROVE  Orderly(r)
<1> USE DEF IInv, TypeOK
<1>1. CASE Arrive(r)
  <2>1. Others(r) /\ pc'[r] = "enter"
    BY <1>1, GoMoves DEF Arrive, Others, Moves, LocalTypes
  <2> QED
    BY <1>1, <2>1, OutsideOrderly DEF Arrive, Outside, locks, gate
<1>2. CASE DenyEntry(r) \/ GiveUpInCount(r) \/ DenySwitch(r) \/ NotifyRelease(r)
  <2>1. Others(r) /\ pc'[r] \in Outside
    BY <1>2, ReturnOthers
       DEF DenyEntry, GiveUpInCount, DenySwitch, NotifyRelease, Outside
  <2>2. pc[r] \in Outside
    BY <1>2 DEF DenyEntry, GiveUpInCount, DenySwitch, NotifyRelease, SwitchIsSafe,
                InSwitchLoop, Outside
  <2>3. UNCHANGED <<locks, gate>>
    BY <1>2 DEF DenyEntry, GiveUpInCount, DenySwitch, NotifyRelease
  <2> QED
    BY <2>1, <2>2, <2>3, OutsideOrderly DEF locks, gate
<1>3. CASE DeferToDrain(r) \/ DeferToInflight(r)
  <2>1. Others(r) /\ pc'[r] = "waiting"
    BY <1>3, GoOthers DEF DeferToDrain, DeferToInflight, locals
  <2> QED
    BY <1>3, <2>1, OutsideOrderly
       DEF DeferToDrain, DeferToInflight, InSwitchLoop, Outside, locks, gate
<1>4. CASE GiveUpInDrain(r)
  <2>1. Return(r) \/ ReturnNotify(r)
    BY <1>4 DEF GiveUpInDrain, DropPending
  <2>2. Others(r) /\ pc'[r] \in Outside
    BY <2>1, ReturnOthers DEF Outside
  <2>3. pc[r] \in Outside /\ condition = None
    BY <1>4 DEF GiveUpInDrain, InSwitchLoop, Outside
  <2> QED
    BY <1>4, <2>2, <2>3, OutsideOrderly DEF GiveUpInDrain, locks
<1>5. CASE DeadlinePasses(r, {"waiting", "resume"})
  <2>1. Others(r) /\ pc'[r] \in Outside
    BY <1>5, GoOthers DEF DeadlinePasses, Outside
  <2> QED
    BY <1>5, <2>1, OutsideOrderly DEF DeadlinePasses, Outside, locks, gate
<1> QED
  BY <1>1, <1>2, <1>3, <1>4, <1>5

(* Taking the condition past both gates is orderly.                        *)
LEMMA PassSwitchOrderly ==
  ASSUME IInv, NEW r \in Requests, PassSwitch(r)
  PROVE  Orderly(r)
<1> USE DEF IInv, TypeOK
<1>1. Others(r) /\ pc'[r] = "lease"
  BY GoOthers DEF PassSwitch, locals
<1>2. pc[r] \notin Serving /\ condition = None /\ ~quiescing /\ pending \in {None, target[r]}
  BY DEF PassSwitch, SwitchIsSafe, InSwitchLoop, MustDefer, Serving
<1>3. "lease" \in Acquiring /\ "lease" \in RequestPC /\ "lease" \notin Serving \cup Activating
  BY DEF RequestPC, Acquiring, Activating, StartupSteps, Serving
<1>4. LocksOrderly(r) /\ OpTargetOrderly(r)
  BY <1>1, <1>2, <1>3, RequestHolds DEF LocksOrderly, PassSwitch
<1>5. GatesOrderly(r) /\ CountOrderly(r)
  BY <1>1, <1>2, <1>3 DEF GatesOrderly, CountOrderly, PassSwitch, gate, locals
<1> QED
  BY <1>1, <1>4, <1>5 DEF Others, Orderly

(* Admission, forwarding and release are orderly.                          *)
LEMMA ServeOrderly ==
  ASSUME IInv, NEW r \in Requests,
         Admit(r) \/ UpstreamLost(r) \/ MarkOwnerUnavailable(r) \/ EndResponse(r)
  PROVE  Orderly(r)
<1> USE DEF IInv, TypeOK
<1>0. /\ Serving \cup Outside \cup {"admit"} \subseteq RequestPC
      /\ (Serving \cup Outside) \cap (Acquiring \cup Activating \cup {"admit"}) = {}
      /\ Serving \cap Outside = {} /\ "admit" \in Acquiring
  BY DEF RequestPC, Acquiring, Activating, StartupSteps, Serving, Outside
<1>1. CASE Admit(r)
  <2>1. Others(r) /\ pc'[r] \in {"leased", "idle", "done"}
    BY <1>1, GoOthers, ReturnOthers DEF Admit, locals
  <2>2. pc'[r] \in Serving \cup Outside
    BY <2>1 DEF Serving, Outside
  <2>3. condition = r
    BY <1>0, <1>1 DEF Admit, LocksHeld, HoldsCondition
  <2>4. LocksOrderly(r) /\ OpTargetOrderly(r)
    BY <1>0, <1>1, <2>2, <2>3, RequestHolds DEF LocksOrderly, Admit
  <2>5. CountOrderly(r)
    <3>1. CASE Go(r, "leased") /\ inflight' = inflight + 1
      BY <1>1, <3>1, GoMoves DEF CountOrderly, Admit, Moves, Serving
    <3>2. CASE Return(r) /\ UNCHANGED inflight
      <4>1. pc'[r] \in Outside
        BY <3>2, ReturnOthers DEF Outside
      <4> QED
        BY <1>0, <1>1, <3>2, <4>1 DEF CountOrderly, Admit
    <3> QED
      BY <1>1, <3>1, <3>2 DEF Admit
  <2>6. GatesOrderly(r)
    BY <1>0, <1>1, <2>2 DEF GatesOrderly, Admit
  <2> QED
    BY <2>1, <2>4, <2>5, <2>6 DEF Others, Orderly
<1>2. CASE UpstreamLost(r) \/ MarkOwnerUnavailable(r)
  <2>1. Others(r) /\ pc[r] \in Serving /\ pc'[r] \in Serving
    BY <1>2, GoOthers DEF UpstreamLost, MarkOwnerUnavailable, locals, Serving
  <2>2. UNCHANGED <<locks, gate>>
    BY <1>2 DEF UpstreamLost, MarkOwnerUnavailable
  <2>3. LocksOrderly(r) /\ OpTargetOrderly(r)
    BY <1>0, <2>1, <2>2, RequestHolds DEF LocksOrderly, locks
  <2>4. GatesOrderly(r) /\ CountOrderly(r)
    BY <1>0, <2>1, <2>2 DEF GatesOrderly, CountOrderly, gate
  <2> QED
    BY <2>1, <2>3, <2>4 DEF Others, Orderly
<1>3. CASE EndResponse(r)
  <2>1. Others(r) /\ pc[r] \in Serving /\ pc'[r] \in Outside
    BY <1>3, GoOthers DEF EndResponse, locals, Serving, Outside
  <2>2. LocksOrderly(r) /\ OpTargetOrderly(r)
    BY <1>0, <1>3, <2>1, RequestHolds DEF LocksOrderly, EndResponse, locks
  <2>3. GatesOrderly(r) /\ CountOrderly(r)
    BY <1>0, <1>3, <2>1 DEF GatesOrderly, CountOrderly, EndResponse
  <2> QED
    BY <2>1, <2>2, <2>3 DEF Others, Orderly
<1> QED
  BY <1>1, <1>2, <1>3

-----------------------------------------------------------------------------
(* The activation.                                                         *)
LEMMA ActivatingInside ==
  StartupSteps \subseteq Activating /\ Activating \subseteq Acquiring
BY DEF Activating, Acquiring

(* A step of the activation that only moves on.                            *)
LEMMA AdvanceOrderly ==
  ASSUME IInv, NEW r \in Requests, pc[r] \in Activating,
         NEW l \in Activating, Go(r, l) \/ GoNotify(r, l) \/ (UNCHANGED pc /\ l = pc[r]),
         UNCHANGED <<locks, gate, target, op>>
  PROVE  Orderly(r)
<1> USE DEF IInv, TypeOK
<1>1. l # "waiting"
  BY WaitersHoldNothing
<1>2. Others(r) /\ pc'[r] = l
  BY <1>1, GoOthers DEF Others
<1>3. lease = r
  BY DEF LocksHeld, HoldsLease
<1> QED
  BY <1>2, <1>3, ActivatingInside, InsideOrderly DEF locks, gate

(* Every failure of the activation is orderly.                             *)
LEMMA FailOrderly ==
  ASSUME IInv, NEW r \in Requests, pc[r] \in Activating,
         \/ FailStartup(r) \/ LeaveDemand(r) \/ LeaveAsleep(r) \/ UndoEscapes(r)
         \/ RevalidationFails(r) \/ RevalidationEscapes(r)
  PROVE  Orderly(r)
<1> USE DEF IInv, TypeOK
<1>1. CASE \/ LeaveDemand(r) \/ LeaveAsleep(r) \/ UndoEscapes(r)
           \/ RevalidationFails(r) \/ RevalidationEscapes(r)
  <2>1. /\ Return(r) \/ ReturnNotify(r)
        /\ condition' = None /\ LeaveLease(r)
        /\ UNCHANGED <<quiescing, inflight>>
    BY <1>1 DEF LeaveDemand, LeaveAsleep, UndoEscapes, RevalidationFails,
                RevalidationEscapes, LeaveRevalidation, ExitStartup
  <2> QED
    BY <2>1, ReturnOthers, ExitOrderly DEF LeaveLease
<1>2. CASE FailStartup(r) /\ active = target[r]
  <2>1. "undoCheck" \in Activating
    BY DEF Activating, StartupSteps
  <2> QED
    BY <1>2, <2>1, AdvanceOrderly DEF FailStartup, locals
<1> QED
  BY <1>1, <1>2 DEF FailStartup

(* A request that publishes its readiness leaves the lease alone.          *)
LEMMA ReadyOrderly ==
  ASSUME IInv, NEW r \in Requests, pc[r] \in Activating,
         Go(r, "admit") \/ GoNotify(r, "admit"), LeaveLease(r),
         UNCHANGED <<condition, quiescing, inflight, locals>>
  PROVE  Orderly(r)
<1> USE DEF IInv, TypeOK
<1>1. Others(r) /\ pc'[r] = "admit"
  BY GoOthers DEF locals
<1>2. lease = r
  BY DEF LocksHeld, HoldsLease
<1>3. "admit" \in Acquiring \ Activating
  BY DEF Acquiring, Activating, StartupSteps
<1> QED
  BY <1>1, <1>2, <1>3, ActivatingInside, InsideOrderly DEF LeaveLease, locals

(* Taking the lease under the condition is orderly.                        *)
LEMMA TakeLeaseOrderly ==
  ASSUME IInv, NEW r \in Requests, TakeLease(r)
  PROVE  Orderly(r)
<1> USE DEF IInv, TypeOK
<1>1. Others(r) /\ pc'[r] \in {"ownerCheck", "peerCheck", "oldSleep"}
  BY GoOthers DEF TakeLease, StartActivation
<1>2. pc[r] \in Acquiring /\ pc'[r] \in Acquiring
  BY <1>1 DEF TakeLease, Acquiring, Activating, StartupSteps
<1> QED
  BY <1>1, <1>2, InsideOrderly DEF TakeLease, gate

(* The revalidation of the owner is orderly.                               *)
LEMMA OwnerOrderly ==
  ASSUME IInv, NEW r \in Requests, OwnerCheck(r) \/ OwnerPeers(r) \/ OwnerListed(r)
  PROVE  Orderly(r)
<1>0. {"ownerCheck", "ownerPeers", "peerCheck", "oldSleep"} \subseteq Activating
  BY DEF Activating, StartupSteps
<1>1. pc[r] \in Activating
  BY <1>0 DEF OwnerCheck, OwnerPeers, OwnerListed
<1>2. CASE RevalidationFails(r) \/ RevalidationEscapes(r)
  BY <1>1, <1>2, FailOrderly
<1> DEFINE Goes == ~RevalidationFails(r) /\ ~RevalidationEscapes(r)
<1>3. CASE OwnerCheck(r) /\ Goes
  <2>1. PICK l \in {"peerCheck", "oldSleep", "ownerPeers"} : Go(r, l)
    BY <1>3 DEF OwnerCheck, StartActivation
  <2>2. UNCHANGED <<locks, gate, target, op>>
    BY <1>3 DEF OwnerCheck
  <2> QED
    BY <1>0, <1>1, <2>1, <2>2, AdvanceOrderly
<1>4. CASE OwnerPeers(r) /\ Goes
  BY <1>0, <1>1, <1>4, AdvanceOrderly DEF OwnerPeers
<1>5. CASE OwnerListed(r) /\ Goes
  BY <1>1, <1>5, ReadyOrderly DEF OwnerListed
<1> QED
  BY <1>2, <1>3, <1>4, <1>5

(* The start of the target, and its undoing, are orderly.                  *)
LEMMA StartupOrderly ==
  ASSUME IInv, NEW r \in Requests,
         \/ OldSleep(r) \/ OldWait(r) \/ PeerCheck(r) \/ PeerSleep(r) \/ PeerWait(r)
         \/ TargetCheck(r) \/ WakePhase(r) \/ LeaveSleep(r) \/ Readiness(r)
         \/ UndoCheck(r) \/ UndoSleep(r) \/ UndoWait(r)
  PROVE  Orderly(r)
<1>0. WakePhases \subseteq StartupSteps
  BY DEF WakePhases, StartupSteps
<1>1. pc[r] \in StartupSteps
  BY <1>0 DEF OldSleep, OldWait, PeerCheck, PeerSleep, PeerWait, TargetCheck, WakePhase,
       LeaveSleep, Readiness, UndoCheck, UndoSleep, UndoWait, StartupSteps
<1>2. CASE FailStartup(r) \/ LeaveDemand(r) \/ LeaveAsleep(r) \/ UndoEscapes(r)
  BY <1>1, <1>2, ActivatingInside, FailOrderly
<1>3. ASSUME NEW l \in StartupSteps, Go(r, l) \/ (UNCHANGED pc /\ l = pc[r]),
             UNCHANGED <<locks, gate, target, op>>
      PROVE  Orderly(r)
  BY <1>1, <1>3, ActivatingInside, AdvanceOrderly
<1>4. CASE /\ ~(FailStartup(r) \/ LeaveDemand(r) \/ LeaveAsleep(r) \/ UndoEscapes(r))
           /\ ~Readiness(r)
  <2>1. /\ UNCHANGED <<locks, gate, target, op>>
        /\ (\E l \in StartupSteps : Go(r, l)) \/ UNCHANGED pc
    <3>1. CASE OldSleep(r) \/ OldWait(r)
      BY <1>4, <3>1 DEF OldSleep, OldWait, StartupSteps, locals
    <3>2. CASE PeerCheck(r) \/ PeerSleep(r) \/ PeerWait(r)
      BY <1>4, <3>2 DEF PeerCheck, PeerSleep, PeerWait, StartupSteps, locals
    <3>3. CASE TargetCheck(r) \/ LeaveSleep(r)
      BY <1>4, <3>3 DEF TargetCheck, RememberTarget, LeaveSleep, StartupSteps, locals
    <3>4. CASE WakePhase(r)
      <4>1. pc[r] \in WakePhases => NextPhase(pc[r]) \in StartupSteps
        BY DEF WakePhases, NextPhase, StartupSteps
      <4> QED
        BY <1>4, <3>4, <4>1 DEF WakePhase, locals
    <3>5. CASE UndoCheck(r) \/ UndoSleep(r) \/ UndoWait(r)
      BY <1>4, <3>5 DEF UndoCheck, UndoSleep, UndoWait, StartupSteps, locals
    <3> QED
      BY <1>4, <3>1, <3>2, <3>3, <3>4, <3>5
  <2> QED
    BY <1>1, <1>3, <2>1
<1>5. CASE Readiness(r) /\ ~FailStartup(r)
  BY <1>1, <1>5, ActivatingInside, ReadyOrderly DEF Readiness
<1> QED
  BY <1>2, <1>4, <1>5

-----------------------------------------------------------------------------
(* A sleeper.                                                              *)
LEMMA SleeperHolds ==
  ASSUME PcTypes, NEW s \in Sleepers
  PROVE  /\ ~HoldsCondition(s) /\ pc[s] \notin Serving \cup Acquiring \cup {"admit"}
         /\ HoldsLease(s) => pc[s] \in SleepingSteps
         /\ pc[s] \notin {"opLease", "opBegin"}
<1>1. SleeperPC \cap (Acquiring \cup Activating \cup Serving \cup OpSteps
                       \cup {"admit", "opLease", "opBegin"}) = {}
  BY DEF SleeperPC, SleepSteps, SleepingSteps, Acquiring, Activating, StartupSteps, Serving,
         OpSteps
<1> QED
  BY <1>1 DEF PcTypes, HoldsCondition, HoldsLease

(* What makes a sleeper's step orderly: it touches neither the condition nor*)
(* the count, and raises its flag only with the condition free.            *)
LEMMA SleeperOrderly ==
  ASSUME PcTypes, PcTypes', NEW s \in Sleepers, Others(s),
         UNCHANGED <<condition, pending, inflight>>,
         pc'[s] \in SleepingSteps => lease' = s,
         lease' = lease \/ {lease, lease'} \subseteq {None, s},
         quiescing' => quiescing \/ condition = None
  PROVE  Orderly(s)
<1>1. /\ ~HoldsCondition(s)' /\ pc'[s] \notin Serving \cup Acquiring
      /\ HoldsLease(s)' => pc'[s] \in SleepingSteps
      /\ pc'[s] \notin {"opLease", "opBegin"}
  <2>1. pc'[s] \in SleeperPC
    BY DEF PcTypes
  <2>2. SleeperPC \cap (Acquiring \cup Activating \cup Serving \cup OpSteps
                         \cup {"admit", "opLease", "opBegin"}) = {}
    BY DEF SleeperPC, SleepSteps, SleepingSteps, Acquiring, Activating, StartupSteps,
           Serving, OpSteps
  <2> QED
    BY <2>1, <2>2 DEF HoldsCondition, HoldsLease
<1>2. pc[s] \notin Serving
  BY SleeperHolds
<1>3. LocksOrderly(s) /\ GatesOrderly(s) /\ CountOrderly(s) /\ OpTargetOrderly(s)
  BY <1>1, <1>2 DEF LocksOrderly, GatesOrderly, CountOrderly, OpTargetOrderly
<1> QED
  BY <1>3 DEF Others, Orderly

(* Every step of a sleeper is orderly.                                     *)
LEMMA SleeperStepOrderly ==
  ASSUME IInv, TypeOK', NEW s \in Sleepers, Sleeper(s)
  PROVE  Orderly(s)
<1> USE DEF IInv, TypeOK
<1>0. /\ {"sleepLock", "enter", "announce", "sleepLease", "waiting", "resume", "commit",
          "abort", "idle", "done"} \cap SleepingSteps = {}
      /\ {"validate", "sleepCheck", "sleepPost", "sleepPoll"} = SleepingSteps
  BY DEF SleepingSteps
<1>1. CASE SleepCall(s) \/ Announce(s) \/ WaitForZero(s)
  <2>1. Others(s) /\ pc'[s] \in {"sleepLock", "sleepLease", "waiting"}
    BY <1>1, GoOthers DEF SleepCall, Announce, WaitForZero, locals
  <2> QED
    BY <1>0, <1>1, <2>1, SleeperOrderly
       DEF SleepCall, Announce, WaitForZero, InDrainLoop, locks, gate
<1>2. CASE TakeSleepLock(s)
  <2>1. Others(s) /\ pc'[s] = "enter"
    BY <1>2, GoOthers DEF TakeSleepLock, locals
  <2> QED
    BY <1>0, <1>2, <2>1, SleeperOrderly DEF TakeSleepLock, gate
<1>3. CASE SleepCallExpires(s) \/ GiveUpZero(s)
  <2>1. Others(s) /\ pc'[s] \in {"idle", "done"}
    BY <1>3, ReturnOthers DEF SleepCallExpires, GiveUpZero
  <2> QED
    BY <1>0, <1>3, <2>1, SleeperOrderly DEF SleepCallExpires, GiveUpZero, gate
<1>4. CASE Drained(s)
  <2>1. Others(s) /\ pc'[s] \in {"sleepLease", "announce"}
    BY <1>4, GoMoves DEF Drained, Others, Moves, LocalTypes
  <2> QED
    BY <1>0, <1>4, <2>1, SleeperOrderly DEF Drained, InDrainLoop, locks
<1>5. CASE DeadlinePasses(s, {"sleepLock", "enter", "waiting", "resume"})
  <2>1. Others(s) /\ pc'[s] \in {"sleepLock", "enter", "resume"}
    BY <1>5, GoOthers DEF DeadlinePasses
  <2> QED
    BY <1>0, <1>5, <2>1, SleeperOrderly DEF DeadlinePasses, locks, gate
<1>6. CASE TakeSleepLease(s)
  <2>1. Others(s) /\ pc'[s] \in {"validate", "sleepCheck"}
    BY <1>6, GoOthers DEF TakeSleepLease
  <2> QED
    BY <1>0, <1>6, <2>1, SleeperOrderly DEF TakeSleepLease, gate
<1>7. ASSUME NEW l \in {"commit", "abort"}, LeaveFor(s, l)
      PROVE  Orderly(s)
  <2>1. Others(s) /\ pc'[s] = l
    BY <1>7, GoOthers DEF LeaveFor, locals
  <2> QED
    BY <1>0, <1>7, <2>1, SleeperOrderly DEF LeaveFor, gate
<1>8. ASSUME pc[s] \in SleepingSteps, NEW l \in SleepingSteps,
             Go(s, l) \/ (UNCHANGED pc /\ l = pc[s]), UNCHANGED <<locks, gate, target, op>>
      PROVE  Orderly(s)
  <2>1. Others(s) /\ pc'[s] = l
    BY <1>8, GoOthers DEF Others
  <2>2. lease = s
    BY <1>8 DEF LocksHeld, HoldsLease
  <2> QED
    BY <1>8, <2>1, <2>2, SleeperOrderly DEF locks, gate
<1>9. CASE \/ ContainmentExpires(s) \/ ValidateAsleep(s) \/ AllAsleep(s)
           \/ SleepCheck(s) \/ SleepPost(s) \/ SleepPoll(s)
  <2>1. CASE \E l \in {"commit", "abort"} : LeaveFor(s, l)
    BY <1>7, <2>1
  <2>2. CASE ~ \E l \in {"commit", "abort"} : LeaveFor(s, l)
    <3>1. CASE ValidateAsleep(s)
      BY <1>0, <1>8, <2>2, <3>1 DEF ValidateAsleep
    <3>2. CASE SleepCheck(s) \/ SleepPost(s)
      BY <1>0, <1>8, <2>2, <3>2 DEF SleepCheck, SleepPost, locals
    <3> QED
      BY <1>9, <2>2, <3>1, <3>2 DEF ContainmentExpires, AllAsleep, SleepPoll
  <2> QED
    BY <2>1, <2>2
<1>10. CASE CommitSleep(s) \/ AbortSleep(s)
  <2>1. EndSleep(s)
    BY <1>10 DEF CommitSleep, AbortSleep
  <2>2. Others(s) /\ pc'[s] \in {"idle", "done"}
    BY <2>1, ReturnOthers DEF EndSleep
  <2> QED
    BY <1>0, <2>1, <2>2, SleeperOrderly DEF EndSleep
<1>11. CASE AnnounceFails(s)
  <2>1. Others(s) /\ pc'[s] = "abort"
    BY <1>11, GoOthers DEF AnnounceFails, locals
  <2> QED
    BY <1>0, <1>11, <2>1, SleeperOrderly DEF AnnounceFails, locks, gate
<1>12. CASE EndUnpublished(s)
  <2>1. Others(s) /\ pc'[s] \in {"idle", "done"}
    BY <1>12, ReturnOthers DEF EndUnpublished
  <2> QED
    BY <1>0, <1>12, <2>1, SleeperOrderly DEF EndUnpublished
<1> QED
  BY <1>1, <1>2, <1>3, <1>4, <1>5, <1>6, <1>9, <1>10, <1>11, <1>12 DEF Sleeper, SleeperStep

-----------------------------------------------------------------------------
(* A startup operation.                                                    *)
LEMMA ControllerOrderly ==
  ASSUME PcTypes, PcTypes', NEW c \in Controllers, Others(c),
         UNCHANGED gate, LocksOrderly(c), OpTargetOrderly(c)
  PROVE  Orderly(c)
<1>1. ControllerPC \cap (Acquiring \cup Serving) = {}
  BY DEF ControllerPC, OpSteps, Acquiring, Activating, StartupSteps, Serving
<1>2. GatesOrderly(c) /\ CountOrderly(c)
  BY <1>1 DEF PcTypes, GatesOrderly, CountOrderly, gate
<1> QED
  BY <1>2 DEF Others, Orderly

(* Which locks a controller holds.                                         *)
LEMMA ControllerHolds ==
  ASSUME NEW c \in Controllers, pc'[c] \in ControllerPC
  PROVE  /\ HoldsCondition(c)' <=> pc'[c] \in OpSteps \ {"opBegin"} /\ op'[c] = "reconcile"
         /\ HoldsLease(c)' <=> pc'[c] \in OpSteps
<1>1. ControllerPC \cap (Acquiring \cup Activating \cup SleepingSteps) = {}
  BY DEF ControllerPC, OpSteps, Acquiring, Activating, StartupSteps, SleepingSteps
<1> QED
  BY <1>1 DEF HoldsCondition, HoldsLease

(* The steps of an operation under way.                                    *)
LEMMA OperatesOrderly ==
  ASSUME IInv, TypeOK', NEW c \in Controllers, Others(c),
         pc[c] \in OpSteps \ {"opBegin"}, pc'[c] \in OpSteps \ {"opBegin"},
         UNCHANGED <<locks, gate, op>>
  PROVE  Orderly(c)
<1> USE DEF IInv, TypeOK
<1>1. lease = c /\ (op[c] = "reconcile" => condition = c)
  BY DEF LocksHeld, HoldsLease, HoldsCondition
<1>2. pc'[c] \in ControllerPC /\ "opLease" \notin OpSteps
  BY DEF ControllerPC, OpSteps
<1>3. LocksOrderly(c) /\ OpTargetOrderly(c)
  BY <1>1, <1>2, ControllerHolds DEF LocksOrderly, OpTargetOrderly, locks
<1> QED
  BY <1>3, ControllerOrderly

(* Every step of a startup operation is orderly.                           *)
LEMMA ControllerStepOrderly ==
  ASSUME IInv, TypeOK', NEW c \in Controllers, Controller(c)
  PROVE  Orderly(c)
<1> USE DEF IInv, TypeOK
<1>0. /\ OpSteps \ {"opBegin"} = {"opCheck", "opSleep", "opPoll", "opAdopt", "opFinally"}
      /\ "opBegin" \in OpSteps /\ OpSteps \subseteq ControllerPC
      /\ {"idle", "done", "opLease"} \subseteq ControllerPC \ OpSteps
  BY DEF OpSteps, ControllerPC
<1>1. CASE ControlCall(c)
  <2>1. Others(c) /\ pc'[c] = "opLease"
    BY <1>1, GoMoves DEF ControlCall, Others, Moves, LocalTypes
  <2>2. OpTargetOrderly(c)
    BY <1>1 DEF ControlCall, OpTargetOrderly, LocalTypes
  <2>3. LocksOrderly(c)
    BY <1>0, <1>1, <2>1, ControllerHolds DEF LocksOrderly, ControlCall, locks
  <2> QED
    BY <1>1, <2>1, <2>2, <2>3, ControllerOrderly DEF ControlCall
<1>2. CASE TakeOpLease(c)
  <2>1. Others(c) /\ pc'[c] = "opBegin"
    BY <1>2, GoOthers DEF TakeOpLease, locals
  <2>2. OpTargetOrderly(c)
    BY <1>2 DEF TakeOpLease, OpTargetOrderly, locals
  <2>3. LocksOrderly(c)
    BY <1>0, <1>2, <2>1, ControllerHolds DEF LocksOrderly, TakeOpLease
  <2> QED
    BY <1>2, <2>1, <2>2, <2>3, ControllerOrderly DEF TakeOpLease
<1>3. CASE OpBegin(c)
  <2>1. lease = c /\ condition = None
    BY <1>0, <1>3 DEF OpBegin, LocksHeld, HoldsLease
  <2>2. CASE OpRefused(c)
    <3>1. Others(c) /\ pc'[c] \in {"idle", "done"}
      BY <1>3, <2>2, ReturnOthers DEF OpBegin
    <3>2. OpTargetOrderly(c)
      BY <3>1 DEF OpTargetOrderly
    <3>3. LocksOrderly(c)
      BY <1>0, <1>3, <2>1, <2>2, <3>1, ControllerHolds DEF LocksOrderly, OpBegin
    <3> QED
      BY <1>3, <3>1, <3>2, <3>3, ControllerOrderly DEF OpBegin
  <2>3. CASE ~OpRefused(c)
    <3>1. Others(c) /\ pc'[c] = "opCheck"
      BY <1>3, <2>3, GoOthers DEF OpBegin
    <3>2. OpTargetOrderly(c)
      BY <3>1 DEF OpTargetOrderly
    <3>3. LocksOrderly(c)
      BY <1>0, <1>3, <2>1, <2>3, <3>1, ControllerHolds DEF LocksOrderly, OpBegin
    <3> QED
      BY <1>3, <3>1, <3>2, <3>3, ControllerOrderly DEF OpBegin
  <2> QED
    BY <2>2, <2>3
<1>4. CASE OpCheck(c)
  <2>1. /\ \/ \E l \in {"opPoll", "opSleep", "opFinally"} : Go(c, l)
           \/ UNCHANGED pc
        /\ op' = op
        /\ \A u \in Threads \ {c} : target'[u] = target[u]
    BY <1>4 DEF OpCheck, OpFails, locals, LocalTypes
  <2>2. Others(c) /\ pc'[c] \in OpSteps \ {"opBegin"}
    BY <1>0, <1>4, <2>1, GoMoves DEF OpCheck, Others, Moves
  <2> QED
    BY <1>0, <1>4, <2>1, <2>2, OperatesOrderly DEF OpCheck
<1>5. CASE OpSleep(c) \/ OpPoll(c) \/ OpListed(c)
  <2>1. /\ \E l \in {"opPoll", "opCheck", "opAdopt", "opFinally"} : Go(c, l)
        /\ UNCHANGED <<target, op>>
        /\ UNCHANGED <<locks, gate>>
        /\ pc[c] \in OpSteps \ {"opBegin"}
    BY <1>0, <1>5 DEF OpSleep, OpPoll, OpListed, OpFails, locals
  <2>2. Others(c) /\ pc'[c] \in OpSteps \ {"opBegin"}
    BY <1>0, <2>1, GoOthers
  <2> QED
    BY <2>1, <2>2, OperatesOrderly
<1>6. CASE CommitOpSleep(c) \/ CommitFinalize(c) \/ CommitAdopt(c)
  <2>1. Others(c) /\ pc'[c] = "opFinally"
    BY <1>6, GoOthers DEF CommitOpSleep, CommitFinalize, CommitAdopt, locals
  <2>2. /\ UNCHANGED <<locks, gate, op>>
        /\ pc[c] \in OpSteps \ {"opBegin"}
    BY <1>0, <1>6 DEF CommitOpSleep, CommitFinalize, CommitAdopt, locals
  <2> QED
    BY <1>0, <2>1, <2>2, OperatesOrderly
<1>7. CASE OpFinally(c) \/ Reconciled(c)
  <2>1. lease = c /\ condition \in {None, c}
    BY <1>0, <1>7 DEF OpFinally, Reconciled, LocksHeld, HoldsLease, HoldsCondition
  <2>2. EndOp(c)
    BY <1>7 DEF OpFinally, Reconciled
  <2>3. Others(c) /\ pc'[c] \in {"idle", "done"}
    BY <2>2, ReturnOthers DEF EndOp
  <2>4. OpTargetOrderly(c)
    BY <2>3 DEF OpTargetOrderly
  <2>5. LocksOrderly(c)
    BY <1>0, <2>1, <2>2, <2>3, ControllerHolds DEF LocksOrderly, EndOp
  <2> QED
    BY <2>2, <2>3, <2>4, <2>5, ControllerOrderly DEF EndOp
<1> QED
  BY <1>1, <1>2, <1>3, <1>4, <1>5, <1>6, <1>7 DEF Controller, ControllerStep

-----------------------------------------------------------------------------
(* The invariant is inductive.                                             *)
LEMMA RequestOrderly ==
  ASSUME IInv, NEW r \in Requests, Request(r)
  PROVE  Orderly(r)
BY EnterOrderly, PassSwitchOrderly, TakeLeaseOrderly, OwnerOrderly, StartupOrderly,
   ServeOrderly DEF Request, RequestStep

(* A request's steps keep the types; release needs the exact count.        *)
LEMMA RequestTypes ==
  ASSUME IInv, NEW r \in Requests, Request(r)
  PROVE  TypeOK'
<1>1. CASE EndResponse(r)
  <2> USE DEF TypeOK, ProxyTypes
  <2>1. "released" \in RequestPC
    BY DEF RequestPC
  <2>2. PcTypes'
    BY <1>1, <2>1, RequestGoTypes DEF EndResponse, IInv
  <2>3. inflight > 0
    <3>1. Orderly(r) /\ pc[r] \in Serving
      BY <1>1, ServeOrderly DEF EndResponse, Serving
    <3> QED
      BY <2>2, <3>1, InflightCountsStep DEF IInv
  <2>4. GateTypes'
    BY <1>1, <2>3 DEF EndResponse, GateTypes, IInv
  <2> QED
    BY <1>1, <2>2, <2>4, SameTypes DEF EndResponse, IInv
<1>2. CASE ~EndResponse(r)
  BY <1>2, EnterTypes, DeadlineTypes, OwnerStepTypes, StartupStepTypes, UndoStepTypes,
     ServeTypes DEF Request, RequestStep, IInv
<1> QED
  BY <1>1, <1>2

(* A sleeper's steps keep the types.                                       *)
LEMMA SleeperTypes ==
  ASSUME TypeOK, NEW s \in Sleepers, Sleeper(s)
  PROVE  TypeOK'
BY DrainTypes, SleepStepTypes, DeadlineTypes DEF Sleeper, SleeperStep

(* A startup operation's steps keep the types.                             *)
LEMMA ControllerTypes ==
  ASSUME TypeOK, OpTargets, NEW c \in Controllers, Controller(c)
  PROVE  TypeOK'
<1>1. pc[c] = "opBegin" /\ op[c] = "sleep" => target[c] \in Models
  BY DEF OpTargets
<1> QED
  BY <1>1, OpBeginTypes, OpStepTypes, OpCommitTypes DEF Controller, ControllerStep

(* An orderly step that keeps the types keeps the invariant.               *)
LEMMA OrderlyKeepsIInv ==
  ASSUME IInv, TypeOK', NEW t \in Threads, Orderly(t)
  PROVE  IInv'
BY LocksHeldStep, GatesHoldStep, OpTargetsStep, InflightCountsStep DEF IInv, TypeOK

(* Every step keeps the invariant.                                         *)
LEMMA StepKeepsIInv ==
  ASSUME IInv, Next
  PROVE  IInv'
<1>1. CASE \E r \in Requests : Request(r)
  BY <1>1, RequestOrderly, RequestTypes, OrderlyKeepsIInv
<1>2. CASE \E s \in Sleepers : Sleeper(s)
  BY <1>2, SleeperStepOrderly, SleeperTypes, OrderlyKeepsIInv DEF IInv
<1>3. CASE \E c \in Controllers : Controller(c)
  BY <1>3, ControllerStepOrderly, ControllerTypes, OrderlyKeepsIInv DEF IInv
<1>4. CASE \E m \in Models : EngineSettles(m)
  <2>1. UNCHANGED <<locks, owner, gate, mode, pc, locals>>
    BY <1>4 DEF EngineSettles
  <2>2. TypeOK'
    <3>1. engine' \in [Models -> EngineStates]
      BY <1>4, EngineTypes DEF EngineSettles, IInv, TypeOK
    <3> QED
      BY <2>1, <3>1, SameTypes DEF IInv, TypeOK
  <2>3. LocksHeld' /\ GatesHold' /\ InflightCounts' /\ OpTargets'
    BY <2>1 DEF IInv, LocksHeld, HoldsCondition, HoldsLease, GatesHold, InflightCounts,
                OpTargets, locks, gate, locals
  <2> QED
    BY <2>2, <2>3 DEF IInv
<1>5. CASE Crash
  <2>1. TypeOK'
    BY <1>5, CrashTypes DEF IInv
  <2>2. \A t \in Threads : pc'[t] = "idle"
    BY <1>5 DEF Crash, NewProcess
  <2>3. "idle" \notin Acquiring \cup Activating \cup SleepingSteps \cup OpSteps \cup Serving
                        \cup {"opLease", "opBegin"}
    BY DEF Acquiring, Activating, StartupSteps, SleepingSteps, OpSteps, Serving
  <2>4. LocksHeld' /\ GatesHold' /\ OpTargets'
    BY <2>2, <2>3 DEF LocksHeld, HoldsCondition, HoldsLease, GatesHold, OpTargets
  <2>5. InflightCounts'
    <3>1. {r \in Requests : pc'[r] \in Serving} = {}
      BY <2>2, <2>3
    <3> QED
      BY <1>5, <3>1, FS_EmptySet DEF InflightCounts, Crash, NewProcess
  <2> QED
    BY <2>1, <2>4, <2>5 DEF IInv
<1> QED
  BY <1>1, <1>2, <1>3, <1>4, <1>5 DEF Next

(* It holds at the start.                                                  *)
LEMMA InitIInv == Init => IInv
<1> SUFFICES ASSUME Init PROVE IInv
  OBVIOUS
<1>1. \A t \in Threads : pc[t] = "idle"
  BY DEF Init
<1>2. "idle" \notin Acquiring \cup Activating \cup SleepingSteps \cup OpSteps \cup Serving
                      \cup {"opLease", "opBegin"}
  BY DEF Acquiring, Activating, StartupSteps, SleepingSteps, OpSteps, Serving
<1>3. LocksHeld /\ GatesHold /\ OpTargets
  BY <1>1, <1>2 DEF LocksHeld, HoldsCondition, HoldsLease, GatesHold, OpTargets
<1>4. InflightCounts
  <2>1. {r \in Requests : pc[r] \in Serving} = {}
    BY <1>1, <1>2
  <2> QED
    BY <2>1, FS_EmptySet DEF InflightCounts, Init
<1> QED
  BY <1>3, <1>4, InitTypes DEF IInv

(* Stuttering keeps the invariant.                                         *)
LEMMA StutterKeepsIInv ==
  ASSUME IInv, UNCHANGED vars
  PROVE  IInv'
<1>1. TypeOK'
  BY SameTypes DEF vars, IInv, TypeOK
<1>2. LocksHeld' /\ GatesHold' /\ InflightCounts' /\ OpTargets'
  BY DEF IInv, LocksHeld, HoldsCondition, HoldsLease, GatesHold, InflightCounts,
         OpTargets, vars, locks, gate, locals
<1> QED
  BY <1>1, <1>2 DEF IInv

(* In every reachable state of every instance, each thread that stands     *)
(* where the code holds the condition or the lease does hold it, nobody is *)
(* between the switch wait and its admission against a gate, and the count *)
(* is that of the requests being served.                                   *)
THEOREM Invariance == Spec => []IInv
BY InitIInv, StepKeepsIInv, StutterKeepsIInv, PTL DEF Spec

-----------------------------------------------------------------------------
(* Every variable of the proxy keeps its type; in particular the number of *)
(* requests in flight never falls below zero (release's decrement).        *)
THEOREM TypeCorrect == Spec => []TypeOK
<1>1. IInv => TypeOK
  BY DEF IInv
<1> QED
  BY <1>1, Invariance, PTL

(* The count a drain waits for is exactly the number of requests between   *)
(* admission and release, whatever errors and crashes come between.        *)
THEOREM CountIsExact == Spec => []InflightCounts
<1>1. IInv => InflightCounts
  BY DEF IInv
<1> QED
  BY <1>1, Invariance, PTL

(* Any thread about to sleep or wake an engine holds the startup lease, so *)
(* that engine transitions never overlap (SLP-LIFE-004).                   *)
THEOREM LeaseSerializesTransitions == Spec => []LeaseSerializes
<1>1. IInv => LeaseSerializes
  <2>1. EngineSteps \subseteq Activating \cup SleepingSteps \cup OpSteps
    BY DEF EngineSteps, OpSteps
  <2> QED
    BY <2>1 DEF IInv, LocksHeld, HoldsLease, LeaseSerializes
<1> QED
  BY <1>1, Invariance, PTL

(* Every step is a thread's orderly step, an engine's, or a crash.         *)
LEMMA NextIsOrderly ==
  ASSUME IInv, Next
  PROVE  \/ \E t \in Threads : Orderly(t)
         \/ UNCHANGED <<pc, gate>>
         \/ Crash
<1>1. IInv'
  BY StepKeepsIInv
<1> QED
  BY <1>1, RequestOrderly, SleeperStepOrderly, ControllerStepOrderly
     DEF Next, EngineSettles, IInv

(* No request is admitted while a POST /sleep quiesces: the count it waits *)
(* for can only fall until the sleep has ended (sleep_active_model).       *)
THEOREM QuiescenceHolds == Spec => QuiesceHolds
<1>1. ASSUME IInv, Next, quiescing, quiescing'
      PROVE  inflight' <= inflight
  <2>1. CASE \E t \in Threads : Orderly(t)
    <3>1. PICK t \in Threads : Orderly(t)
      BY <2>1
    <3>2. pc[t] # "admit"
      <4>1. "admit" \in Acquiring
        BY DEF Acquiring
      <4> QED
        BY <1>1, <4>1, ServingAreRequests DEF IInv, GatesHold, TypeOK
    <3> QED
      BY <1>1, <3>1, <3>2 DEF Orderly, CountOrderly, IInv, TypeOK, GateTypes
  <2>2. CASE UNCHANGED <<pc, gate>>
    BY <1>1, <2>2 DEF gate, IInv, TypeOK, GateTypes
  <2>3. CASE Crash
    BY <1>1, <2>3 DEF Crash, NewProcess
  <2> QED
    BY <1>1, <2>1, <2>2, <2>3, NextIsOrderly
<1>2. ASSUME IInv, UNCHANGED vars
      PROVE  quiescing /\ quiescing' => inflight' <= inflight
  BY <1>2 DEF vars, gate, IInv, TypeOK, GateTypes
<1>3. IInv /\ [Next]_vars => [quiescing /\ quiescing' => inflight' <= inflight]_vars
  BY <1>1, <1>2
<1> QED
  BY <1>3, Invariance, PTL DEF Spec, QuiesceHolds

(* No request for another model is admitted past a pending switch          *)
(* (_wait_for_switch_safety holds the condition up to the admission).      *)
THEOREM PendingSwitchBlocksOthers == Spec => PendingBlocksOthers
<1>1. IInv => \A r \in Requests :
                (pc[r] = "admit" /\ pc'[r] = "leased") => pending \in {None, target[r]}
  BY DEF IInv, GatesHold, Acquiring
<1> QED
  BY <1>1, Invariance, PTL DEF Spec, PendingBlocksOthers

=============================================================================
