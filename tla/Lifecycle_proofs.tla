-------------------------- MODULE Lifecycle_proofs --------------------------
(***************************************************************************)
(* What the cached ownership, the lifecycle state, the transition file and *)
(* the pending switch say, for every lineup and any number of threads.     *)
(*                                                                         *)
(* The first part sums up what one step of each kind of thread changes, as *)
(* a table: a row for each way the step may go, with what it reads and what*)
(* it leaves behind.  Every action is a row.  The invariants of the second *)
(* part, and those of Engines_proofs, are shown against the table.         *)
(***************************************************************************)
EXTENDS SleeperProxy_proofs

USE DEF Threads

Resting == {"idle", "done"}

(* Inference is let in: the listener is bound and the lineup finalized.    *)
Up == listening /\ finalized

OldSteps  == {"oldSleep", "oldWait"}
PeerSteps == {"peerCheck", "peerSleep", "peerWait"}
Woken     == {"reload", "kvCache", "mmCache", "leaveSleep", "readiness"}
UndoSteps == {"undoCheck", "undoSleep", "undoWait"}
OwnSteps  == {"weights"} \cup Woken \cup UndoSteps

(* Where a request waits for an engine to report that it sleeps.           *)
WaitSteps == {"oldWait", "peerWait", "undoWait"}

-----------------------------------------------------------------------------
(* The table.  A step of t leaves the stacks of the others alone, and no   *)
(* deadline passes where none may.                                         *)
Frame(t) ==
  /\ Others(t)
  /\ \A u \in Threads \ {t} : todo'[u] = todo[u] /\ probe'[u] = probe[u]
  /\ \A u \in Threads : expired'[u] => expired[u] \/ Timeouts

Steps(t, from, to) == pc[t] \in from /\ pc'[t] \in to

(* The engine answers that it is asleep.                                   *)
Asleep(m) == engine[m] \in {"asleep", "rising"}

(* The engine that the next POST /sleep of a request would be sent to.     *)
Victim(r) == IF pc[r] = "oldSleep" THEN active
             ELSE IF pc[r] = "peerSleep" THEN probe[r]
             ELSE target[r]

Sleeping(r) == pc[r] \in {"oldSleep", "peerSleep", "undoSleep"} /\ FallAsleep(Victim(r))

(* What a call that is seen to fail may have done to the engines.          *)
CallFails(r) ==
  /\ pc[r] \in WaitSteps => Faults
  /\ \/ UNCHANGED engine
     \/ Faults /\ Sleeping(r)
     \/ pc[r] = "weights" /\ WakeFails(target[r])

-----------------------------------------------------------------------------
(* The request: it arrives, waits for its turn, gives up or comes to rest, *)
RQueue(r) ==
  /\ Steps(r, Outside, Outside)
  /\ \/ pc'[r] \in Resting
     \/ pc[r] \in Resting /\ Up /\ target'[r] \in Models
     \/ pc[r] \notin Resting /\ target'[r] = target[r]
  /\ pc[r] \in {"waiting", "resume"} =>
       \/ pc'[r] \in {"waiting", "resume"}
       \/ pc'[r] \in Resting /\ (expired[r] \/ Timeouts \/ Denials)
  /\ \/ UNCHANGED pending
     \/ condition = None /\ pending' = None
     \/ condition = None /\ pending' = target[r] /\ target'[r] = target[r] /\ pc'[r] = "waiting"
  /\ UNCHANGED <<engine, owner, condition, lease, inflight>>

(* takes the condition,                                                    *)
RPass(r) ==
  /\ Steps(r, {"enter", "resume"}, {"lease"})
  /\ condition = None /\ condition' = r /\ ~quiescing
  /\ MustSwitch(r) => inflight = 0
  /\ UNCHANGED <<engine, owner, lease, pending, inflight, target>>

(* revalidates the cached owner,                                           *)
ROwner(r) ==
  /\ \/ /\ Steps(r, {"lease"}, {"ownerCheck"})
        /\ active = target[r] /\ lease = None /\ lease' = r
     \/ /\ Steps(r, {"ownerCheck", "ownerPeers"}, {"ownerPeers"})
        /\ pc[r] = "ownerCheck" => ~Asleep(target[r])
        /\ UNCHANGED lease
  /\ UNCHANGED <<engine, owner, condition, pending, inflight, target>>

(* or announces a start,                                                   *)
RStart(r) ==
  /\ starting' = target[r] /\ lifecycle' = "starting"
  /\ published' = Record("starting", target[r])
  /\ \/ /\ Steps(r, {"lease"}, {IF active = None THEN "peerCheck" ELSE "oldSleep"})
        /\ lease = None /\ lease' = r
        /\ active # target[r] /\ UNCHANGED <<active, ready>>
     \/ /\ Steps(r, {"ownerCheck"}, {"peerCheck"})
        /\ Asleep(target[r]) /\ active' = None /\ ready' = FALSE
        /\ UNCHANGED lease
  /\ UNCHANGED <<engine, condition, pending, inflight, target>>

(* fails, with its demand published or, where an exception no handler lists*)
(* escapes, without it,                                                    *)
Lost(r) ==
  /\ pc'[r] \in Resting
  /\ LeaveLease(r) /\ condition' = None
  /\ UNCHANGED <<active, inflight>>

ROwnerLost(r) ==
  /\ pc[r] \in {"ownerCheck", "ownerPeers"}
  /\ PublishDemand(target[r]) \/ UNCHANGED <<ready, lifecycle, published>>
  /\ Lost(r) /\ UNCHANGED <<engine, starting>>

RStartLost(r) ==
  /\ pc[r] \in StartupSteps
  /\ pc[r] \notin UndoSteps => active # target[r]
  /\ \/ PublishDemand(target[r])
     \/ /\ pc[r] \in UndoSteps /\ Faults
        /\ published' = Record(IF ready THEN "ready" ELSE "idle", active)
        /\ UNCHANGED <<ready, lifecycle>>
  /\ Lost(r) /\ CallFails(r) /\ starting' = None

(* or with its engine back asleep,                                         *)
RAsleep(r) ==
  /\ Steps(r, {"undoCheck", "undoWait"}, Resting)
  /\ Asleep(target[r])
  /\ ClearOwner /\ starting' = None /\ LeaveLease(r) /\ condition' = None
  /\ UNCHANGED <<engine, inflight>>

(* publishes that its engine is ready,                                     *)
RReady(r) ==
  /\ Steps(r, {"ownerPeers", "readiness"}, {"admit"})
  /\ ready' = TRUE /\ lifecycle' = "active"
  /\ published' = Record("ready", target[r])
  /\ starting' = IF pc[r] = "readiness" THEN None ELSE starting
  /\ LeaveLease(r)
  /\ UNCHANGED <<engine, active, condition, inflight, target>>

(* forgets an owner that sleeps, and remembers its own engine as owner,    *)
RForget(r) ==
  /\ Steps(r, {"oldWait"}, {"peerCheck"})
  /\ Asleep(active) /\ ClearOwner
  /\ UNCHANGED <<engine, starting, condition, lease, pending, inflight, target>>

RRemember(r) ==
  /\ Steps(r, {"peerCheck"}, {"weights", "readiness"})
  /\ pc'[r] = "readiness" => ~Asleep(target[r])
  /\ active' = target[r] /\ ready' = FALSE /\ lifecycle' = "starting"
  /\ UNCHANGED <<engine, starting, published, condition, lease, pending, inflight, target>>

(* puts engines to sleep and wakes its own,                                *)
RWork(r) ==
  /\ \/ Steps(r, {"oldSleep"}, {"oldWait"}) /\ Sleeping(r)
     \/ Steps(r, {"peerCheck"}, {"peerCheck", "peerSleep"}) /\ UNCHANGED engine
     \/ Steps(r, {"peerSleep"}, {"peerWait"}) /\ Sleeping(r) /\ UNCHANGED probe
     \/ Steps(r, {"peerWait"}, {"peerCheck"}) /\ Asleep(probe[r]) /\ UNCHANGED engine
     \/ Steps(r, {"weights"}, Woken) /\ WakeUp(target[r])
     \/ Steps(r, Woken, Woken) /\ UNCHANGED engine
     \/ Steps(r, {"undoCheck"}, {"undoSleep"}) /\ UNCHANGED engine
     \/ Steps(r, {"undoSleep"}, {"undoWait"}) /\ Sleeping(r)
     \/ /\ Steps(r, StartupSteps \ UndoSteps, {"undoCheck"})
        /\ active = target[r] /\ CallFails(r)
  /\ UNCHANGED <<owner, condition, lease, pending, inflight, target>>

(* is admitted or denied,                                                  *)
RAdmit(r) ==
  /\ pc[r] = "admit" /\ condition' = None
  /\ \/ pc'[r] = "leased" /\ inflight' = inflight + 1 /\ UNCHANGED target
     \/ pc'[r] \in Resting /\ UNCHANGED inflight
  /\ UNCHANGED <<engine, owner, lease, pending>>

(* and is served and released.                                             *)
RServe(r) ==
  /\ \/ /\ Steps(r, {"leased"}, {"lost"}) /\ UNCHANGED <<owner, inflight>>
     \/ /\ Steps(r, {"lost"}, {"marked"}) /\ condition = None
        /\ UNCHANGED <<active, starting, inflight>>
        /\ IF active = target[r] THEN MarkUnknown(target[r])
                                 ELSE UNCHANGED <<ready, lifecycle, published>>
     \/ Steps(r, {"leased", "marked"}, {"released"}) /\ inflight' = inflight - 1 /\ UNCHANGED owner
  /\ UNCHANGED <<engine, condition, lease, pending, target>>

RRow(r) ==
  \/ RQueue(r) \/ RPass(r) \/ ROwner(r) \/ RStart(r) \/ ROwnerLost(r) \/ RStartLost(r)
  \/ RAsleep(r) \/ RReady(r) \/ RForget(r) \/ RRemember(r) \/ RWork(r) \/ RAdmit(r)
  \/ RServe(r)

RTable(r) == Frame(r) /\ UNCHANGED <<sleepLock, quiescing, mode>> /\ RRow(r)

-----------------------------------------------------------------------------
(* POST /sleep: the call comes, takes or gives up on the sleep lock,       *)
Frees(s) == sleepLock' = IF sleepLock = s THEN None ELSE sleepLock

SQueue(s) ==
  /\ \/ Steps(s, {"idle"}, {"sleepLock"}) /\ listening /\ UNCHANGED sleepLock
     \/ Steps(s, {"sleepLock"}, {"sleepLock"}) /\ UNCHANGED sleepLock
     \/ Steps(s, {"sleepLock"}, Resting) /\ Frees(s)
     \/ Steps(s, {"sleepLock"}, {"enter"}) /\ sleepLock = None /\ sleepLock' = s
  /\ UNCHANGED <<engine, owner, lease, quiescing>>

(* quiesces and waits for zero,                                            *)
SWait(s) ==
  /\ \/ Steps(s, {"enter"}, {"enter"}) /\ UNCHANGED quiescing
     \/ Steps(s, {"waiting", "resume"}, {"resume"}) /\ UNCHANGED quiescing
     \/ Steps(s, {"enter", "resume"}, {"waiting"}) /\ condition = None /\ quiescing' = TRUE
  /\ UNCHANGED <<engine, owner, lease, sleepLock, target>>

(* gives up,                                                               *)
SGiveUp(s) ==
  /\ Steps(s, {"enter", "resume"}, Resting)
  /\ quiescing' = FALSE \/ (pc[s] = "enter" /\ UNCHANGED quiescing)
  /\ Frees(s)
  /\ UNCHANGED <<engine, owner, lease>>

(* or finds the count at zero,                                             *)
SDrained(s) ==
  /\ Steps(s, {"enter", "resume"}, {IF active = None THEN "sleepLease" ELSE "announce"})
  /\ condition = None /\ inflight = 0 /\ quiescing' = TRUE /\ target'[s] = active
  /\ UNCHANGED <<engine, owner, lease, sleepLock>>

(* puts the engine to sleep under the lease,                               *)
SWork(s) ==
  /\ \/ /\ Steps(s, {"announce"}, {"sleepLease"})
        /\ published' = Record("sleeping", target[s]) /\ UNCHANGED <<engine, lease>>
     \/ DiskFaults /\ Steps(s, {"announce"}, {"abort"}) /\ UNCHANGED <<engine, published, lease>>
     \/ /\ Steps(s, {"sleepLease"}, {IF target[s] = None THEN "validate" ELSE "sleepCheck"})
        /\ lease = None /\ lease' = s /\ UNCHANGED <<engine, published>>
     \/ Steps(s, {"validate"}, {"validate"}) /\ UNCHANGED <<engine, published, lease>>
     \/ Steps(s, {"sleepCheck"}, {"sleepPost"}) /\ UNCHANGED <<engine, published, lease>>
     \/ /\ Steps(s, {"sleepPost"}, {"sleepPoll"})
        /\ FallAsleep(target[s]) /\ UNCHANGED <<published, lease>>
     \/ /\ Steps(s, SleepingSteps \cup {"sleepLease"}, {"abort"})
        /\ UNCHANGED engine \/ (Faults /\ pc[s] = "sleepPost" /\ FallAsleep(target[s]))
        /\ pc[s] = "sleepPoll" => Faults \/ (Timeouts /\ s \in Bounded)
        /\ lease' = (IF lease = s THEN None ELSE lease) /\ UNCHANGED published
     \/ /\ Steps(s, {"validate", "sleepCheck", "sleepPoll"}, {"commit"})
        /\ pc[s] # "validate" => Asleep(target[s])
        /\ lease' = (IF lease = s THEN None ELSE lease) /\ UNCHANGED <<engine, published>>
  /\ UNCHANGED <<active, ready, lifecycle, starting, sleepLock, quiescing, target>>

(* and records the result.                                                 *)
SEnd(s) ==
  /\ Steps(s, {"commit", "abort"}, Resting)
  /\ condition = None /\ ready' = FALSE /\ Frees(s)
  /\ \/ quiescing' = FALSE /\ published'.phase \in {"idle", "unknown"}
     \/ DiskFaults /\ quiescing' \in {quiescing, FALSE} /\ UNCHANGED published
  /\ \/ /\ pc[s] = "commit" /\ lifecycle' = "sleeping"
        /\ active' = IF target[s] = None THEN active ELSE None
     \/ pc[s] = "abort" /\ lifecycle' = "unknown" /\ UNCHANGED active
  /\ UNCHANGED <<engine, starting, lease>>

SRow(s) == SQueue(s) \/ SWait(s) \/ SGiveUp(s) \/ SDrained(s) \/ SWork(s) \/ SEnd(s)

STable(s) == Frame(s) /\ UNCHANGED <<condition, pending, inflight, mode>> /\ SRow(s)

-----------------------------------------------------------------------------
(* A startup operation is called, takes the lease, is refused,             *)
CCall(c) ==
  /\ Steps(c, {"idle"}, {"opLease"})
  /\ op'[c] \in Ops
  /\ \/ Bootstrap /\ listening
     \/ ~Bootstrap /\ ~listening /\ \A d \in Controllers : pc[d] = "idle"
  /\ UNCHANGED <<engine, owner, condition, lease, mode>>

CTake(c) ==
  /\ Steps(c, {"opLease"}, {"opBegin"})
  /\ lease = None /\ lease' = c
  /\ UNCHANGED <<engine, owner, condition, mode, target, op>>

CRefuse(c) ==
  /\ Steps(c, {"opBegin"}, Resting)
  /\ condition = None /\ lease' = None
  /\ UNCHANGED <<engine, owner, condition, mode>>

(* or announces itself,                                                    *)
CBegin(c) ==
  /\ Steps(c, {"opBegin"}, {"opCheck"})
  /\ condition = None
  /\ condition' = IF op[c] = "reconcile" THEN c ELSE None
  /\ starting' = IF op[c] = "sleep" THEN target[c] ELSE System
  /\ published' = Record(OpPhase(c), starting')
  /\ todo'[c] = IF op[c] = "sleep" THEN {target[c]} ELSE Models
  /\ UNCHANGED <<engine, lease, active, ready, lifecycle, mode, target, op>>

(* goes through the lineup,                                                *)
CLoop(c) ==
  /\ \/ /\ Steps(c, {"opCheck"}, {"opPoll", "opSleep"})
        /\ UNCHANGED <<engine, target, todo>>
     \/ /\ Steps(c, {"opCheck"}, {"opCheck"})
        /\ \E m \in todo[c] : /\ todo'[c] = todo[c] \ {m}
                              /\ \/ Asleep(m) /\ UNCHANGED target
                                 \/ op[c] = "adopt" /\ target[c] = None /\ target'[c] = m
        /\ UNCHANGED engine
     \/ /\ Steps(c, {"opSleep"}, {"opPoll"})
        /\ FallAsleep(probe[c]) /\ UNCHANGED <<probe, target, todo>>
     \/ /\ Steps(c, {"opPoll"}, {"opCheck"}) /\ Asleep(probe[c])
        /\ todo'[c] = todo[c] \ {probe[c]} /\ UNCHANGED <<engine, target>>
     \/ /\ Steps(c, {"opCheck"}, {"opAdopt"}) /\ todo[c] = {} /\ op[c] = "adopt"
        /\ UNCHANGED <<engine, target, todo>>
     \/ /\ Steps(c, {"opCheck", "opSleep", "opPoll"}, {"opFinally"})
        /\ UNCHANGED engine \/ (pc[c] = "opSleep" /\ Faults /\ FallAsleep(probe[c]))
        /\ UNCHANGED <<target, todo>>
  /\ UNCHANGED <<owner, condition, lease, mode, op>>

(* records what it found,                                                  *)
CCommit(c) ==
  /\ Steps(c, {"opCheck", "opAdopt"}, {"opFinally"})
  /\ condition = None /\ op[c] # "reconcile"
  /\ pc[c] = "opCheck" => todo[c] = {}
  /\ \/ op[c] = "sleep" /\ active # target[c] /\ UNCHANGED <<active, ready, lifecycle, published, finalized>>
     \/ op[c] = "sleep" /\ active = target[c] /\ ClearOwner /\ UNCHANGED finalized
     \/ op[c] = "finalize" /\ ClearOwner /\ finalized' = TRUE
     \/ /\ op[c] = "adopt" /\ active' = target[c] /\ ready' = (target[c] # None)
        /\ lifecycle' = (IF target[c] = None THEN "sleeping" ELSE "active")
        /\ finalized' = TRUE /\ UNCHANGED published
  /\ UNCHANGED <<engine, starting, condition, lease, listening, crashes, target, todo, op>>

(* and clears its announcement; the reconciliation opens the listener.     *)
CEnd(c) ==
  /\ \/ Steps(c, {"opFinally"}, Resting) /\ UNCHANGED <<active, ready, lifecycle, listening>>
     \/ /\ Steps(c, {"opCheck"}, Resting) /\ todo[c] = {} /\ op[c] = "reconcile"
        /\ active' = None /\ ready' = FALSE /\ lifecycle' = "sleeping" /\ listening' = TRUE
  /\ condition \in {None, c}
  /\ starting' = None /\ published' = Record("idle", None)
  /\ lease' = None /\ condition' = None
  /\ UNCHANGED <<engine, finalized, crashes>>

CRow(c) ==
  CCall(c) \/ CTake(c) \/ CRefuse(c) \/ CBegin(c) \/ CLoop(c) \/ CCommit(c) \/ CEnd(c)

CTable(c) ==
  Frame(c) /\ UNCHANGED <<sleepLock, pending, quiescing, inflight>> /\ CRow(c)

-----------------------------------------------------------------------------
(* A thread that goes on, with its own loop variables set or not.          *)
LEMMA GoFrame ==
  ASSUME PcTypes, LocalTypes, NEW t \in Threads, NEW l, NEW x, NEW y,
         Go(t, l) \/ (GoNotify(t, l) /\ l # "waiting"),
         todo' = todo \/ todo' = [todo EXCEPT ![t] = x],
         probe' = probe \/ probe' = [probe EXCEPT ![t] = y],
         UNCHANGED <<target, expired, op>>
  PROVE  Frame(t) /\ pc'[t] = l
<1>1. Others(t) /\ pc'[t] = l
  BY GoOthers
<1>2. \A u \in Threads \ {t} : todo'[u] = todo[u] /\ probe'[u] = probe[u]
  BY DEF LocalTypes
<1> QED
  BY <1>1, <1>2 DEF Frame

(* One that goes on with its stack as it is.                               *)
LEMMA MoveFrame ==
  ASSUME PcTypes, LocalTypes, NEW t \in Threads, NEW l,
         Go(t, l) \/ (GoNotify(t, l) /\ l # "waiting"), UNCHANGED locals
  PROVE  Frame(t) /\ pc'[t] = l
BY GoFrame DEF locals

(* One that stays, and takes a model off the list of its loop.             *)
LEMMA VisitFrame ==
  ASSUME PcTypes, LocalTypes, NEW t \in Threads, NEW x,
         todo' = [todo EXCEPT ![t] = x], UNCHANGED <<pc, target, probe, expired, op>>
  PROVE  Frame(t) /\ pc'[t] = pc[t] /\ todo'[t] = x
<1>1. todo'[t] = x /\ \A u \in Threads \ {t} : todo'[u] = todo[u]
  BY DEF LocalTypes
<1> QED
  BY <1>1 DEF Frame, Others

(* One that returns.                                                       *)
LEMMA ReturnFrame ==
  ASSUME PcTypes, LocalTypes, NEW t \in Threads, Return(t) \/ ReturnNotify(t)
  PROVE  Frame(t) /\ pc'[t] \in Resting
<1>1. Others(t) /\ pc'[t] \in Resting
  BY ReturnOthers DEF Resting
<1>2. /\ \A u \in Threads \ {t} : todo'[u] = todo[u] /\ probe'[u] = probe[u]
      /\ \A u \in Threads : expired'[u] => expired[u]
  BY DEF Return, ReturnNotify, Forget, LocalTypes
<1> QED
  BY <1>1, <1>2 DEF Frame

(* One whose deadline passes.                                              *)
LEMMA DeadlineFrame ==
  ASSUME PcTypes, LocalTypes, NEW t \in Requests \cup Sleepers, NEW blocked,
         DeadlinePasses(t, blocked)
  PROVE  Frame(t) /\ pc'[t] = IF pc[t] = "waiting" THEN "resume" ELSE pc[t]
<1>1. Others(t) /\ pc'[t] = IF pc[t] = "waiting" THEN "resume" ELSE pc[t]
  BY GoOthers DEF DeadlinePasses
<1>2. Timeouts /\ \A u \in Threads \ {t} : todo'[u] = todo[u] /\ probe'[u] = probe[u]
  BY DEF DeadlinePasses
<1> QED
  BY <1>1, <1>2 DEF Frame

-----------------------------------------------------------------------------
(* The request up to the condition, and after the release.                 *)
LEMMA QueueTable ==
  ASSUME IInv, NEW r \in Requests,
         \/ Arrive(r) \/ DenyEntry(r) \/ DeferToDrain(r) \/ DeferToInflight(r)
         \/ GiveUpInDrain(r) \/ GiveUpInCount(r) \/ DenySwitch(r) \/ NotifyRelease(r)
         \/ DeadlinePasses(r, {"waiting", "resume"})
  PROVE  RTable(r)
<1> USE DEF IInv, TypeOK
<1>1. CASE Arrive(r)
  <2>1. pc'[r] = "enter" /\ Others(r) /\ target'[r] \in Models
    BY <1>1, GoMoves DEF Arrive, Others, Moves, LocalTypes
  <2>2. Frame(r)
    BY <1>1, <2>1 DEF Arrive, Frame
  <2>3. RQueue(r)
    BY <1>1, <2>1 DEF Arrive, RQueue, Steps, Outside, Up, Resting, locks, gate
  <2> QED
    BY <1>1, <2>2, <2>3 DEF Arrive, RTable, RRow, locks, gate
<1>2. CASE DenyEntry(r) \/ GiveUpInCount(r) \/ DenySwitch(r) \/ NotifyRelease(r)
  <2>1. Return(r) \/ ReturnNotify(r)
    BY <1>2 DEF DenyEntry, GiveUpInCount, DenySwitch, NotifyRelease
  <2>2. Frame(r) /\ pc'[r] \in Resting
    BY <2>1, ReturnFrame
  <2>3. /\ pc[r] \in Outside /\ UNCHANGED <<engine, locks, owner, gate, mode>>
        /\ pc[r] \in {"waiting", "resume"} => expired[r] \/ Denials
    BY <1>2 DEF DenyEntry, GiveUpInCount, DenySwitch, NotifyRelease, SwitchIsSafe,
                InSwitchLoop, Outside
  <2>4. RQueue(r)
    BY <2>2, <2>3 DEF RQueue, Steps, Resting, Outside, locks, gate
  <2> QED
    BY <2>2, <2>3, <2>4 DEF RTable, RRow, locks, gate
<1>3. CASE DeferToDrain(r) \/ DeferToInflight(r)
  <2>1. Frame(r) /\ pc'[r] = "waiting"
    BY <1>3, MoveFrame DEF DeferToDrain, DeferToInflight
  <2>2. RQueue(r)
    BY <1>3, <2>1
       DEF DeferToDrain, DeferToInflight, InSwitchLoop, RQueue, Steps, Outside, Resting,
           locks, gate, locals
  <2> QED
    BY <1>3, <2>1, <2>2 DEF DeferToDrain, DeferToInflight, RTable, RRow, locks, gate
<1>4. CASE GiveUpInDrain(r)
  <2>1. Return(r) \/ ReturnNotify(r)
    BY <1>4 DEF GiveUpInDrain, DropPending
  <2>2. Frame(r) /\ pc'[r] \in Resting
    BY <2>1, ReturnFrame
  <2>3. /\ pc[r] \in {"enter", "resume"} /\ condition = None
        /\ expired[r] \/ Timeouts
        /\ pending' \in {pending, None}
    BY <1>4 DEF GiveUpInDrain, DropPending, InSwitchLoop
  <2>4. RQueue(r)
    BY <1>4, <2>2, <2>3 DEF GiveUpInDrain, RQueue, Steps, Resting, Outside, locks
  <2> QED
    BY <1>4, <2>2, <2>4 DEF GiveUpInDrain, RTable, RRow, locks
<1>5. CASE DeadlinePasses(r, {"waiting", "resume"})
  <2>1. Frame(r) /\ pc'[r] = "resume" /\ pc[r] \in {"waiting", "resume"}
    BY <1>5, DeadlineFrame DEF DeadlinePasses
  <2>2. RQueue(r)
    BY <1>5, <2>1 DEF DeadlinePasses, RQueue, Steps, Outside, Resting, locks, gate
  <2> QED
    BY <1>5, <2>1, <2>2 DEF DeadlinePasses, RTable, RRow, locks, gate
<1> QED
  BY <1>1, <1>2, <1>3, <1>4, <1>5

(* The request from the condition to the end of its revalidation.          *)
LEMMA OwnerTable ==
  ASSUME IInv, NEW r \in Requests,
         \/ PassSwitch(r) \/ TakeLease(r)
         \/ OwnerCheck(r) \/ OwnerPeers(r) \/ OwnerListed(r)
  PROVE  RTable(r)
<1> USE DEF IInv, TypeOK
<1>1. CASE PassSwitch(r)
  <2>1. Frame(r) /\ pc'[r] = "lease"
    BY <1>1, MoveFrame DEF PassSwitch
  <2>2. RPass(r)
    BY <1>1, <2>1 DEF PassSwitch, SwitchIsSafe, InSwitchLoop, MustDefer, RPass, Steps,
                      gate, locals
  <2> QED
    BY <1>1, <2>1, <2>2 DEF PassSwitch, RTable, RRow, gate
<1>2. CASE TakeLease(r)
  <2>1. CASE active = target[r]
    <3>1. Frame(r) /\ pc'[r] = "ownerCheck"
      BY <1>2, <2>1, GoFrame DEF TakeLease
    <3>2. ROwner(r)
      BY <1>2, <2>1, <3>1 DEF TakeLease, ROwner, Steps, owner, gate
    <3> QED
      BY <1>2, <3>1, <3>2 DEF TakeLease, RTable, RRow, gate
  <2>2. CASE active # target[r]
    <3>1. Frame(r) /\ pc'[r] = IF active = None THEN "peerCheck" ELSE "oldSleep"
      BY <1>2, <2>2, GoFrame DEF TakeLease, StartActivation
    <3>2. RStart(r)
      BY <1>2, <2>2, <3>1 DEF TakeLease, StartActivation, RStart, Steps, gate
    <3> QED
      BY <1>2, <3>1, <3>2 DEF TakeLease, RTable, RRow, gate
  <2> QED
    BY <2>1, <2>2
<1>3. CASE /\ RevalidationFails(r) \/ RevalidationEscapes(r)
           /\ pc[r] \in {"ownerCheck", "ownerPeers"}
  <2>0. LeaveRevalidation(r)
    BY <1>3 DEF RevalidationFails, RevalidationEscapes
  <2>1. Return(r) \/ ReturnNotify(r)
    BY <2>0 DEF LeaveRevalidation
  <2>2. Frame(r) /\ pc'[r] \in Resting
    BY <2>1, ReturnFrame
  <2>3. ROwnerLost(r)
    BY <1>3, <2>0, <2>2
       DEF RevalidationFails, RevalidationEscapes, LeaveRevalidation, ROwnerLost, Lost, owner
  <2> QED
    BY <2>0, <2>2, <2>3 DEF LeaveRevalidation, RTable, RRow
<1> DEFINE Goes == ~RevalidationFails(r) /\ ~RevalidationEscapes(r)
<1>4. CASE OwnerCheck(r) /\ Goes
  <2>1. PICK answer \in SleepState(target[r]) :
          \/ /\ answer = "asleep"
             /\ active' = None /\ ready' = FALSE
             /\ StartActivation(r, None)
             /\ UNCHANGED <<engine, locks, gate, mode, target, probe, expired, op>>
          \/ /\ answer = "awake"
             /\ Go(r, "ownerPeers")
             /\ todo' = [todo EXCEPT ![r] = Peers(r)]
             /\ UNCHANGED <<engine, locks, owner, gate, mode, target, probe, expired, op>>
    BY <1>4 DEF OwnerCheck
  <2>2. pc[r] = "ownerCheck"
    BY <1>4 DEF OwnerCheck
  <2>3. CASE answer = "asleep"
    <3>1. Frame(r) /\ pc'[r] = "peerCheck"
      BY <2>1, <2>3, GoFrame DEF StartActivation
    <3>2. Asleep(target[r])
      BY <2>3 DEF SleepState, Asleep
    <3>3. RStart(r)
      BY <2>1, <2>2, <2>3, <3>1, <3>2 DEF StartActivation, RStart, Steps, locks, gate
    <3> QED
      BY <2>1, <2>3, <3>1, <3>3 DEF RTable, RRow, locks, gate
  <2>4. CASE answer = "awake"
    <3>1. Frame(r) /\ pc'[r] = "ownerPeers"
      BY <2>1, <2>4, GoFrame
    <3>2. ~Asleep(target[r])
      BY <2>4 DEF SleepState, Asleep
    <3>3. ROwner(r)
      BY <2>1, <2>2, <2>4, <3>1, <3>2 DEF ROwner, Steps, locks, gate
    <3> QED
      BY <2>1, <2>4, <3>1, <3>3 DEF RTable, RRow, locks, gate
  <2> QED
    BY <2>1, <2>3, <2>4
<1>5. CASE OwnerPeers(r) /\ Goes
  <2>1. PICK m \in todo[r] :
          /\ todo' = [todo EXCEPT ![r] = @ \ {m}]
          /\ UNCHANGED <<engine, locks, owner, gate, mode, pc, target, probe, expired, op>>
    BY <1>5 DEF OwnerPeers
  <2>2. Frame(r) /\ pc'[r] = pc[r]
    BY <2>1, VisitFrame
  <2>3. ROwner(r)
    BY <1>5, <2>1, <2>2 DEF OwnerPeers, ROwner, Steps, locks, gate
  <2> QED
    BY <2>1, <2>2, <2>3 DEF RTable, RRow, locks, gate
<1>6. CASE OwnerListed(r) /\ Goes
  <2>1. Go(r, "admit") \/ GoNotify(r, "admit")
    BY <1>6 DEF OwnerListed
  <2>2. Frame(r) /\ pc'[r] = "admit"
    BY <1>6, <2>1, MoveFrame DEF OwnerListed
  <2>3. RReady(r)
    BY <1>6, <2>2 DEF OwnerListed, RReady, Steps, locals
  <2> QED
    BY <1>6, <2>2, <2>3 DEF OwnerListed, RTable, RRow
<1>7. /\ OwnerCheck(r) => pc[r] \in {"ownerCheck", "ownerPeers"}
      /\ OwnerPeers(r) => pc[r] \in {"ownerCheck", "ownerPeers"}
      /\ OwnerListed(r) => pc[r] \in {"ownerCheck", "ownerPeers"}
  BY DEF OwnerCheck, OwnerPeers, OwnerListed
<1> QED
  BY <1>1, <1>2, <1>3, <1>4, <1>5, <1>6, <1>7

(* The exits of a start that fails.                                        *)
LEMMA LostTable ==
  ASSUME IInv, NEW r \in Requests, pc[r] \in StartupSteps,
         pc[r] \notin UndoSteps => active # target[r],
         LeaveDemand(r) \/ (UndoEscapes(r) /\ pc[r] \in UndoSteps), CallFails(r)
  PROVE  RTable(r)
<1> USE DEF IInv, TypeOK
<1>1. Frame(r) /\ pc'[r] \in Resting
  BY ReturnFrame DEF LeaveDemand, UndoEscapes, ExitStartup
<1>2. RStartLost(r)
  BY <1>1 DEF LeaveDemand, UndoEscapes, ExitStartup, RStartLost, Lost
<1> QED
  BY <1>1, <1>2 DEF LeaveDemand, UndoEscapes, ExitStartup, RTable, RRow

(* A start that fails, undone or not.                                      *)
LEMMA FailTable ==
  ASSUME IInv, NEW r \in Requests, pc[r] \in StartupSteps \ UndoSteps,
         FailStartup(r), CallFails(r)
  PROVE  RTable(r)
<1> USE DEF IInv, TypeOK
<1>1. CASE active = target[r]
  <2>1. Frame(r) /\ pc'[r] = "undoCheck"
    BY <1>1, MoveFrame DEF FailStartup
  <2>2. RWork(r)
    BY <1>1, <2>1 DEF FailStartup, RWork, Steps, locks, gate, locals
  <2> QED
    BY <1>1, <2>1, <2>2 DEF FailStartup, RTable, RRow, locks, gate
<1>2. CASE active # target[r]
  BY <1>2, LostTable DEF FailStartup
<1> QED
  BY <1>1, <1>2

(* A start whose only change is to the engines and the program counter.    *)
LEMMA WorkTable ==
  ASSUME IInv, NEW r \in Requests, NEW l, Go(r, l),
         UNCHANGED <<locks, owner, gate, mode, locals>>,
         pc'[r] = l => RWork(r)
  PROVE  RTable(r)
<1>1. Frame(r) /\ pc'[r] = l
  BY MoveFrame DEF IInv, TypeOK
<1> QED
  BY <1>1 DEF RTable, RRow, locks, gate

(* The steps that put the old engine and the peers to sleep.               *)
LEMMA SleepOthersTable ==
  ASSUME IInv, NEW r \in Requests,
         OldSleep(r) \/ OldWait(r) \/ PeerCheck(r) \/ PeerSleep(r) \/ PeerWait(r)
  PROVE  RTable(r)
<1> USE DEF IInv, TypeOK
<1>0. pc[r] \in StartupSteps \ UndoSteps
  BY DEF OldSleep, OldWait, PeerCheck, PeerSleep, PeerWait, StartupSteps, UndoSteps
<1>1. ASSUME FailStartup(r), UNCHANGED engine, pc[r] \in WaitSteps => Faults
      PROVE  RTable(r)
  BY <1>0, <1>1, FailTable DEF CallFails
<1>2. CASE OldSleep(r)
  <2>1. pc[r] = "oldSleep"
    BY <1>2 DEF OldSleep
  <2>2. CASE SleepFails(active) /\ FailStartup(r)
    <3>1. CallFails(r)
      BY <2>1, <2>2 DEF CallFails, SleepFails, Sleeping, Victim, WaitSteps
    <3> QED
      BY <1>0, <2>2, <3>1, FailTable
  <2>3. CASE ~(SleepFails(active) /\ FailStartup(r))
    <3>1. Sleeping(r)
      BY <1>2, <2>1, <2>3 DEF OldSleep, Sleeping, Victim
    <3> QED
      BY <1>2, <2>1, <2>3, <3>1, WorkTable DEF OldSleep, RWork, Steps, locks, gate, locals
  <2> QED
    BY <2>2, <2>3
<1>3. CASE OldWait(r)
  <2>1. CASE "asleep" \in SleepState(active) /\ ClearOwner /\ Go(r, "peerCheck")
             /\ UNCHANGED <<engine, locks, starting, gate, mode, locals>>
    <3>1. Frame(r) /\ pc'[r] = "peerCheck"
      BY <2>1, MoveFrame
    <3>2. Asleep(active)
      BY <2>1 DEF SleepState, Asleep
    <3>3. RForget(r)
      BY <1>3, <2>1, <3>1, <3>2 DEF OldWait, RForget, Steps, locks, gate, locals
    <3> QED
      BY <2>1, <3>1, <3>3 DEF RTable, RRow, locks, gate
  <2> QED
    BY <1>1, <1>3, <2>1 DEF OldWait
<1>4. CASE PeerCheck(r)
  <2>0. pc[r] = "peerCheck"
    BY <1>4 DEF PeerCheck
  <2>1. CASE FailStartup(r) /\ UNCHANGED engine
    BY <1>1, <2>0, <2>1 DEF WaitSteps
  <2>2. CASE \E m \in todo[r] :
               /\ todo' = [todo EXCEPT ![r] = @ \ {m}]
               /\ UNCHANGED <<engine, locks, owner, gate, mode, pc, target, probe, expired, op>>
    <3>1. Frame(r) /\ pc'[r] = pc[r]
      BY <2>2, VisitFrame
    <3>2. RWork(r)
      BY <2>0, <2>2, <3>1 DEF RWork, Steps, locks, gate
    <3> QED
      BY <2>2, <3>1, <3>2 DEF RTable, RRow, locks, gate
  <2>3. CASE \E m \in todo[r] :
               /\ probe' = [probe EXCEPT ![r] = m]
               /\ Go(r, "peerSleep")
               /\ UNCHANGED <<engine, locks, owner, gate, mode, target, todo, expired, op>>
    <3>1. Frame(r) /\ pc'[r] = "peerSleep"
      BY <2>3, GoFrame
    <3>2. RWork(r)
      BY <2>0, <2>3, <3>1 DEF RWork, Steps, locks, gate
    <3> QED
      BY <2>3, <3>1, <3>2 DEF RTable, RRow, locks, gate
  <2> QED
    BY <1>4, <2>1, <2>2, <2>3 DEF PeerCheck
<1>5. CASE PeerSleep(r)
  <2>1. pc[r] = "peerSleep"
    BY <1>5 DEF PeerSleep
  <2>2. CASE SleepFails(probe[r]) /\ FailStartup(r)
    <3>1. CallFails(r)
      BY <2>1, <2>2 DEF CallFails, SleepFails, Sleeping, Victim, WaitSteps
    <3> QED
      BY <1>0, <2>2, <3>1, FailTable
  <2>3. CASE ~(SleepFails(probe[r]) /\ FailStartup(r))
    <3>1. Sleeping(r)
      BY <1>5, <2>1, <2>3 DEF PeerSleep, Sleeping, Victim
    <3> QED
      BY <1>5, <2>1, <2>3, <3>1, WorkTable DEF PeerSleep, RWork, Steps, locks, gate, locals
  <2> QED
    BY <2>2, <2>3
<1>6. CASE PeerWait(r)
  <2>1. CASE /\ "asleep" \in SleepState(probe[r])
             /\ todo' = [todo EXCEPT ![r] = @ \ {probe[r]}]
             /\ probe' = [probe EXCEPT ![r] = None]
             /\ Go(r, "peerCheck")
             /\ UNCHANGED <<engine, locks, owner, gate, mode, target, expired, op>>
    <3>1. Frame(r) /\ pc'[r] = "peerCheck"
      BY <2>1, GoFrame
    <3>2. Asleep(probe[r])
      BY <2>1 DEF SleepState, Asleep
    <3>3. RWork(r)
      BY <1>6, <2>1, <3>1, <3>2 DEF PeerWait, RWork, Steps, locks, gate
    <3> QED
      BY <2>1, <3>1, <3>3 DEF RTable, RRow, locks, gate
  <2> QED
    BY <1>1, <1>6, <2>1 DEF PeerWait
<1> QED
  BY <1>2, <1>3, <1>4, <1>5, <1>6

(* The steps that wake the target.                                         *)
LEMMA WakeTable ==
  ASSUME IInv, NEW r \in Requests,
         TargetCheck(r) \/ WakePhase(r) \/ LeaveSleep(r) \/ Readiness(r)
  PROVE  RTable(r)
<1> USE DEF IInv, TypeOK
<1>0. /\ pc[r] \in StartupSteps \ UndoSteps /\ pc[r] \notin WaitSteps
      /\ pc[r] \in {"peerCheck", "leaveSleep", "readiness"} \cup WakePhases
  BY DEF TargetCheck, WakePhase, WakePhases, LeaveSleep, Readiness, StartupSteps, UndoSteps,
         WaitSteps
<1>1. ASSUME FailStartup(r), UNCHANGED engine PROVE RTable(r)
  BY <1>0, <1>1, FailTable DEF CallFails
<1>2. CASE TargetCheck(r) /\ ~(FailStartup(r) /\ UNCHANGED engine)
  <2>1. PICK answer \in SleepState(target[r]) :
          \/ answer = "awake" /\ RememberTarget(r, "readiness")
          \/ answer \in {"asleep", "unknown"} /\ RememberTarget(r, "weights")
    BY <1>2 DEF TargetCheck
  <2>2. pc[r] = "peerCheck"
    BY <1>2 DEF TargetCheck
  <2>3. ASSUME NEW l \in {"readiness", "weights"}, RememberTarget(r, l),
               l = "readiness" => ~Asleep(target[r])
        PROVE  RTable(r)
    <3>1. Frame(r) /\ pc'[r] = l
      BY <2>3, MoveFrame DEF RememberTarget
    <3>2. RRemember(r)
      BY <2>2, <2>3, <3>1 DEF RememberTarget, RRemember, Steps, locks, gate, locals
    <3> QED
      BY <2>3, <3>1, <3>2 DEF RememberTarget, RTable, RRow, locks, gate
  <2>4. answer = "awake" => ~Asleep(target[r])
    BY DEF SleepState, Asleep
  <2> QED
    BY <2>1, <2>3, <2>4
<1>3. CASE WakePhase(r)
  <2>1. /\ NextPhase(pc[r]) \in Woken
        /\ pc[r] # "weights" => pc[r] \in Woken
    BY <1>3 DEF WakePhase, WakePhases, NextPhase, Woken
  <2>2. CASE FailStartup(r) /\ CallFails(r)
    BY <1>0, <2>2, FailTable
  <2>3. CASE /\ IF pc[r] = "weights" THEN WakeUp(target[r]) ELSE UNCHANGED engine
             /\ Go(r, NextPhase(pc[r]))
             /\ UNCHANGED <<locks, owner, gate, mode, locals>>
    BY <2>1, <2>3, WorkTable DEF RWork, Steps, locks, gate, locals
  <2> QED
    BY <1>0, <1>3, <2>2, <2>3 DEF WakePhase, CallFails
<1>4. CASE LeaveSleep(r)
  <2>1. CASE FailStartup(r) /\ UNCHANGED engine
    BY <1>1, <2>1
  <2>2. CASE ~(FailStartup(r) /\ UNCHANGED engine)
    BY <1>4, <2>2, WorkTable DEF LeaveSleep, RWork, Steps, Woken, locks, gate, locals
  <2> QED
    BY <2>1, <2>2
<1>5. CASE Readiness(r) /\ ~(FailStartup(r) /\ UNCHANGED engine)
  <2>1. Frame(r) /\ pc'[r] = "admit"
    BY <1>5, MoveFrame DEF Readiness
  <2>2. RReady(r)
    BY <1>5, <2>1 DEF Readiness, RReady, Steps, locals
  <2> QED
    BY <1>5, <2>1, <2>2 DEF Readiness, RTable, RRow
<1> QED
  BY <1>1, <1>2, <1>3, <1>4, <1>5

(* The steps that put back to sleep a target whose start failed.           *)
LEMMA UndoTable ==
  ASSUME IInv, NEW r \in Requests, UndoCheck(r) \/ UndoSleep(r) \/ UndoWait(r)
  PROVE  RTable(r)
<1> USE DEF IInv, TypeOK
<1>0. pc[r] \in StartupSteps /\ pc[r] \in UndoSteps
  BY DEF UndoCheck, UndoSleep, UndoWait, StartupSteps, UndoSteps
<1>1. ASSUME LeaveAsleep(r), pc[r] \in {"undoCheck", "undoWait"}, Asleep(target[r])
      PROVE  RTable(r)
  <2>1. Frame(r) /\ pc'[r] \in Resting
    BY <1>1, ReturnFrame DEF LeaveAsleep, ExitStartup
  <2>2. RAsleep(r)
    BY <1>1, <2>1 DEF LeaveAsleep, ExitStartup, RAsleep, Steps
  <2> QED
    BY <1>1, <2>1, <2>2 DEF LeaveAsleep, ExitStartup, RTable, RRow
<1>2. CASE UndoCheck(r)
  <2>0. pc[r] = "undoCheck"
    BY <1>2 DEF UndoCheck
  <2>1. PICK answer \in SleepState(target[r]) :
          \/ answer = "asleep" /\ LeaveAsleep(r)
          \/ Go(r, "undoSleep") /\ UNCHANGED <<engine, locks, owner, gate, mode, locals>>
          \/ (LeaveDemand(r) \/ UndoEscapes(r)) /\ UNCHANGED engine
    BY <1>2 DEF UndoCheck
  <2>2. CASE answer = "asleep" /\ LeaveAsleep(r)
    <3>1. Asleep(target[r])
      BY <2>2 DEF SleepState, Asleep
    <3> QED
      BY <1>1, <2>0, <2>2, <3>1
  <2>3. CASE Go(r, "undoSleep") /\ UNCHANGED <<engine, locks, owner, gate, mode, locals>>
    BY <2>0, <2>3, WorkTable DEF RWork, Steps, locks, gate, locals
  <2>4. CASE (LeaveDemand(r) \/ UndoEscapes(r)) /\ UNCHANGED engine
    BY <1>0, <2>0, <2>4, LostTable DEF CallFails, WaitSteps
  <2> QED
    BY <2>1, <2>2, <2>3, <2>4
<1>3. CASE UndoSleep(r)
  <2>0. pc[r] = "undoSleep"
    BY <1>3 DEF UndoSleep
  <2>1. CASE SleepFails(target[r]) /\ (LeaveDemand(r) \/ UndoEscapes(r))
    <3>1. CallFails(r)
      BY <2>0, <2>1 DEF CallFails, SleepFails, Sleeping, Victim, WaitSteps
    <3> QED
      BY <1>0, <2>1, <3>1, LostTable
  <2>2. CASE ~(SleepFails(target[r]) /\ (LeaveDemand(r) \/ UndoEscapes(r)))
    <3>1. Sleeping(r)
      BY <1>3, <2>0, <2>2 DEF UndoSleep, Sleeping, Victim
    <3> QED
      BY <1>3, <2>0, <2>2, <3>1, WorkTable DEF UndoSleep, RWork, Steps, locks, gate, locals
  <2> QED
    BY <2>1, <2>2
<1>4. CASE UndoWait(r)
  <2>0. pc[r] = "undoWait"
    BY <1>4 DEF UndoWait
  <2>1. CASE "asleep" \in SleepState(target[r]) /\ LeaveAsleep(r)
    <3>1. Asleep(target[r])
      BY <2>1 DEF SleepState, Asleep
    <3> QED
      BY <1>1, <2>0, <2>1, <3>1
  <2>2. CASE Faults /\ (LeaveDemand(r) \/ UndoEscapes(r)) /\ UNCHANGED engine
    BY <1>0, <2>0, <2>2, LostTable DEF CallFails
  <2> QED
    BY <1>4, <2>1, <2>2 DEF UndoWait
<1> QED
  BY <1>2, <1>3, <1>4

(* Admission, forwarding and release.                                      *)
LEMMA ServeTable ==
  ASSUME IInv, NEW r \in Requests,
         Admit(r) \/ UpstreamLost(r) \/ MarkOwnerUnavailable(r) \/ EndResponse(r)
  PROVE  RTable(r)
<1> USE DEF IInv, TypeOK
<1>1. CASE Admit(r)
  <2>1. Frame(r)
    BY <1>1, MoveFrame, ReturnFrame DEF Admit
  <2>2. RAdmit(r)
    <3>1. CASE Go(r, "leased") /\ inflight' = inflight + 1 /\ UNCHANGED locals
      BY <1>1, <3>1, MoveFrame DEF Admit, RAdmit, locals
    <3>2. CASE Return(r) /\ UNCHANGED inflight
      BY <1>1, <3>2, ReturnFrame DEF Admit, RAdmit
    <3> QED
      BY <1>1, <3>1, <3>2 DEF Admit
  <2> QED
    BY <1>1, <2>1, <2>2 DEF Admit, RTable, RRow
<1>2. CASE UpstreamLost(r) \/ MarkOwnerUnavailable(r) \/ EndResponse(r)
  <2>1. Frame(r) /\ RServe(r)
    BY <1>2, MoveFrame
       DEF UpstreamLost, MarkOwnerUnavailable, EndResponse, RServe, Steps, owner, locks,
           gate, locals
  <2> QED
    BY <1>2, <2>1
       DEF UpstreamLost, MarkOwnerUnavailable, EndResponse, RTable, RRow, locks, gate
<1> QED
  BY <1>1, <1>2

(* Every step of a request is in the table.                                *)
LEMMA RequestTable ==
  ASSUME IInv, NEW r \in Requests, Request(r)
  PROVE  RTable(r)
BY QueueTable, OwnerTable, SleepOthersTable, WakeTable, UndoTable, ServeTable
   DEF Request, RequestStep

-----------------------------------------------------------------------------
(* POST /sleep up to the drained count.                                    *)
LEMMA DrainTable ==
  ASSUME IInv, NEW s \in Sleepers,
         \/ SleepCall(s) \/ TakeSleepLock(s) \/ SleepCallExpires(s) \/ WaitForZero(s)
         \/ GiveUpZero(s) \/ Drained(s)
         \/ DeadlinePasses(s, {"sleepLock", "enter", "waiting", "resume"})
  PROVE  STable(s)
<1> USE DEF IInv, TypeOK
<1>1. CASE SleepCall(s)
  <2>1. Frame(s) /\ pc'[s] = "sleepLock"
    BY <1>1, MoveFrame DEF SleepCall
  <2> QED
    BY <1>1, <2>1 DEF SleepCall, STable, SRow, SQueue, Steps, locks, gate
<1>2. CASE TakeSleepLock(s)
  <2>1. Frame(s) /\ pc'[s] = "enter"
    BY <1>2, MoveFrame DEF TakeSleepLock
  <2> QED
    BY <1>2, <2>1 DEF TakeSleepLock, STable, SRow, SQueue, Steps, gate
<1>3. CASE SleepCallExpires(s)
  <2>1. Frame(s) /\ pc'[s] \in Resting
    BY <1>3, ReturnFrame DEF SleepCallExpires
  <2>2. SQueue(s) \/ SGiveUp(s)
    BY <1>3, <2>1
       DEF SleepCallExpires, FreeSleepLock, SQueue, SGiveUp, Frees, Steps, gate
  <2> QED
    BY <1>3, <2>1, <2>2 DEF SleepCallExpires, STable, SRow, gate
<1>4. CASE WaitForZero(s)
  <2>1. Frame(s) /\ pc'[s] = "waiting"
    BY <1>4, MoveFrame DEF WaitForZero
  <2>2. SWait(s)
    BY <1>4, <2>1 DEF WaitForZero, InDrainLoop, SWait, Steps, locks, locals
  <2> QED
    BY <1>4, <2>1, <2>2 DEF WaitForZero, STable, SRow, locks
<1>5. CASE GiveUpZero(s)
  <2>1. Frame(s) /\ pc'[s] \in Resting
    BY <1>5, ReturnFrame DEF GiveUpZero
  <2>2. SGiveUp(s)
    BY <1>5, <2>1 DEF GiveUpZero, InDrainLoop, FreeSleepLock, SGiveUp, Frees, Steps
  <2> QED
    BY <1>5, <2>1, <2>2 DEF GiveUpZero, STable, SRow
<1>6. CASE Drained(s)
  <2>1. Others(s) /\ pc'[s] = (IF active = None THEN "sleepLease" ELSE "announce")
    BY <1>6, GoMoves DEF Drained, Others, Moves, LocalTypes
  <2>2. Frame(s) /\ target'[s] = active
    BY <1>6, <2>1 DEF Drained, Frame, LocalTypes
  <2>3. SDrained(s)
    BY <1>6, <2>1, <2>2 DEF Drained, InDrainLoop, SDrained, Steps, locks
  <2> QED
    BY <1>6, <2>2, <2>3 DEF Drained, STable, SRow, locks
<1>7. CASE DeadlinePasses(s, {"sleepLock", "enter", "waiting", "resume"})
  <2>1. /\ Frame(s) /\ pc'[s] = (IF pc[s] = "waiting" THEN "resume" ELSE pc[s])
        /\ pc[s] \in {"sleepLock", "enter", "waiting", "resume"}
    BY <1>7, DeadlineFrame DEF DeadlinePasses
  <2>2. SQueue(s) \/ SWait(s)
    BY <1>7, <2>1 DEF DeadlinePasses, SQueue, SWait, Steps, locks, gate
  <2> QED
    BY <1>7, <2>1, <2>2 DEF DeadlinePasses, STable, SRow, locks, gate
<1> QED
  BY <1>1, <1>2, <1>3, <1>4, <1>5, <1>6, <1>7

(* A sleeper that leaves the lease.                                        *)
LEMMA LeaveTable ==
  ASSUME IInv, NEW s \in Sleepers, NEW next \in {"commit", "abort"}, LeaveFor(s, next),
         \/ /\ next = "abort" /\ pc[s] \in SleepingSteps \cup {"sleepLease"}
            /\ UNCHANGED engine \/ (Faults /\ pc[s] = "sleepPost" /\ FallAsleep(target[s]))
            /\ pc[s] = "sleepPoll" => Faults \/ (Timeouts /\ s \in Bounded)
         \/ /\ next = "commit" /\ pc[s] \in {"validate", "sleepCheck", "sleepPoll"}
            /\ pc[s] # "validate" => Asleep(target[s])
            /\ UNCHANGED engine
  PROVE  STable(s)
<1>1. Frame(s) /\ pc'[s] = next
  BY MoveFrame DEF LeaveFor, IInv, TypeOK
<1>2. SWork(s)
  BY <1>1 DEF LeaveFor, SWork, Steps, owner, gate, locals
<1> QED
  BY <1>1, <1>2 DEF LeaveFor, STable, SRow, gate

(* A sleeper whose step under the lease only moves it.                     *)
LEMMA SleeperWorkTable ==
  ASSUME IInv, NEW s \in Sleepers, NEW l, Go(s, l),
         UNCHANGED <<locks, owner, gate, mode, locals>>,
         pc'[s] = l => SWork(s)
  PROVE  STable(s)
<1>1. Frame(s) /\ pc'[s] = l
  BY MoveFrame DEF IInv, TypeOK
<1> QED
  BY <1>1 DEF STable, SRow, locks, gate

(* POST /sleep outside the condition.                                      *)
LEMMA SleepTable ==
  ASSUME IInv, NEW s \in Sleepers,
         \/ Announce(s) \/ AnnounceFails(s) \/ TakeSleepLease(s) \/ ContainmentExpires(s)
         \/ ValidateAsleep(s) \/ AllAsleep(s) \/ SleepCheck(s) \/ SleepPost(s) \/ SleepPoll(s)
  PROVE  STable(s)
<1> USE DEF IInv, TypeOK
<1>1. CASE Announce(s)
  <2>1. Frame(s) /\ pc'[s] = "sleepLease"
    BY <1>1, MoveFrame DEF Announce
  <2> QED
    BY <1>1, <2>1 DEF Announce, STable, SRow, SWork, Steps, locks, gate, locals
<1>2. CASE AnnounceFails(s)
  BY <1>2, SleeperWorkTable DEF AnnounceFails, SWork, Steps, locks, owner, gate, locals
<1>3. CASE TakeSleepLease(s)
  <2>1. Frame(s) /\ pc'[s] = IF target[s] = None THEN "validate" ELSE "sleepCheck"
    BY <1>3, GoFrame DEF TakeSleepLease
  <2>2. SWork(s)
    BY <1>3, <2>1 DEF TakeSleepLease, SWork, Steps, owner, gate
  <2> QED
    BY <1>3, <2>1, <2>2 DEF TakeSleepLease, STable, SRow, gate
<1>4. CASE ContainmentExpires(s)
  <2>1. pc[s] \in SleepingSteps \cup {"sleepLease"}
    BY <1>4 DEF ContainmentExpires, SleepingSteps
  <2> QED
    BY <1>4, <2>1, LeaveTable DEF ContainmentExpires
<1>5. CASE ValidateAsleep(s)
  <2>0. pc[s] = "validate" /\ "validate" \in SleepingSteps
    BY <1>5 DEF ValidateAsleep, SleepingSteps
  <2>1. CASE LeaveFor(s, "abort") /\ UNCHANGED engine
    BY <2>0, <2>1, LeaveTable
  <2>2. CASE \E m \in todo[s] :
               /\ todo' = [todo EXCEPT ![s] = @ \ {m}]
               /\ UNCHANGED <<engine, locks, owner, gate, mode, pc, target, probe, expired, op>>
    <3>1. Frame(s) /\ pc'[s] = pc[s]
      BY <2>2, VisitFrame
    <3> QED
      BY <2>0, <2>2, <3>1 DEF STable, SRow, SWork, Steps, locks, owner, gate
  <2> QED
    BY <1>5, <2>1, <2>2 DEF ValidateAsleep
<1>6. CASE AllAsleep(s)
  BY <1>6, LeaveTable DEF AllAsleep
<1>7. CASE SleepCheck(s)
  <2>0. pc[s] = "sleepCheck" /\ "sleepCheck" \in SleepingSteps /\ UNCHANGED engine
    BY <1>7 DEF SleepCheck, SleepingSteps
  <2>1. PICK answer \in SleepState(target[s]) :
          \/ answer = "asleep" /\ LeaveFor(s, "commit")
          \/ Go(s, "sleepPost") /\ UNCHANGED <<locks, owner, gate, mode, locals>>
          \/ LeaveFor(s, "abort")
    BY <1>7 DEF SleepCheck
  <2>2. answer = "asleep" => Asleep(target[s])
    BY DEF SleepState, Asleep
  <2>3. CASE Go(s, "sleepPost") /\ UNCHANGED <<locks, owner, gate, mode, locals>>
    BY <2>0, <2>3, SleeperWorkTable DEF SWork, Steps, locks, owner, gate, locals
  <2> QED
    BY <2>0, <2>1, <2>2, <2>3, LeaveTable
<1>8. CASE SleepPost(s)
  <2>0. pc[s] = "sleepPost" /\ "sleepPost" \in SleepingSteps
    BY <1>8 DEF SleepPost, SleepingSteps
  <2>1. CASE SleepFails(target[s]) /\ LeaveFor(s, "abort")
    BY <2>0, <2>1, LeaveTable DEF SleepFails
  <2>2. CASE FallAsleep(target[s]) /\ Go(s, "sleepPoll")
             /\ UNCHANGED <<locks, owner, gate, mode, locals>>
    BY <2>0, <2>2, SleeperWorkTable DEF SWork, Steps, locks, owner, gate, locals
  <2> QED
    BY <1>8, <2>1, <2>2 DEF SleepPost
<1>9. CASE SleepPoll(s)
  <2>1. "sleepPoll" \in SleepingSteps
    BY DEF SleepingSteps
  <2>2. "asleep" \in SleepState(target[s]) => Asleep(target[s])
    BY DEF SleepState, Asleep
  <2> QED
    BY <1>9, <2>1, <2>2, LeaveTable DEF SleepPoll
<1> QED
  BY <1>1, <1>2, <1>3, <1>4, <1>5, <1>6, <1>7, <1>8, <1>9

(* POST /sleep back under the condition.                                   *)
LEMMA EndTable ==
  ASSUME IInv, NEW s \in Sleepers, CommitSleep(s) \/ AbortSleep(s) \/ EndUnpublished(s)
  PROVE  STable(s)
<1> USE DEF IInv, TypeOK
<1>1. Frame(s) /\ pc'[s] \in Resting
  BY ReturnFrame DEF CommitSleep, AbortSleep, EndSleep, EndUnpublished
<1>2. CASE CommitSleep(s) \/ AbortSleep(s)
  <2>1. published'.phase \in {"idle", "unknown"}
    BY <1>2 DEF CommitSleep, AbortSleep, ClearOwner, MarkUnknown, Record
  <2>2. /\ condition = None /\ quiescing' = FALSE /\ Frees(s) /\ ready' = FALSE
        /\ UNCHANGED <<engine, condition, lease, starting, pending, inflight, mode>>
    BY <1>2 DEF CommitSleep, AbortSleep, EndSleep, ClearOwner, MarkUnknown, FreeSleepLock, Frees
  <2>3. \/ /\ pc[s] = "commit" /\ lifecycle' = "sleeping"
           /\ active' = IF target[s] = None THEN active ELSE None
        \/ pc[s] = "abort" /\ lifecycle' = "unknown" /\ UNCHANGED active
    BY <1>2 DEF CommitSleep, AbortSleep, ClearOwner, MarkUnknown
  <2> QED
    BY <1>1, <2>1, <2>2, <2>3 DEF SEnd, Steps, STable, SRow
<1>3. CASE EndUnpublished(s)
  <2>1. quiescing' \in {quiescing, FALSE}
    <3>1. CASE target[s] = None
      BY <1>3, <3>1 DEF EndUnpublished
    <3>2. CASE target[s] # None
      BY <1>3, <3>2 DEF EndUnpublished, GateTypes
    <3> QED
      BY <3>1, <3>2
  <2> QED
    BY <1>1, <1>3, <2>1 DEF EndUnpublished, FreeSleepLock, SEnd, Frees, Steps, STable, SRow
<1> QED
  BY <1>2, <1>3

(* Every step of a POST /sleep is in the table.                            *)
LEMMA SleeperTable ==
  ASSUME IInv, NEW s \in Sleepers, Sleeper(s)
  PROVE  STable(s)
BY DrainTable, SleepTable, EndTable DEF Sleeper, SleeperStep

-----------------------------------------------------------------------------
(* A startup operation up to its announcement.                             *)
LEMMA BeginTable ==
  ASSUME IInv, NEW c \in Controllers, ControlCall(c) \/ TakeOpLease(c) \/ OpBegin(c)
  PROVE  CTable(c)
<1> USE DEF IInv, TypeOK
<1>1. CASE ControlCall(c)
  <2>1. pc'[c] = "opLease" /\ Others(c) /\ op'[c] \in Ops
    BY <1>1, GoMoves DEF ControlCall, Others, Moves, LocalTypes
  <2>2. Frame(c)
    BY <1>1, <2>1 DEF ControlCall, Frame
  <2>3. CCall(c)
    BY <1>1, <2>1 DEF ControlCall, CCall, Steps, locks
  <2> QED
    BY <1>1, <2>2, <2>3 DEF ControlCall, CTable, CRow, locks, gate
<1>2. CASE TakeOpLease(c)
  <2>1. Frame(c) /\ pc'[c] = "opBegin"
    BY <1>2, MoveFrame DEF TakeOpLease
  <2> QED
    BY <1>2, <2>1 DEF TakeOpLease, CTable, CRow, CTake, Steps, gate, locals
<1>3. CASE OpBegin(c)
  <2>1. CASE OpRefused(c)
    <3>1. Frame(c) /\ pc'[c] \in Resting
      BY <1>3, <2>1, ReturnFrame DEF OpBegin
    <3>2. CRefuse(c)
      BY <1>3, <2>1, <3>1 DEF OpBegin, CRefuse, Steps, owner
    <3> QED
      BY <1>3, <3>1, <3>2 DEF OpBegin, CTable, CRow, gate
  <2>2. CASE ~OpRefused(c)
    <3>1. Frame(c) /\ pc'[c] = "opCheck"
      BY <1>3, <2>2, GoFrame DEF OpBegin
    <3>2. todo'[c] = IF op[c] = "sleep" THEN {target[c]} ELSE Models
      BY <1>3, <2>2 DEF OpBegin, LocalTypes
    <3>3. CBegin(c)
      BY <1>3, <2>2, <3>1, <3>2 DEF OpBegin, CBegin, Steps
    <3> QED
      BY <1>3, <3>1, <3>3 DEF OpBegin, CTable, CRow, gate
  <2> QED
    BY <2>1, <2>2
<1> QED
  BY <1>1, <1>2, <1>3

(* A startup operation in its loop.                                        *)
LEMMA LoopTable ==
  ASSUME IInv, NEW c \in Controllers, OpCheck(c) \/ OpSleep(c) \/ OpPoll(c) \/ OpListed(c)
  PROVE  CTable(c)
<1> USE DEF IInv, TypeOK
<1>1. ASSUME Frame(c), CLoop(c), UNCHANGED <<locks, gate>>
      PROVE  CTable(c)
  BY <1>1 DEF CTable, CRow, locks, gate
<1>2. ASSUME OpFails(c), pc[c] \in {"opCheck", "opSleep", "opPoll"},
             UNCHANGED engine \/ (pc[c] = "opSleep" /\ Faults /\ FallAsleep(probe[c])),
             UNCHANGED <<locks, owner, gate, mode>>
      PROVE  CTable(c)
  <2>1. Frame(c) /\ pc'[c] = "opFinally"
    BY <1>2, MoveFrame DEF OpFails
  <2>2. CLoop(c)
    BY <1>2, <2>1 DEF OpFails, CLoop, Steps, locks, locals
  <2> QED
    BY <1>1, <1>2, <2>1, <2>2
<1>3. CASE OpCheck(c)
  <2>0. pc[c] = "opCheck" /\ UNCHANGED <<engine, locks, owner, gate, mode>>
    BY <1>3 DEF OpCheck
  <2>1. PICK m \in todo[c] :
          \/ /\ probe' = [probe EXCEPT ![c] = m]
             /\ Go(c, "opPoll") \/ Go(c, "opSleep")
             /\ UNCHANGED <<target, todo, expired, op>>
          \/ /\ Asleep(m)
             /\ todo' = [todo EXCEPT ![c] = @ \ {m}]
             /\ UNCHANGED <<pc, target, probe, expired, op>>
          \/ /\ op[c] = "adopt" /\ target[c] = None
             /\ target' = [target EXCEPT ![c] = m]
             /\ todo' = [todo EXCEPT ![c] = @ \ {m}]
             /\ UNCHANGED <<pc, probe, expired, op>>
          \/ OpFails(c)
    BY <1>3 DEF OpCheck, SleepState, Asleep
  <2>2. CASE /\ probe' = [probe EXCEPT ![c] = m]
             /\ Go(c, "opPoll") \/ Go(c, "opSleep")
             /\ UNCHANGED <<target, todo, expired, op>>
    <3>1. Frame(c) /\ pc'[c] \in {"opPoll", "opSleep"}
      BY <2>2, GoFrame
    <3>2. CLoop(c)
      BY <2>0, <2>2, <3>1 DEF CLoop, Steps, locks
    <3> QED
      BY <1>1, <2>0, <3>1, <3>2
  <2>3. CASE /\ Asleep(m)
             /\ todo' = [todo EXCEPT ![c] = @ \ {m}]
             /\ UNCHANGED <<pc, target, probe, expired, op>>
    <3>1. Frame(c) /\ pc'[c] = pc[c] /\ todo'[c] = todo[c] \ {m}
      BY <2>3, VisitFrame
    <3>2. CLoop(c)
      BY <2>0, <2>3, <3>1 DEF CLoop, Steps, locks
    <3> QED
      BY <1>1, <2>0, <3>1, <3>2
  <2>4. CASE /\ op[c] = "adopt" /\ target[c] = None
             /\ target' = [target EXCEPT ![c] = m]
             /\ todo' = [todo EXCEPT ![c] = @ \ {m}]
             /\ UNCHANGED <<pc, probe, expired, op>>
    <3>1. /\ todo'[c] = todo[c] \ {m} /\ target'[c] = m
          /\ \A u \in Threads \ {c} : todo'[u] = todo[u] /\ target'[u] = target[u]
      BY <2>4 DEF LocalTypes
    <3>2. Frame(c)
      BY <2>4, <3>1 DEF Frame, Others
    <3>3. CLoop(c)
      BY <2>0, <2>4, <3>1 DEF CLoop, Steps, locks
    <3> QED
      BY <1>1, <2>0, <3>2, <3>3
  <2> QED
    BY <1>2, <2>0, <2>1, <2>2, <2>3, <2>4
<1>4. CASE OpSleep(c)
  <2>0. pc[c] = "opSleep" /\ UNCHANGED <<locks, owner, gate, mode>>
    BY <1>4 DEF OpSleep
  <2>1. CASE SleepFails(probe[c]) /\ OpFails(c)
    BY <1>2, <2>0, <2>1 DEF SleepFails
  <2>2. CASE FallAsleep(probe[c]) /\ Go(c, "opPoll") /\ UNCHANGED locals
    <3>1. Frame(c) /\ pc'[c] = "opPoll"
      BY <2>2, MoveFrame
    <3>2. CLoop(c)
      BY <2>0, <2>2, <3>1 DEF CLoop, Steps, locks, locals
    <3> QED
      BY <1>1, <2>0, <3>1, <3>2
  <2> QED
    BY <1>4, <2>1, <2>2 DEF OpSleep
<1>5. CASE OpPoll(c)
  <2>0. pc[c] = "opPoll" /\ UNCHANGED <<engine, locks, owner, gate, mode>>
    BY <1>5 DEF OpPoll
  <2>1. CASE /\ "asleep" \in SleepState(probe[c])
             /\ todo' = [todo EXCEPT ![c] = @ \ {probe[c]}]
             /\ probe' = [probe EXCEPT ![c] = None]
             /\ Go(c, "opCheck")
             /\ UNCHANGED <<target, expired, op>>
    <3>1. Frame(c) /\ pc'[c] = "opCheck"
      BY <2>1, GoFrame
    <3>2. Asleep(probe[c]) /\ todo'[c] = todo[c] \ {probe[c]}
      BY <2>1 DEF SleepState, Asleep, LocalTypes
    <3>3. CLoop(c)
      BY <2>0, <2>1, <3>1, <3>2 DEF CLoop, Steps, locks
    <3> QED
      BY <1>1, <2>0, <3>1, <3>3
  <2> QED
    BY <1>2, <1>5, <2>0, <2>1 DEF OpPoll
<1>6. CASE OpListed(c)
  <2>1. CASE OpFails(c)
    BY <1>2, <1>6, <2>1 DEF OpListed
  <2>2. CASE Go(c, "opAdopt") /\ UNCHANGED locals
    <3>1. Frame(c) /\ pc'[c] = "opAdopt"
      BY <2>2, MoveFrame
    <3>2. CLoop(c)
      BY <1>6, <2>2, <3>1 DEF OpListed, CLoop, Steps, locks, locals
    <3> QED
      BY <1>1, <1>6, <3>1, <3>2 DEF OpListed
  <2> QED
    BY <1>6, <2>1, <2>2 DEF OpListed
<1> QED
  BY <1>3, <1>4, <1>5, <1>6

(* A startup operation that records its result, and ends.                  *)
LEMMA CommitTable ==
  ASSUME IInv, NEW c \in Controllers,
         \/ CommitOpSleep(c) \/ CommitFinalize(c) \/ CommitAdopt(c)
         \/ OpFinally(c) \/ Reconciled(c)
  PROVE  CTable(c)
<1> USE DEF IInv, TypeOK
<1>1. CASE CommitOpSleep(c) \/ CommitFinalize(c) \/ CommitAdopt(c)
  <2>1. Frame(c) /\ pc'[c] = "opFinally"
    BY <1>1, MoveFrame DEF CommitOpSleep, CommitFinalize, CommitAdopt
  <2>2. CCommit(c)
    BY <1>1, <2>1
       DEF CommitOpSleep, CommitFinalize, CommitAdopt, CCommit, Steps, locks, mode, locals
  <2> QED
    BY <1>1, <2>1, <2>2
       DEF CommitOpSleep, CommitFinalize, CommitAdopt, CTable, CRow, locks, gate
<1>2. CASE OpFinally(c) \/ Reconciled(c)
  <2>1. Frame(c) /\ pc'[c] \in Resting
    BY <1>2, ReturnFrame DEF OpFinally, Reconciled, EndOp
  <2>2. condition \in {None, c}
    <3>1. CASE Reconciled(c)
      BY <3>1 DEF Reconciled, LocksHeld, HoldsCondition, OpSteps
    <3> QED
      BY <1>2, <3>1 DEF OpFinally
  <2>3. CEnd(c)
    BY <1>2, <2>1, <2>2 DEF OpFinally, Reconciled, EndOp, CEnd, Steps
  <2> QED
    BY <1>2, <2>1, <2>3 DEF OpFinally, Reconciled, EndOp, CTable, CRow, gate
<1> QED
  BY <1>1, <1>2

(* Every step of a startup operation is in the table.                      *)
LEMMA ControllerTable ==
  ASSUME IInv, NEW c \in Controllers, Controller(c)
  PROVE  CTable(c)
BY BeginTable, LoopTable, CommitTable DEF Controller, ControllerStep

(* Every step is in the table, an engine's, or a crash.                    *)
LEMMA NextInTable ==
  ASSUME IInv, Next
  PROVE  \/ \E r \in Requests : RTable(r) /\ Orderly(r)
         \/ \E s \in Sleepers : STable(s) /\ Orderly(s)
         \/ \E c \in Controllers : CTable(c) /\ Orderly(c)
         \/ \E m \in Models : EngineSettles(m)
         \/ Crash
<1>1. IInv'
  BY StepKeepsIInv
<1> QED
  BY <1>1, RequestTable, RequestOrderly, SleeperTable, SleeperStepOrderly, ControllerTable,
     ControllerStepOrderly DEF Next, IInv

-----------------------------------------------------------------------------
(* The locks and the quiescence have owners at the places that hold them.  *)
SleepHolding == {"enter", "waiting", "resume"} \cup SleepSteps

OneSleeper == \A s \in Sleepers : pc[s] \in SleepHolding => sleepLock = s

LocksOwned ==
  /\ condition # None => condition \in Threads /\ HoldsCondition(condition)
  /\ lease # None => lease \in Threads /\ HoldsLease(lease)
  /\ sleepLock # None => sleepLock \in Sleepers /\ pc[sleepLock] \in SleepHolding

Quiesced == \A s \in Sleepers : pc[s] \in SleepSteps => quiescing /\ inflight = 0

QuiescenceOwned ==
  ~DiskFaults /\ quiescing =>
    \E s \in Sleepers : pc[s] \in {"waiting", "resume"} \cup SleepSteps

(* A request at work is past the gate and has its model.                   *)
AtWork == \A r \in Requests : pc[r] \notin Resting => Up /\ target[r] \in Models

(* Outside bootstrap mode the reconciliation is alone, and over before the *)
(* listener is bound.                                                      *)
Modes ==
  /\ \A c \in Controllers : pc[c] \notin Resting => op[c] \in Ops
  /\ Bootstrap => listening
  /\ ~Bootstrap =>
       /\ finalized
       /\ listening => \A c \in Controllers : pc[c] \in Resting
       /\ ~listening => \A t \in Requests \cup Sleepers : pc[t] \in Resting
       /\ \A c, d \in Controllers : c # d => pc[c] \in Resting \/ pc[d] \in Resting

HoldInv ==
  OneSleeper /\ LocksOwned /\ Quiesced /\ QuiescenceOwned /\ AtWork /\ Modes

(* The sleep lock follows the places that hold it.                         *)
LEMMA SleepLockMoves ==
  ASSUME NEW s \in Sleepers, SRow(s)
  PROVE  \/ sleepLock' = sleepLock /\ (pc'[s] \in SleepHolding <=> pc[s] \in SleepHolding)
         \/ sleepLock = None /\ sleepLock' = s /\ pc'[s] \in SleepHolding
         \/ Frees(s) /\ pc'[s] \in Resting
<1>0. SleepHolding = {"enter", "waiting", "resume", "announce", "sleepLease", "commit",
                      "abort", "validate", "sleepCheck", "sleepPost", "sleepPoll"}
  BY DEF SleepHolding, SleepSteps, SleepingSteps
<1>1. CASE SQueue(s) \/ SWait(s) \/ SGiveUp(s)
  BY <1>0, <1>1 DEF SQueue, SWait, SGiveUp, Steps, Resting
<1>2. CASE SDrained(s) \/ SWork(s)
  BY <1>0, <1>2 DEF SDrained, SWork, Steps, SleepingSteps
<1>3. CASE SEnd(s)
  BY <1>3 DEF SEnd, Steps
<1> QED
  BY <1>1, <1>2, <1>3 DEF SRow

(* A sleeper's step leaves the sleep lock with its owner,                  *)
LEMMA OneSleeperStep ==
  ASSUME OneSleeper, LocksOwned, NEW s \in Sleepers, STable(s)
  PROVE  OneSleeper' /\ (sleepLock' # None => sleepLock' \in Sleepers /\ pc'[sleepLock'] \in SleepHolding)
<1>0. /\ {"waiting", "resume"} \subseteq SleepHolding
      /\ Resting \cap SleepHolding = {}
      /\ None \notin Threads
  BY ManagerAssumption DEF SleepHolding, SleepSteps, SleepingSteps, Resting
<1>1. \A u \in Sleepers \ {s} : pc'[u] \in SleepHolding <=> pc[u] \in SleepHolding
  BY <1>0 DEF STable, Frame, Others
<1>2. pc[s] \in SleepHolding => sleepLock = s
  BY DEF OneSleeper
<1> QED
  BY <1>0, <1>1, <1>2, SleepLockMoves DEF STable, OneSleeper, LocksOwned, Frees

(* and the quiescence on until it is over.                                 *)
LEMMA QuiescedStep ==
  ASSUME OneSleeper, Quiesced, QuiescenceOwned, NEW s \in Sleepers, STable(s)
  PROVE  Quiesced' /\ QuiescenceOwned'
<1>0. /\ {"waiting", "resume"} \cap SleepSteps = {} /\ SleepSteps \subseteq SleepHolding
      /\ SleepSteps = {"announce", "sleepLease", "commit", "abort", "validate", "sleepCheck",
                       "sleepPost", "sleepPoll"}
      /\ {"enter", "waiting", "resume"} \subseteq SleepHolding
  BY DEF SleepSteps, SleepingSteps, SleepHolding
<1>1. \A u \in Sleepers \ {s} : pc'[u] \in SleepSteps <=> pc[u] \in SleepSteps
  BY <1>0 DEF STable, Frame, Others
<1>2. \A u \in Sleepers \ {s} : pc[u] \in {"waiting", "resume"} \cup SleepSteps =>
                                 pc'[u] \in {"waiting", "resume"} \cup SleepSteps
  BY <1>0 DEF STable, Frame, Others
<1>3. \A u \in Sleepers \ {s} : pc[s] \in SleepHolding => pc[u] \notin SleepHolding
  BY DEF OneSleeper
<1>4. UNCHANGED inflight
  BY DEF STable
<1> DEFINE Rests == pc[s] \in {"waiting", "resume"} \cup SleepSteps
<1>5. CASE SQueue(s) \/ SWait(s)
  <2>1. /\ pc'[s] \notin SleepSteps
        /\ \/ UNCHANGED quiescing /\ (Rests => pc'[s] \in {"waiting", "resume"})
           \/ quiescing' = TRUE /\ pc'[s] = "waiting"
    BY <1>0, <1>5 DEF SQueue, SWait, Steps, Resting
  <2> QED
    BY <1>1, <1>2, <1>4, <2>1 DEF Quiesced, QuiescenceOwned
<1>6. CASE SGiveUp(s)
  <2>1. /\ pc'[s] \notin SleepSteps /\ pc[s] \in SleepHolding
        /\ quiescing' = FALSE \/ (UNCHANGED quiescing /\ ~Rests)
    BY <1>0, <1>6 DEF SGiveUp, Steps, Resting
  <2> QED
    BY <1>0, <1>1, <1>2, <1>3, <2>1 DEF Quiesced, QuiescenceOwned
<1>7. CASE SDrained(s)
  <2>1. pc'[s] \in SleepSteps /\ inflight = 0 /\ quiescing' = TRUE
    BY <1>0, <1>7 DEF SDrained, Steps
  <2> QED
    BY <1>0, <1>1, <1>4, <2>1 DEF Quiesced, QuiescenceOwned
<1>8. CASE SWork(s)
  <2>1. pc[s] \in SleepSteps /\ pc'[s] \in SleepSteps /\ UNCHANGED quiescing
    BY <1>0, <1>8 DEF SWork, Steps, SleepingSteps
  <2> QED
    BY <1>0, <1>1, <1>4, <2>1 DEF Quiesced, QuiescenceOwned
<1>9. CASE SEnd(s)
  <2>1. /\ pc[s] \in SleepSteps /\ pc'[s] \notin SleepSteps
        /\ DiskFaults \/ quiescing' = FALSE
    BY <1>0, <1>9 DEF SEnd, Steps, Resting
  <2> QED
    BY <1>0, <1>1, <1>3, <2>1 DEF Quiesced, QuiescenceOwned
<1> QED
  BY <1>5, <1>6, <1>7, <1>8, <1>9 DEF STable, SRow

(* A lock that a step leaves held is held by a thread that owns it.        *)
LEMMA LockOwnersStep ==
  ASSUME LocksOwned, NEW t \in Threads, Orderly(t),
         condition' = t => HoldsCondition(t)',
         lease' = t => HoldsLease(t)'
  PROVE  /\ condition' # None => condition' \in Threads /\ HoldsCondition(condition)'
         /\ lease' # None => lease' \in Threads /\ HoldsLease(lease)'
<1>1. ASSUME NEW u \in Threads \ {t}
      PROVE  /\ HoldsCondition(u) => HoldsCondition(u)'
             /\ HoldsLease(u) => HoldsLease(u)'
  <2>1. /\ pc'[u] = pc[u] \/ pc[u] = "waiting"
        /\ op'[u] = op[u]
    BY DEF Orderly
  <2>2. CASE pc'[u] = pc[u]
    BY <2>1, <2>2 DEF HoldsCondition, HoldsLease
  <2>3. CASE pc[u] = "waiting"
    BY <2>3, WaitersHoldNothing DEF HoldsCondition, HoldsLease
  <2> QED
    BY <2>1, <2>2, <2>3
<1>2. condition' # None => condition' \in Threads /\ HoldsCondition(condition)'
  <2> SUFFICES ASSUME condition' # None, condition' # t
               PROVE  condition' \in Threads /\ HoldsCondition(condition)'
    OBVIOUS
  <2>1. condition' = condition
    BY DEF Orderly, LocksOrderly
  <2>2. condition \in Threads \ {t} /\ HoldsCondition(condition)
    BY <2>1 DEF LocksOwned
  <2>3. HoldsCondition(condition)'
    <3>1. PICK u \in Threads \ {t} : u = condition
      BY <2>2
    <3>2. HoldsCondition(u)'
      BY <1>1, <2>2, <3>1
    <3> QED
      BY <2>1, <3>1, <3>2 DEF HoldsCondition
  <2> QED
    BY <2>1, <2>2, <2>3
<1>3. lease' # None => lease' \in Threads /\ HoldsLease(lease)'
  <2> SUFFICES ASSUME lease' # None, lease' # t
               PROVE  lease' \in Threads /\ HoldsLease(lease)'
    OBVIOUS
  <2>1. lease' = lease
    BY DEF Orderly, LocksOrderly
  <2>2. lease \in Threads \ {t} /\ HoldsLease(lease)
    BY <2>1 DEF LocksOwned
  <2>3. HoldsLease(lease)'
    <3>1. PICK u \in Threads \ {t} : u = lease
      BY <2>2
    <3>2. HoldsLease(u)'
      BY <1>1, <2>2, <3>1
    <3> QED
      BY <2>1, <3>1, <3>2 DEF HoldsLease
  <2> QED
    BY <2>1, <2>2, <2>3
<1> QED
  BY <1>2, <1>3

(* The places of a request.                                                *)
LEMMA RequestPlaces ==
  /\ StartupSteps = OldSteps \cup PeerSteps \cup OwnSteps
  /\ Activating = {"ownerCheck", "ownerPeers"} \cup StartupSteps
  /\ Acquiring = {"lease", "admit"} \cup Activating
  /\ OwnSteps = {"weights", "reload", "kvCache", "mmCache", "leaveSleep", "readiness",
                 "undoCheck", "undoSleep", "undoWait"}
  /\ (Outside \cup Serving) \cap (Acquiring \cup OpSteps \cup SleepingSteps) = {}
  /\ Acquiring \cap (OpSteps \cup SleepingSteps) = {}
  /\ {"lease", "admit"} \cap Activating = {}
  /\ {"ownerCheck", "ownerPeers"} \cap StartupSteps = {}
BY DEF StartupSteps, OldSteps, PeerSteps, OwnSteps, Woken, UndoSteps, Activating, Acquiring,
       Outside, Serving, OpSteps, SleepingSteps

(* A request's step leaves it a lock only at a place that holds it.        *)
LEMMA RequestOwnsLocks ==
  ASSUME LocksOwned, NEW r \in Requests, RRow(r)
  PROVE  /\ condition' = r => HoldsCondition(r)'
         /\ lease' = r => HoldsLease(r)'
<1> USE RequestPlaces
<1>0. r # None /\ Resting \subseteq Outside
  BY ManagerAssumption DEF Resting, Outside
<1>1. /\ pc[r] \in Outside \cup Serving => condition # r /\ lease # r
      /\ pc[r] \in {"lease", "admit"} => lease # r
  BY <1>0 DEF LocksOwned, HoldsCondition, HoldsLease
<1>2. CASE RQueue(r) \/ RServe(r)
  BY <1>0, <1>1, <1>2 DEF RQueue, RServe, Steps, Serving
<1>3. CASE RPass(r)
  BY <1>0, <1>1, <1>3 DEF RPass, Steps, HoldsCondition, Outside
<1>4. CASE ROwner(r) \/ RStart(r)
  BY <1>4 DEF ROwner, RStart, Steps, HoldsCondition, HoldsLease, OldSteps, PeerSteps
<1>5. CASE ROwnerLost(r) \/ RStartLost(r) \/ RAsleep(r)
  BY <1>0, <1>5 DEF ROwnerLost, RStartLost, RAsleep, Lost, LeaveLease
<1>6. CASE RReady(r) \/ RAdmit(r)
  BY <1>0, <1>1, <1>6 DEF RReady, RAdmit, Steps, LeaveLease, HoldsCondition
<1>7. CASE RForget(r) \/ RRemember(r)
  BY <1>7 DEF RForget, RRemember, Steps, HoldsCondition, HoldsLease, OldSteps, PeerSteps
<1>8. CASE RWork(r)
  <2>1. pc'[r] \in StartupSteps
    BY <1>8 DEF RWork, Steps, OldSteps, PeerSteps, Woken
  <2> QED
    BY <2>1 DEF HoldsCondition, HoldsLease
<1> QED
  BY <1>2, <1>3, <1>4, <1>5, <1>6, <1>7, <1>8 DEF RRow

(* The same of a sleeper,                                                  *)
LEMMA SleeperOwnsLocks ==
  ASSUME PcTypes, LocksOwned, NEW s \in Sleepers, STable(s)
  PROVE  /\ condition' = s => HoldsCondition(s)'
         /\ lease' = s => HoldsLease(s)'
<1>0. /\ SleepingSteps = {"validate", "sleepCheck", "sleepPost", "sleepPoll"}
      /\ SleeperPC \cap (Acquiring \cup Activating \cup OpSteps) = {}
      /\ s # None
  BY ManagerAssumption DEF SleepingSteps, SleeperPC, SleepSteps, Acquiring, Activating, StartupSteps, OpSteps
<1>1. condition # s /\ (pc[s] \notin SleepingSteps => lease # s)
  BY <1>0 DEF PcTypes, LocksOwned, HoldsCondition, HoldsLease
<1>2. lease' = s => pc'[s] \in SleepingSteps
  <2>1. CASE SQueue(s) \/ SWait(s) \/ SGiveUp(s) \/ SDrained(s) \/ SEnd(s)
    BY <1>0, <1>1, <2>1 DEF SQueue, SWait, SGiveUp, SDrained, SEnd, Steps
  <2>2. CASE SWork(s)
    BY <1>0, <1>1, <2>2 DEF SWork, Steps
  <2> QED
    BY <2>1, <2>2 DEF STable, SRow
<1> QED
  BY <1>1, <1>2 DEF STable, HoldsLease

(* and of a startup operation.                                             *)
LEMMA ControllerOwnsLocks ==
  ASSUME IInv, LocksOwned, NEW c \in Controllers, CRow(c)
  PROVE  /\ condition' = c => HoldsCondition(c)'
         /\ lease' = c => HoldsLease(c)'
<1>0. /\ OpSteps = {"opBegin", "opCheck", "opSleep", "opPoll", "opAdopt", "opFinally"}
      /\ ControllerPC \cap (Acquiring \cup Activating \cup SleepingSteps) = {}
      /\ {"idle", "opLease"} \cap OpSteps = {}
      /\ c # None
  BY ManagerAssumption DEF OpSteps, ControllerPC, Acquiring, Activating, StartupSteps, SleepingSteps
<1>1. /\ condition = c => pc[c] \in OpSteps \ {"opBegin"} /\ op[c] = "reconcile"
      /\ lease = c => pc[c] \in OpSteps
  BY <1>0 DEF IInv, TypeOK, PcTypes, LocksOwned, HoldsCondition, HoldsLease
<1>2. CASE CCall(c) \/ CTake(c) \/ CRefuse(c) \/ CEnd(c)
  BY <1>0, <1>1, <1>2 DEF CCall, CTake, CRefuse, CEnd, Steps, HoldsLease
<1>3. CASE CBegin(c) \/ CLoop(c) \/ CCommit(c)
  BY <1>0, <1>1, <1>3 DEF CBegin, CLoop, CCommit, Steps, HoldsCondition, HoldsLease
<1> QED
  BY <1>2, <1>3 DEF CRow

-----------------------------------------------------------------------------
(* A request at work stays past the gate with its model.                   *)
LEMMA AtWorkStep ==
  ASSUME AtWork, NEW t \in Threads, Others(t), Up => Up',
         t \in Requests => RTable(t)
  PROVE  AtWork'
<1> SUFFICES ASSUME NEW r \in Requests, pc'[r] \notin Resting
             PROVE  Up' /\ target'[r] \in Models
  BY DEF AtWork
<1>1. CASE r # t
  BY <1>1 DEF Others, AtWork, Resting
<1>2. CASE r = t
  <2>1. Up' = Up
    BY <1>2 DEF RTable, Up, mode
  <2>2. CASE RQueue(r)
    BY <1>2, <2>1, <2>2 DEF RQueue, AtWork
  <2>3. CASE ~RQueue(r)
    <3>1. pc[r] \notin Resting
      BY <1>2, <2>3
         DEF RTable, RRow, RPass, ROwner, RStart, ROwnerLost, RStartLost, RAsleep, RReady,
           RForget, RRemember, RWork, RAdmit, RServe, Steps, Resting, StartupSteps, Woken,
           UndoSteps
    <3>2. target'[r] = target[r]
      BY <1>2, <2>3
         DEF RTable, RRow, RPass, ROwner, RStart, ROwnerLost, RStartLost, RAsleep, RReady,
           RForget, RRemember, RWork, RAdmit, RServe, Steps, Lost
    <3> QED
      BY <2>1, <3>1, <3>2 DEF AtWork
  <2> QED
    BY <2>2, <2>3
<1> QED
  BY <1>1, <1>2

(* The other startup operations stay where they are.                       *)
LEMMA ControllersStay ==
  ASSUME PcTypes, NEW t \in Threads, Others(t), NEW c \in Controllers, c # t
  PROVE  UNCHANGED <<pc[c], op[c], target[c]>>
<1>1. "waiting" \notin ControllerPC
  BY DEF ControllerPC, OpSteps
<1> QED
  BY <1>1 DEF PcTypes, Others

(* A request or a sleeper at work keeps the process in the mode it is in.  *)
LEMMA ClientModesStep ==
  ASSUME PcTypes, Modes, NEW t \in Requests \cup Sleepers, Others(t), UNCHANGED mode,
         pc'[t] \notin Resting => pc[t] \notin Resting \/ listening
  PROVE  Modes'
<1>1. \A c \in Controllers : UNCHANGED <<pc[c], op[c]>>
  BY ControllersStay, ManagerAssumption
<1>2. \A u \in Requests \cup Sleepers :
        pc'[u] \notin Resting => pc[u] \notin Resting \/ listening
  BY DEF Others, Resting
<1> QED
  BY <1>1, <1>2 DEF Modes, mode

(* A startup operation goes through its mode.                              *)
LEMMA ControllerModesStep ==
  ASSUME IInv, Modes, AtWork, NEW c \in Controllers, CTable(c)
  PROVE  Modes' /\ (Up => Up')
<1>0. /\ OpSteps = {"opBegin", "opCheck", "opSleep", "opPoll", "opAdopt", "opFinally"}
      /\ OpSteps \cap Resting = {} /\ "opLease" \notin Resting /\ "waiting" \notin Resting
      /\ "reconcile" \in Ops => ~Bootstrap
  BY DEF OpSteps, Resting, Ops
<1>1. \A d \in Controllers \ {c} : UNCHANGED <<pc[d], op[d]>>
  BY ControllersStay DEF IInv, TypeOK, CTable, Frame
<1>2. \A u \in Requests \cup Sleepers : pc[u] \in Resting => pc'[u] = pc[u]
  BY <1>0, ManagerAssumption DEF CTable, Frame, Others
<1>3. CASE CCall(c)
  <2>1. pc[c] = "idle" /\ op'[c] \in Ops /\ UNCHANGED mode
    BY <1>3 DEF CCall, Steps
  <2>2. ~Bootstrap => ~listening /\ \A d \in Controllers : pc[d] \in Resting
    BY <1>3 DEF CCall, Resting
  <2> QED
    BY <1>1, <1>2, <2>1, <2>2 DEF Modes, Up, mode
<1>4. CASE ~CCall(c)
  <2>1. /\ pc[c] \notin Resting
        /\ pc'[c] \in Resting \/ op'[c] = op[c]
    BY <1>0, <1>4 DEF CTable, CRow, CTake, CRefuse, CBegin, CLoop, CCommit, CEnd, Steps
  <2>2. ~Bootstrap => ~listening
    BY <2>1 DEF Modes
  <2>3. \/ UNCHANGED <<finalized, listening>>
        \/ UNCHANGED listening /\ finalized' = TRUE
        \/ UNCHANGED finalized /\ listening' = TRUE /\ pc'[c] \in Resting /\ ~Bootstrap
    <3>1. CASE CTake(c) \/ CRefuse(c) \/ CBegin(c) \/ CLoop(c)
      BY <3>1 DEF CTake, CRefuse, CBegin, CLoop, mode
    <3>2. CASE CCommit(c)
      BY <3>2 DEF CCommit
    <3>3. CASE CEnd(c)
      <4>1. op[c] \in Ops
        BY <2>1 DEF Modes
      <4> QED
        BY <1>0, <3>3, <4>1 DEF CEnd, Steps
    <3> QED
      BY <1>4, <3>1, <3>2, <3>3 DEF CTable, CRow
  <2>4. Up => Up'
    BY <2>3 DEF Up
  <2>5. ~Bootstrap =>
          /\ \A d \in Controllers \ {c} : pc'[d] \in Resting
          /\ \A u \in Requests \cup Sleepers : pc'[u] \in Resting
    BY <1>1, <1>2, <2>1, <2>2 DEF Modes
  <2>6. \A d \in Controllers : pc'[d] \notin Resting => op'[d] \in Ops
    BY <1>1, <2>1 DEF Modes
  <2> QED
    BY <2>2, <2>3, <2>4, <2>5, <2>6 DEF Modes
<1> QED
  BY <1>3, <1>4

(* A step of a request or of an operation leaves the sleepers where they   *)
(* are, with their lock and their quiescence.                              *)
LEMMA SleepersStay ==
  ASSUME HoldInv, NEW t \in Threads \ Sleepers, Others(t), UNCHANGED <<sleepLock, quiescing>>,
         quiescing => inflight' <= inflight, InflightCounts', TypeOK'
  PROVE  /\ OneSleeper' /\ Quiesced' /\ QuiescenceOwned'
         /\ sleepLock' # None => sleepLock' \in Sleepers /\ pc'[sleepLock'] \in SleepHolding
<1>0. /\ {"waiting", "resume"} \cap SleepSteps = {}
      /\ {"waiting", "resume"} \cup SleepSteps \subseteq SleepHolding
  BY DEF SleepSteps, SleepingSteps, SleepHolding
<1>1. \A s \in Sleepers :
        /\ pc'[s] \in SleepHolding <=> pc[s] \in SleepHolding
        /\ pc'[s] \in SleepSteps <=> pc[s] \in SleepSteps
        /\ pc'[s] \in {"waiting", "resume"} <=> pc[s] \in {"waiting", "resume"}
  BY <1>0 DEF Others
<1>2. inflight' \in Nat
  BY DEF TypeOK, GateTypes
<1> QED
  BY <1>1, <1>2 DEF HoldInv, OneSleeper, LocksOwned, Quiesced, QuiescenceOwned

(* Every step keeps the locks and the quiescence with their owners.        *)
LEMMA HoldStep ==
  ASSUME IInv, HoldInv, Next
  PROVE  HoldInv'
<1> USE DEF HoldInv
<1>0. IInv'
  BY StepKeepsIInv
<1>1. ASSUME NEW t \in Threads, Orderly(t), quiescing
      PROVE  inflight' <= inflight
  <2>1. pc[t] # "admit"
    BY <1>1, ServingAreRequests DEF IInv, TypeOK, GatesHold, Acquiring
  <2> QED
    BY <1>1, <2>1 DEF Orderly, CountOrderly, IInv, TypeOK, GateTypes
<1>2. ASSUME NEW t \in Threads, Orderly(t),
             condition' = t => HoldsCondition(t)', lease' = t => HoldsLease(t)',
             OneSleeper' /\ Quiesced' /\ QuiescenceOwned',
             sleepLock' # None => sleepLock' \in Sleepers /\ pc'[sleepLock'] \in SleepHolding,
             AtWork', Modes'
      PROVE  HoldInv'
  BY <1>2, LockOwnersStep DEF LocksOwned
<1>3. ASSUME NEW r \in Requests, RTable(r), Orderly(r)
      PROVE  HoldInv'
  <2>1. Others(r) /\ UNCHANGED mode /\ RRow(r) /\ r \notin Sleepers
    BY <1>3, ManagerAssumption DEF RTable, Frame
  <2>2. AtWork'
    BY <1>3, <2>1, AtWorkStep DEF Up, mode
  <2>3. Modes'
    BY <2>1, <2>2, ClientModesStep DEF AtWork, Up, mode, IInv, TypeOK
  <2> QED
    BY <1>0, <1>1, <1>2, <1>3, <2>1, <2>2, <2>3, SleepersStay, RequestOwnsLocks
       DEF RTable, IInv
<1>4. ASSUME NEW s \in Sleepers, STable(s), Orderly(s)
      PROVE  HoldInv'
  <2>1. Others(s) /\ UNCHANGED mode /\ s \notin Requests
    BY <1>4, ManagerAssumption DEF STable, Frame
  <2>2. AtWork'
    BY <2>1, AtWorkStep DEF Up, mode
  <2>3. pc'[s] \notin Resting => pc[s] \notin Resting \/ listening
    BY <1>4 DEF STable, SRow, SQueue, SWait, SGiveUp, SDrained, SWork, SEnd, Steps, Resting,
                SleepingSteps
  <2>4. Modes'
    BY <2>1, <2>3, ClientModesStep DEF IInv, TypeOK
  <2> QED
    BY <1>2, <1>4, <2>2, <2>4, OneSleeperStep, QuiescedStep, SleeperOwnsLocks DEF IInv, TypeOK
<1>5. ASSUME NEW c \in Controllers, CTable(c), Orderly(c)
      PROVE  HoldInv'
  <2>1. Others(c) /\ CRow(c) /\ c \notin Requests \cup Sleepers
    BY <1>5, ManagerAssumption DEF CTable, Frame
  <2>2. Modes' /\ (Up => Up')
    BY <1>5, ControllerModesStep
  <2>3. AtWork'
    BY <2>1, <2>2, AtWorkStep
  <2> QED
    BY <1>0, <1>1, <1>2, <1>5, <2>1, <2>2, <2>3, SleepersStay, ControllerOwnsLocks
       DEF CTable, IInv
<1>6. ASSUME NEW m \in Models, EngineSettles(m)
      PROVE  HoldInv'
  BY <1>6 DEF EngineSettles, locks, gate, mode, locals, OneSleeper, LocksOwned, HoldsCondition,
              HoldsLease, Quiesced, QuiescenceOwned, AtWork, Up, Modes
<1>7. CASE Crash
  <2>1. /\ \A t \in Threads : pc'[t] = "idle"
        /\ condition' = None /\ lease' = None /\ sleepLock' = None /\ ~quiescing'
        /\ finalized' = ~Bootstrap /\ listening' = Bootstrap
    BY <1>7 DEF Crash, NewProcess
  <2>2. /\ "idle" \notin SleepHolding /\ "idle" \in Resting /\ SleepSteps \subseteq SleepHolding
    BY DEF SleepHolding, SleepSteps, SleepingSteps, Resting
  <2>3. OneSleeper' /\ LocksOwned' /\ Quiesced' /\ QuiescenceOwned' /\ AtWork'
    BY <2>1, <2>2 DEF OneSleeper, LocksOwned, Quiesced, QuiescenceOwned, AtWork
  <2>4. Modes'
    BY <2>1, <2>2, ManagerAssumption DEF Modes
  <2> QED
    BY <2>3, <2>4
<1> QED
  BY <1>3, <1>4, <1>5, <1>6, <1>7, NextInTable

(* Only the start of a process is left: everything is free.                *)
LEMMA InitHoldInv == Init => HoldInv
<1> SUFFICES ASSUME Init PROVE HoldInv
  OBVIOUS
<1>1. /\ \A t \in Threads : pc[t] = "idle"
      /\ condition = None /\ lease = None /\ sleepLock = None /\ ~quiescing
      /\ finalized = ~Bootstrap /\ listening = Bootstrap
  BY DEF Init
<1>2. /\ "idle" \notin SleepHolding /\ "idle" \in Resting /\ SleepSteps \subseteq SleepHolding
  BY DEF SleepHolding, SleepSteps, SleepingSteps, Resting
<1>3. OneSleeper /\ LocksOwned /\ Quiesced /\ QuiescenceOwned /\ AtWork
  BY <1>1, <1>2 DEF OneSleeper, LocksOwned, Quiesced, QuiescenceOwned, AtWork
<1>4. Modes
  BY <1>1, <1>2, ManagerAssumption DEF Modes
<1> QED
  BY <1>3, <1>4 DEF HoldInv

(* What an engine does on its own, or a stuttering step, leaves the proxy. *)
ProxyStays == UNCHANGED <<locks, owner, gate, mode, pc, locals>>

LEMMA StayingHolds ==
  ASSUME HoldInv, ProxyStays
  PROVE  HoldInv'
BY DEF HoldInv, ProxyStays, locks, gate, mode, locals, OneSleeper, LocksOwned, HoldsCondition,
       HoldsLease, Quiesced, QuiescenceOwned, AtWork, Up, Modes

(* A lock or a quiescence that is set has a thread behind it, at a place   *)
(* where it will be released; what a request at work may rely on.          *)
THEOREM Holding == Spec => [](IInv /\ HoldInv)
<1>1. IInv /\ HoldInv /\ [Next]_vars => HoldInv'
  BY HoldStep, StayingHolds DEF vars, ProxyStays
<1> QED
  BY <1>1, Invariance, InitHoldInv, PTL DEF Spec

-----------------------------------------------------------------------------
(* The step of a thread, whichever it is.                                  *)
InTable(t) ==
  /\ Orderly(t)
  /\ t \in Requests => RTable(t)
  /\ t \in Sleepers => STable(t)
  /\ t \in Controllers => CTable(t)

EnginesSettle == UNCHANGED engine \/ \E m \in Models : Settle(m)

LEMMA StepInTable ==
  ASSUME IInv, [Next]_vars
  PROVE  (\E t \in Threads : InTable(t)) \/ (ProxyStays /\ EnginesSettle) \/ Crash
<1>1. CASE UNCHANGED vars
  BY <1>1 DEF vars, ProxyStays, EnginesSettle
<1>2. CASE Next
  <2>1. ASSUME NEW t \in Threads,
               \/ t \in Requests /\ RTable(t) /\ Orderly(t)
               \/ t \in Sleepers /\ STable(t) /\ Orderly(t)
               \/ t \in Controllers /\ CTable(t) /\ Orderly(t)
        PROVE  InTable(t)
    BY <2>1, ManagerAssumption DEF InTable
  <2>2. (\E m \in Models : EngineSettles(m)) => ProxyStays /\ EnginesSettle
    BY DEF EngineSettles, ProxyStays, EnginesSettle
  <2> QED
    BY <1>2, <2>1, <2>2, NextInTable
<1> QED
  BY <1>1, <1>2

(* Whoever takes a step leaves the others where they stood, if they stood  *)
(* anywhere but in a wait.                                                 *)
LEMMA InTableFrame ==
  ASSUME NEW t \in Threads, InTable(t)
  PROVE  Frame(t)
BY DEF InTable, RTable, STable, CTable

(* Only the thread that has the condition, or one that takes it for its    *)
(* step, changes the ownership.                                            *)
LEMMA OwnerFrame ==
  ASSUME IInv, HoldInv, NEW t \in Threads, InTable(t), condition \notin {None, t}
  PROVE  UNCHANGED <<active, ready, lifecycle, starting, published>>
<1>1. CASE t \in Requests
  <2>1. pc[t] \notin Acquiring
    BY DEF IInv, LocksHeld, HoldsCondition
  <2>2. RQueue(t) \/ RPass(t) \/ RServe(t)
    BY <1>1, <2>1, RequestPlaces
       DEF InTable, RTable, RRow, ROwner, RStart, ROwnerLost, RStartLost, RAsleep, RReady,
           RForget, RRemember, RWork, RAdmit, Steps, OldSteps, PeerSteps, Woken, UndoSteps
  <2> QED
    BY <2>2 DEF RQueue, RPass, RServe, owner
<1>2. CASE t \in Sleepers
  <2>1. pc[t] # "announce"
    <3> SUFFICES ASSUME pc[t] = "announce" PROVE FALSE
      OBVIOUS
    <3>1. quiescing /\ pc[t] \notin Resting
      BY <1>2 DEF HoldInv, Quiesced, SleepSteps, Resting
    <3>2. \A r \in Requests : pc[r] \notin Acquiring
      BY <3>1 DEF IInv, GatesHold
    <3>3. condition \in Controllers /\ pc[condition] \in OpSteps /\ op[condition] = "reconcile"
      <4>1. condition \in Threads /\ HoldsCondition(condition)
        BY DEF HoldInv, LocksOwned
      <4>2. pc[condition] \in OpSteps /\ op[condition] = "reconcile"
        BY <3>2, <4>1, ServingAreRequests DEF HoldsCondition, IInv, TypeOK
      <4>3. OpSteps \cap (RequestPC \cup SleeperPC) = {}
        BY DEF OpSteps, RequestPC, SleeperPC, SleepSteps, SleepingSteps, Acquiring, Activating,
               StartupSteps, Serving
      <4> QED
        BY <4>1, <4>2, <4>3 DEF IInv, TypeOK, PcTypes
    <3>4. pc[condition] \notin Resting
      BY <3>3 DEF OpSteps, Resting
    <3>5. op[condition] \in Ops
      BY <3>3, <3>4 DEF HoldInv, Modes
    <3>6. ~Bootstrap
      BY <3>3, <3>5 DEF Ops
    <3> QED
      BY <1>2, <3>1, <3>3, <3>4, <3>6 DEF HoldInv, Modes
  <2> QED
    BY <1>2, <2>1
       DEF InTable, STable, SRow, SQueue, SWait, SGiveUp, SDrained, SWork, SEnd, Steps, owner
<1>3. CASE t \in Controllers
  BY <1>3 DEF InTable, CTable, CRow, CCall, CTake, CRefuse, CBegin, CLoop, CCommit, CEnd, owner
<1> QED
  BY <1>1, <1>2, <1>3

(* What a request that has the condition may rely on while others step.    *)
LEMMA AcquiringFrame ==
  ASSUME IInv, HoldInv, NEW t \in Threads, InTable(t),
         NEW r \in Requests \ {t}, pc'[r] \in Acquiring
  PROVE  /\ pc[r] = pc'[r] /\ target'[r] = target[r]
         /\ UNCHANGED <<active, ready, lifecycle, starting, published>>
<1>1. pc[r] = pc'[r] /\ target'[r] = target[r]
  BY InTableFrame, WaitersHoldNothing DEF Frame, Others
<1>2. condition = r /\ r # None
  BY <1>1, ManagerAssumption DEF IInv, LocksHeld, HoldsCondition
<1> QED
  BY <1>1, <1>2, OwnerFrame

-----------------------------------------------------------------------------
(* An announced start has its thread.                                      *)
Announced == StartupSteps \cup (OpSteps \ {"opBegin"})

StartingHeld == starting # None => \E t \in Threads : pc[t] \in Announced

(* What a request finds cached, and leaves cached, where it stands.        *)
OwnerPlaces ==
  \A r \in Requests :
    /\ pc[r] \in {"ownerCheck", "ownerPeers", "admit"} \cup OwnSteps => active = target[r]
    /\ pc[r] \in PeerSteps => active = None
    /\ pc[r] \in PeerSteps \cup OwnSteps => ~ready
    /\ pc[r] \in OwnSteps => lifecycle = "starting"
    /\ pc[r] \in OldSteps => active \notin {None, target[r]}

ReadyOwned == ready => active # None

(* In bootstrap mode an adoption may change the owner under a sleeper.     *)
SleeperOwner ==
  ~Bootstrap => \A s \in Sleepers : pc[s] \in SleepSteps => target[s] = active

Explicit ==
  /\ lifecycle = "active" <=> ready
  /\ lifecycle = "sleeping" => active = None
  /\ lifecycle = "starting" => Faults /\ active # None

StartsAreExplicit ==
  ~Bootstrap => Explicit \/ \E r \in Requests : pc[r] \in StartupSteps

(* A quiescence that no sleeper is behind has withdrawn the readiness.     *)
StuckUnready ==
  ~Bootstrap /\ quiescing =>
    ~ready \/ \E s \in Sleepers : pc[s] \in {"waiting", "resume"} \cup SleepSteps

OwnerInv ==
  /\ StartingHeld /\ OwnerPlaces /\ ReadyOwned /\ SleeperOwner /\ StartsAreExplicit
  /\ StuckUnready

(* The announcement goes with the place.                                   *)
LEMMA AnnouncedMoves ==
  ASSUME NEW t \in Threads, InTable(t), starting' # None
  PROVE  /\ pc[t] \in Announced => pc'[t] \in Announced
         /\ starting' # starting => pc'[t] \in Announced
<1>0. /\ Announced = {"oldSleep", "oldWait", "peerCheck", "peerSleep", "peerWait", "weights",
                      "reload", "kvCache", "mmCache", "leaveSleep", "readiness", "undoCheck",
                      "undoSleep", "undoWait", "opCheck", "opSleep", "opPoll", "opAdopt",
                      "opFinally"}
      /\ Outside \cap Announced = {} /\ StartupSteps \subseteq Announced
  BY DEF Announced, StartupSteps, OpSteps, Outside
<1>1. CASE t \in Requests
  <2>1. CASE RQueue(t) \/ RPass(t) \/ ROwner(t) \/ ROwnerLost(t) \/ RAdmit(t) \/ RServe(t)
    BY <1>0, <2>1 DEF RQueue, RPass, ROwner, ROwnerLost, RAdmit, RServe, Steps, owner
  <2>2. CASE RStart(t) \/ RForget(t) \/ RRemember(t) \/ RWork(t)
    BY <1>0, <2>2 DEF RStart, RForget, RRemember, RWork, Steps, Woken, UndoSteps, owner
  <2>3. CASE RStartLost(t) \/ RAsleep(t) \/ RReady(t)
    BY <1>0, <2>3 DEF RStartLost, RAsleep, RReady, Steps
  <2> QED
    BY <1>1, <2>1, <2>2, <2>3 DEF InTable, RTable, RRow
<1>2. CASE t \in Sleepers
  BY <1>0, <1>2
     DEF InTable, STable, SRow, SQueue, SWait, SGiveUp, SDrained, SWork, SEnd, Steps,
         SleepingSteps, owner
<1>3. CASE t \in Controllers
  BY <1>0, <1>3
     DEF InTable, CTable, CRow, CCall, CTake, CRefuse, CBegin, CLoop, CCommit, CEnd, Steps, owner
<1> QED
  BY <1>1, <1>2, <1>3

LEMMA StartingHeldStep ==
  ASSUME StartingHeld, NEW t \in Threads, InTable(t)
  PROVE  StartingHeld'
<1> SUFFICES ASSUME starting' # None PROVE \E u \in Threads : pc'[u] \in Announced
  BY DEF StartingHeld
<1>1. \A u \in Threads \ {t} : pc[u] \in Announced => pc'[u] \in Announced
  <2>1. "waiting" \notin Announced
    BY DEF Announced, StartupSteps, OpSteps
  <2> QED
    BY <2>1, InTableFrame DEF Frame, Others
<1> QED
  BY <1>1, AnnouncedMoves DEF StartingHeld

(* A request's own steps keep what it relies on.                           *)
LEMMA OwnPlaceStep ==
  ASSUME IInv, HoldInv, OwnerPlaces, ReadyOwned, NEW r \in Requests, RTable(r)
  PROVE  /\ pc'[r] \in {"ownerCheck", "ownerPeers", "admit"} \cup OwnSteps => active' = target'[r]
         /\ pc'[r] \in PeerSteps => active' = None
         /\ pc'[r] \in PeerSteps \cup OwnSteps => ~ready'
         /\ pc'[r] \in OwnSteps => lifecycle' = "starting"
         /\ pc'[r] \in OldSteps => active' \notin {None, target'[r]}
<1>0. /\ OwnSteps = {"weights", "reload", "kvCache", "mmCache", "leaveSleep", "readiness",
                     "undoCheck", "undoSleep", "undoWait"}
      /\ Woken = {"reload", "kvCache", "mmCache", "leaveSleep", "readiness"}
      /\ UndoSteps = {"undoCheck", "undoSleep", "undoWait"}
      /\ PeerSteps = {"peerCheck", "peerSleep", "peerWait"}
      /\ OldSteps = {"oldSleep", "oldWait"}
      /\ StartupSteps = OldSteps \cup PeerSteps \cup OwnSteps
      /\ Outside \cap ({"ownerCheck", "ownerPeers", "admit", "lease"} \cup StartupSteps) = {}
      /\ Resting \subseteq Outside
  BY RequestPlaces DEF OwnSteps, Woken, UndoSteps, PeerSteps, OldSteps, Outside, StartupSteps, Resting
<1>1. pc[r] \notin Resting => target[r] # None
  BY ManagerAssumption DEF HoldInv, AtWork
<1>2. CASE RQueue(r) \/ RPass(r) \/ RAdmit(r) \/ RServe(r) \/ ROwnerLost(r) \/ RStartLost(r) \/ RAsleep(r)
  BY <1>0, <1>2
     DEF RQueue, RPass, RAdmit, RServe, ROwnerLost, RStartLost, RAsleep, Lost, Steps
<1>3. CASE ROwner(r) \/ RReady(r)
  BY <1>0, <1>3 DEF ROwner, RReady, OwnerPlaces, Steps, owner
<1>4. CASE RStart(r)
  BY <1>0, <1>4 DEF RStart, ReadyOwned, Steps
<1>5. CASE RForget(r) \/ RRemember(r)
  BY <1>0, <1>5 DEF RForget, RRemember, ClearOwner, Steps
<1>6. CASE RWork(r)
  <2>1. pc[r] \notin Resting
    BY <1>6 DEF RWork, Steps, Woken, UndoSteps, StartupSteps, Resting
  <2>2. UNCHANGED <<active, ready, lifecycle, target>>
    BY <1>6 DEF RWork, owner
  <2>3. /\ pc[r] \in StartupSteps /\ pc'[r] \in StartupSteps
        /\ \/ pc[r] \in OldSteps /\ pc'[r] \in OldSteps
           \/ pc[r] \in PeerSteps /\ pc'[r] \in PeerSteps
           \/ pc[r] \in OwnSteps /\ pc'[r] \in OwnSteps
           \/ pc'[r] = "undoCheck" /\ active = target[r]
    BY <1>0, <1>6 DEF RWork, Steps
  <2>4. pc[r] \in OwnSteps \/ pc'[r] # "undoCheck"
    BY <1>0, <1>1, <2>1, <2>3 DEF OwnerPlaces
  <2> QED
    BY <1>0, <2>2, <2>3, <2>4 DEF OwnerPlaces
<1> QED
  BY <1>2, <1>3, <1>4, <1>5, <1>6 DEF RTable, RRow

LEMMA OwnerPlacesStep ==
  ASSUME IInv, HoldInv, OwnerPlaces, ReadyOwned, NEW t \in Threads, InTable(t)
  PROVE  OwnerPlaces'
<1> SUFFICES ASSUME NEW r \in Requests
             PROVE  /\ pc'[r] \in {"ownerCheck", "ownerPeers", "admit"} \cup OwnSteps => active' = target'[r]
                    /\ pc'[r] \in PeerSteps => active' = None
                    /\ pc'[r] \in PeerSteps \cup OwnSteps => ~ready'
                    /\ pc'[r] \in OwnSteps => lifecycle' = "starting"
                    /\ pc'[r] \in OldSteps => active' \notin {None, target'[r]}
  BY DEF OwnerPlaces
<1>1. CASE r = t
  BY <1>1, OwnPlaceStep DEF InTable
<1>2. CASE r # t
  <2>1. {"ownerCheck", "ownerPeers", "admit"} \cup OwnSteps \cup PeerSteps \cup OldSteps
          \subseteq Acquiring
    BY RequestPlaces
  <2> QED
    BY <1>2, <2>1, AcquiringFrame DEF OwnerPlaces
<1> QED
  BY <1>1, <1>2

(* Only a model becomes a ready owner.                                     *)
LEMMA ReadyOwnedStep ==
  ASSUME HoldInv, OwnerPlaces, ReadyOwned, NEW t \in Threads, InTable(t)
  PROVE  ReadyOwned'
<1>1. CASE t \in Requests
  <2>1. CASE RReady(t)
    <3>1. active' = target[t] /\ pc[t] \notin Resting
      BY <1>1, <2>1 DEF RReady, Steps, OwnerPlaces, OwnSteps, Woken, Resting
    <3> QED
      BY <1>1, <3>1, ManagerAssumption DEF HoldInv, AtWork, ReadyOwned
  <2>2. CASE ~RReady(t)
    BY <1>1, <2>2
       DEF InTable, RTable, RRow, RQueue, RPass, ROwner, RStart, ROwnerLost, RStartLost, Lost,
           PublishDemand, RAsleep, ClearOwner, RForget, RRemember, RWork, RAdmit, RServe,
           MarkUnknown, owner, ReadyOwned
  <2> QED
    BY <2>1, <2>2
<1>2. CASE t \in Sleepers
  BY <1>2 DEF InTable, STable, SRow, SQueue, SWait, SGiveUp, SDrained, SWork, SEnd, owner, ReadyOwned
<1>3. CASE t \in Controllers
  BY <1>3
     DEF InTable, CTable, CRow, CCall, CTake, CRefuse, CBegin, CLoop, CCommit, ClearOwner, CEnd,
         owner, ReadyOwned
<1> QED
  BY <1>1, <1>2, <1>3

(* Outside bootstrap mode, nobody but the sleeper changes the owner while  *)
(* it has quiesced the requests.                                           *)
LEMMA QuiescedOwner ==
  ASSUME IInv, HoldInv, ~Bootstrap, NEW t \in Threads, InTable(t),
         NEW s \in Sleepers \ {t}, pc[s] \in SleepSteps
  PROVE  active' = active
<1>0. /\ SleepSteps \cap Resting = {} /\ SleepSteps \subseteq SleepHolding
      /\ SleepSteps = {"announce", "sleepLease", "commit", "abort", "validate", "sleepCheck",
                       "sleepPost", "sleepPoll"}
  BY DEF SleepSteps, SleepingSteps, Resting, SleepHolding
<1>1. CASE t \in Requests
  <2>1. pc[t] \notin Acquiring
    BY <1>1 DEF HoldInv, Quiesced, IInv, GatesHold
  <2>2. RQueue(t) \/ RPass(t) \/ RServe(t)
    BY <1>1, <2>1, RequestPlaces
       DEF InTable, RTable, RRow, ROwner, RStart, ROwnerLost, RStartLost, RAsleep, RReady,
           RForget, RRemember, RWork, RAdmit, Steps, OldSteps, PeerSteps, Woken, UndoSteps
  <2> QED
    BY <2>2 DEF RQueue, RPass, RServe, owner
<1>2. CASE t \in Sleepers
  <2>1. pc[t] \notin SleepSteps
    BY <1>0, <1>2 DEF HoldInv, OneSleeper
  <2> QED
    BY <1>0, <1>2, <2>1
       DEF InTable, STable, SRow, SQueue, SWait, SGiveUp, SDrained, SWork, SEnd, Steps, owner
<1>3. CASE t \in Controllers
  <2>1. listening /\ pc[t] \in Resting
    BY <1>0, <1>3 DEF HoldInv, Modes
  <2> QED
    BY <1>3, <2>1
       DEF InTable, CTable, CRow, CCall, CTake, CRefuse, CBegin, CLoop, CCommit, CEnd, Steps,
           Resting
<1> QED
  BY <1>1, <1>2, <1>3

LEMMA SleeperOwnerStep ==
  ASSUME IInv, HoldInv, SleeperOwner, NEW t \in Threads, InTable(t)
  PROVE  SleeperOwner'
<1> SUFFICES ASSUME ~Bootstrap, NEW s \in Sleepers, pc'[s] \in SleepSteps
             PROVE  target'[s] = active'
  BY DEF SleeperOwner
<1>0. /\ SleepSteps = {"announce", "sleepLease", "commit", "abort", "validate", "sleepCheck",
                       "sleepPost", "sleepPoll"}
      /\ "resume" \notin SleepSteps /\ Resting \cap SleepSteps = {}
  BY DEF SleepSteps, SleepingSteps, Resting
<1>1. CASE s # t
  <2>1. pc[s] \in SleepSteps /\ target'[s] = target[s]
    BY <1>0, <1>1, InTableFrame DEF Frame, Others
  <2> QED
    BY <1>1, <2>1, QuiescedOwner DEF SleeperOwner
<1>2. CASE s = t
  <2>1. SDrained(s) \/ SWork(s)
    BY <1>0, <1>2 DEF InTable, STable, SRow, SQueue, SWait, SGiveUp, SEnd, Steps
  <2>2. CASE SDrained(s)
    BY <2>2 DEF SDrained, owner
  <2>3. CASE SWork(s)
    BY <1>0, <2>3 DEF SWork, Steps, SleepingSteps, SleeperOwner
  <2> QED
    BY <2>1, <2>2, <2>3
<1> QED
  BY <1>1, <1>2

(* A request that ends its start leaves the lifecycle explicit.            *)
LEMMA RequestExplicit ==
  ASSUME HoldInv, OwnerPlaces, NEW r \in Requests, RTable(r),
         Explicit \/ pc[r] \in StartupSteps
  PROVE  Explicit' \/ pc'[r] \in StartupSteps
<1>0. /\ StartupSteps = {"oldSleep", "oldWait", "peerCheck", "peerSleep", "peerWait", "weights",
                         "reload", "kvCache", "mmCache", "leaveSleep", "readiness", "undoCheck",
                         "undoSleep", "undoWait"}
      /\ Outside \cap StartupSteps = {}
  BY DEF StartupSteps, Outside
<1>1. CASE RQueue(r) \/ RPass(r) \/ ROwner(r) \/ RAdmit(r)
  BY <1>0, <1>1 DEF RQueue, RPass, ROwner, RAdmit, Steps, owner, Explicit
<1>2. CASE RStart(r) \/ RForget(r) \/ RRemember(r) \/ RWork(r)
  BY <1>0, <1>2 DEF RStart, RForget, RRemember, RWork, Steps, Woken, UndoSteps
<1>3. CASE RAsleep(r)
  BY <1>3 DEF RAsleep, ClearOwner, Explicit
<1>6. CASE ROwnerLost(r)
  BY <1>0, <1>6 DEF ROwnerLost, Lost, PublishDemand, Explicit
<1>7. CASE RStartLost(r)
  <2>1. pc[r] \in UndoSteps => active = target[r] /\ ~ready /\ lifecycle = "starting"
    BY DEF OwnerPlaces, OwnSteps
  <2>2. pc[r] \in UndoSteps => target[r] # None
    BY ManagerAssumption DEF HoldInv, AtWork, UndoSteps, Resting
  <2> QED
    BY <1>7, <2>1, <2>2 DEF RStartLost, Lost, PublishDemand, Explicit
<1>4. CASE RReady(r)
  BY <1>4 DEF RReady, Explicit
<1>5. CASE RServe(r)
  BY <1>0, <1>5 DEF RServe, Steps, MarkUnknown, owner, Explicit
<1> QED
  BY <1>1, <1>2, <1>3, <1>4, <1>5, <1>6, <1>7 DEF RTable, RRow

LEMMA StartsAreExplicitStep ==
  ASSUME IInv, HoldInv, OwnerInv, NEW t \in Threads, InTable(t)
  PROVE  StartsAreExplicit'
<1> SUFFICES ASSUME ~Bootstrap, \A r \in Requests : pc'[r] \notin StartupSteps
             PROVE  Explicit'
  BY DEF StartsAreExplicit
<1>1. \A r \in Requests \ {t} : pc[r] \notin StartupSteps
  <2>1. "waiting" \notin StartupSteps
    BY DEF StartupSteps
  <2> QED
    BY <2>1, InTableFrame DEF Frame, Others
<1>2. CASE t \in Requests
  BY <1>1, <1>2, RequestExplicit DEF InTable, OwnerInv, StartsAreExplicit
<1>3. CASE t \notin Requests
  <2>1. Explicit
    BY <1>1, <1>3 DEF OwnerInv, StartsAreExplicit
  <2>2. CASE t \in Sleepers
    <3>1. CASE SEnd(t)
      <4>1. pc[t] \in SleepSteps
        BY <3>1 DEF SEnd, Steps, SleepSteps
      <4> QED
        BY <2>2, <3>1, <4>1 DEF SEnd, OwnerInv, SleeperOwner, Explicit
    <3>2. CASE ~SEnd(t)
      BY <2>1, <2>2, <3>2
         DEF InTable, STable, SRow, SQueue, SWait, SGiveUp, SDrained, SWork, owner, Explicit
    <3> QED
      BY <3>1, <3>2
  <2>3. CASE t \in Controllers
    <3>1. ~CCommit(t)
      BY <2>3 DEF CCommit, Steps, HoldInv, Modes, Ops, Resting
    <3> QED
      BY <2>1, <2>3, <3>1
         DEF InTable, CTable, CRow, CCall, CTake, CRefuse, CBegin, CLoop, CEnd, owner, Explicit
  <2> QED
    BY <1>3, <2>2, <2>3
<1> QED
  BY <1>2, <1>3

(* Under a quiescence only the sleeper behind it goes on, and it ends the  *)
(* quiescence or has withdrawn the readiness.                              *)
LEMMA StuckUnreadyStep ==
  ASSUME IInv, HoldInv, OwnerInv, NEW t \in Threads, InTable(t)
  PROVE  StuckUnready'
<1> SUFFICES ASSUME ~Bootstrap, quiescing', ready'
             PROVE  \E s \in Sleepers : pc'[s] \in {"waiting", "resume"} \cup SleepSteps
  BY DEF StuckUnready
<1> DEFINE Behind == {"waiting", "resume"} \cup SleepSteps
<1>0. /\ SleepSteps = {"announce", "sleepLease", "commit", "abort", "validate", "sleepCheck",
                       "sleepPost", "sleepPoll"}
      /\ Resting \cap Behind = {}
  BY DEF SleepSteps, SleepingSteps, Resting
<1>1. \A s \in Sleepers \ {t} : pc[s] \in Behind => pc'[s] \in Behind
  BY InTableFrame DEF Frame, Others
<1>2. CASE t \in Requests
  <2>1. quiescing
    BY <1>2 DEF InTable, RTable
  <2>2. ready
    <3>1. ~RReady(t)
      BY <1>2, <2>1, RequestPlaces DEF RReady, Steps, IInv, GatesHold
    <3> QED
      BY <1>2, <3>1
         DEF InTable, RTable, RRow, RQueue, RPass, ROwner, RStart, ROwnerLost, RStartLost,
             PublishDemand, RAsleep, ClearOwner, RForget, RRemember, RWork, RAdmit, RServe,
             MarkUnknown, owner
  <2> QED
    BY <1>1, <1>2, <2>1, <2>2, ManagerAssumption DEF OwnerInv, StuckUnready
<1>3. CASE t \in Sleepers
  <2>1. ~SEnd(t)
    BY DEF SEnd
  <2>2. CASE SDrained(t) \/ SWork(t)
    BY <1>0, <1>3, <2>2 DEF SDrained, SWork, Steps
  <2>3. CASE SQueue(t) \/ SGiveUp(t) \/ SWait(t)
    <3>1. CASE pc'[t] \in Behind
      BY <1>3, <3>1
    <3>2. CASE pc'[t] \notin Behind
      <4>1. pc[t] \notin Behind /\ quiescing /\ ready
        BY <1>0, <1>3, <2>3, <3>2 DEF SQueue, SGiveUp, SWait, Steps, owner, Resting
      <4> QED
        BY <1>1, <4>1 DEF OwnerInv, StuckUnready
    <3> QED
      BY <3>1, <3>2
  <2> QED
    BY <1>3, <2>1, <2>2, <2>3 DEF InTable, STable, SRow
<1>4. CASE t \in Controllers
  <2>1. ~CCommit(t)
    BY <1>4 DEF CCommit, Steps, HoldInv, Modes, Ops, Resting
  <2> QED
    BY <1>1, <1>4, <2>1, ManagerAssumption
       DEF InTable, CTable, CRow, CCall, CTake, CRefuse, CBegin, CLoop, CEnd, owner, OwnerInv,
           StuckUnready
<1> QED
  BY <1>2, <1>3, <1>4

(* All of it, over every step.                                             *)
LEMMA OwnerStep ==
  ASSUME IInv, HoldInv, OwnerInv, [Next]_vars
  PROVE  OwnerInv'
<1>1. ASSUME NEW t \in Threads, InTable(t)
      PROVE  OwnerInv'
  BY <1>1, StartingHeldStep, OwnerPlacesStep, ReadyOwnedStep, SleeperOwnerStep,
     StartsAreExplicitStep, StuckUnreadyStep DEF OwnerInv
<1>2. CASE ProxyStays
  BY <1>2 DEF ProxyStays, owner, gate, locals, OwnerInv, StuckUnready, StartingHeld, OwnerPlaces, ReadyOwned,
              SleeperOwner, StartsAreExplicit, Explicit
<1>3. CASE Crash
  <2>1. /\ \A t \in Threads : pc'[t] = "idle"
        /\ starting' = None /\ ~ready' /\ lifecycle' = "unknown" /\ ~quiescing'
    BY <1>3 DEF Crash, NewProcess
  <2>2. "idle" \notin {"ownerCheck", "ownerPeers", "admit"} \cup OwnSteps \cup PeerSteps
                        \cup OldSteps \cup SleepSteps
    BY RequestPlaces DEF PeerSteps, OldSteps, SleepSteps, SleepingSteps
  <2> QED
    BY <2>1, <2>2 DEF OwnerInv, StartingHeld, OwnerPlaces, ReadyOwned, SleeperOwner,
                      StartsAreExplicit, Explicit, StuckUnready
<1> QED
  BY <1>1, <1>2, <1>3, StepInTable

LEMMA InitOwnerInv == Init => OwnerInv
<1> SUFFICES ASSUME Init PROVE OwnerInv
  OBVIOUS
<1>1. /\ \A t \in Threads : pc[t] = "idle"
      /\ starting = None /\ ~ready /\ lifecycle = "unknown"
  BY DEF Init
<1>2. "idle" \notin {"ownerCheck", "ownerPeers", "admit"} \cup OwnSteps \cup PeerSteps
                      \cup OldSteps \cup SleepSteps
  BY RequestPlaces DEF PeerSteps, OldSteps, SleepSteps, SleepingSteps
<1> QED
  BY <1>1, <1>2 DEF OwnerInv, StartingHeld, OwnerPlaces, ReadyOwned, SleeperOwner,
                    StartsAreExplicit, Explicit, StuckUnready

LIInv == IInv /\ HoldInv /\ OwnerInv

(* The cached owner is what a thread at work on it relies on, whoever else *)
(* steps in between.                                                       *)
THEOREM Ownership == Spec => []LIInv
<1>1. IInv /\ HoldInv /\ OwnerInv /\ [Next]_vars => OwnerInv'
  BY OwnerStep
<1> QED
  BY <1>1, Holding, InitOwnerInv, PTL DEF Spec, LIInv

-----------------------------------------------------------------------------
(* When the last thread has returned, no lock is held, no request counted, *)
(* no start announced, and no quiescence left but by a POST /sleep that    *)
(* could not write its record (every exit of acquire, of sleep_active_model*)
(* and of the startup operations).                                         *)
THEOREM NothingIsLeft == Spec => []NoResidue
<1>1. ASSUME LIInv, \A t \in Threads : pc[t] \in {"idle", "done"}
      PROVE  /\ condition = None /\ lease = None /\ sleepLock = None
             /\ inflight = 0 /\ starting = None
             /\ quiescing => DiskFaults /\ (ready => Bootstrap)
  <2>1. {"idle", "done"} \cap (Acquiring \cup Activating \cup SleepingSteps \cup OpSteps \cup Serving
          \cup SleepHolding \cup Announced \cup {"waiting", "resume"} \cup SleepSteps) = {}
    BY DEF Acquiring, Activating, StartupSteps, SleepingSteps, OpSteps, Serving, SleepHolding,
           Announced, SleepSteps
  <2>2. condition = None /\ lease = None /\ sleepLock = None
    BY <1>1, <2>1 DEF LIInv, HoldInv, LocksOwned, HoldsCondition, HoldsLease
  <2>3. starting = None
    BY <1>1, <2>1 DEF LIInv, OwnerInv, StartingHeld
  <2>4. {r \in Requests : pc[r] \in Serving} = {}
    BY <1>1, <2>1
  <2>5. inflight = 0
    BY <1>1, <2>4, FS_EmptySet DEF LIInv, IInv, InflightCounts
  <2>6. quiescing => DiskFaults
    BY <1>1, <2>1, ManagerAssumption DEF LIInv, HoldInv, QuiescenceOwned
  <2>7. quiescing => (ready => Bootstrap)
    BY <1>1, <2>1 DEF LIInv, OwnerInv, StuckUnready
  <2> QED
    BY <2>2, <2>3, <2>5, <2>6, <2>7
<1>2. LIInv => NoResidue
  BY <1>1 DEF NoResidue
<1> QED
  BY <1>2, Ownership, PTL

(* With no transition in progress the lifecycle state says what ownership  *)
(* says, and nothing is announced (SLP-LIFE-005, what /healthz reports);   *)
(* "starting" stands only where an undo was cut short by an exception no   *)
(* handler lists, and then with an owner that the next call will find.     *)
THEOREM LifecycleIsExplicit ==
  ASSUME ~Bootstrap
  PROVE  Spec => []LifecycleExplicit
<1>1. ASSUME LIInv, AtRest
      PROVE  /\ starting = None
             /\ lifecycle = "active" <=> ready
             /\ lifecycle = "sleeping" => active = None
             /\ ready => active # None
             /\ lifecycle = "starting" => Faults /\ active # None
  <2>1. \A t \in Threads : pc[t] \notin Announced
    <3>1. Announced \subseteq Activating \cup OpSteps
      BY DEF Announced, Activating
    <3> QED
      BY <1>1, <3>1, ManagerAssumption DEF LIInv, AtRest, IInv, LocksHeld, HoldsLease
  <2>2. starting = None
    BY <1>1, <2>1 DEF LIInv, OwnerInv, StartingHeld
  <2>3. Explicit
    BY <1>1, <2>1 DEF LIInv, OwnerInv, StartsAreExplicit, Announced
  <2> QED
    BY <1>1, <2>2, <2>3 DEF Explicit, LIInv, OwnerInv, ReadyOwned
<1>2. LIInv => LifecycleExplicit
  BY <1>1 DEF LifecycleExplicit
<1> QED
  BY <1>2, Ownership, PTL

(* manager.py:865 against 210: without the startup endpoints the two orders*)
(* of the condition and the lease never meet, because the reconciliation is*)
(* over before the listener is bound.                                      *)
THEOREM OrdersNeverMeet ==
  ASSUME ~Bootstrap
  PROVE  Spec => []NoLockCycle
<1>1. ASSUME LIInv, NEW r \in Threads, NEW c \in Threads, pc[r] = "lease", WantsCondition(c)
      PROVE  FALSE
  <2>1. pc[c] \in OpSteps
    BY <1>1 DEF WantsCondition, OpSteps
  <2>2. r \in Requests /\ c \in Controllers
    <3>1. /\ "lease" \notin SleeperPC \cup ControllerPC
          /\ OpSteps \cap (RequestPC \cup SleeperPC) = {}
      BY DEF RequestPC, SleeperPC, ControllerPC, OpSteps, SleepSteps, SleepingSteps, Acquiring,
           Activating, StartupSteps, Serving
    <3> QED
      BY <1>1, <2>1, <3>1 DEF LIInv, IInv, TypeOK, PcTypes
  <2>3. pc[r] \notin Resting /\ pc[c] \notin Resting
    BY <1>1, <2>1 DEF Resting, OpSteps
  <2> QED
    BY <1>1, <2>2, <2>3 DEF LIInv, HoldInv, AtWork, Modes, Up
<1>2. LIInv => NoLockCycle
  BY <1>1 DEF NoLockCycle
<1> QED
  BY <1>2, Ownership, PTL

-----------------------------------------------------------------------------
(* The transition file.  It is kept by a proxy that serves, and by one     *)
(* whose startup operation has announced itself; what a crash leaves in it *)
(* is overwritten before that.                                             *)
Beyond == OpSteps \ {"opBegin"}

Announcing == {"starting", "bootstrap_sleep", "finalizing", "adopting"}

Truth ==
  /\ published.phase = "ready" => ready /\ published.model = active
  /\ published.phase \in Announcing => starting # None /\ starting = published.model
  /\ published.phase = "sleeping" => \E s \in Sleepers : pc[s] \in SleepSteps

RecordKept == Up \/ \E c \in Controllers : pc[c] \in Beyond

OpRecord == \A c \in Controllers : pc[c] \in Beyond => published.phase # "ready"

StartRecord ==
  \A r \in Requests :
    pc[r] \in StartupSteps => starting = target[r] /\ published.phase \in {"starting", "idle"}

RecordInv == (RecordKept => Truth) /\ OpRecord /\ StartRecord

(* The record of a start is its request's until the start is over.         *)
LEMMA StartRecordStep ==
  ASSUME IInv, HoldInv, StartRecord, NEW t \in Threads, InTable(t)
  PROVE  StartRecord'
<1> SUFFICES ASSUME NEW r \in Requests, pc'[r] \in StartupSteps
             PROVE  starting' = target'[r] /\ published'.phase \in {"starting", "idle"}
  BY DEF StartRecord
<1>1. CASE r # t
  BY <1>1, AcquiringFrame, RequestPlaces DEF StartRecord
<1>2. CASE r = t
  <2>0. /\ StartupSteps = {"oldSleep", "oldWait", "peerCheck", "peerSleep", "peerWait", "weights",
                           "reload", "kvCache", "mmCache", "leaveSleep", "readiness", "undoCheck",
                           "undoSleep", "undoWait"}
        /\ Outside \cap StartupSteps = {} /\ Resting \cap StartupSteps = {}
    BY DEF StartupSteps, Outside, Resting
  <2>1. RStart(r) \/ RForget(r) \/ RRemember(r) \/ RWork(r)
    BY <1>2, <2>0
       DEF InTable, RTable, RRow, RQueue, RPass, ROwner, ROwnerLost, RStartLost, Lost, RAsleep,
           RReady, RAdmit, RServe, Steps
  <2>2. CASE RStart(r)
    BY <2>2 DEF RStart, Record
  <2>3. CASE RForget(r) \/ RRemember(r)
    BY <2>0, <2>3 DEF RForget, RRemember, ClearOwner, Record, Steps, StartRecord
  <2>4. CASE RWork(r)
    BY <2>0, <2>4 DEF RWork, Woken, Steps, owner, StartRecord
  <2> QED
    BY <2>1, <2>2, <2>3, <2>4
<1> QED
  BY <1>1, <1>2

(* A startup operation never finds a ready record but the one it starts on.*)
LEMMA OpRecordStep ==
  ASSUME IInv, OpRecord, NEW t \in Threads, InTable(t)
  PROVE  OpRecord'
<1> SUFFICES ASSUME NEW c \in Controllers, pc'[c] \in Beyond, published'.phase = "ready"
             PROVE  FALSE
  BY DEF OpRecord
<1>0. /\ Beyond = {"opCheck", "opSleep", "opPoll", "opAdopt", "opFinally"}
      /\ "waiting" \notin OpSteps /\ Beyond \subseteq OpSteps
  BY DEF Beyond, OpSteps
<1>1. CASE c # t
  <2>1. pc[c] \in Beyond /\ lease = c
    BY <1>0, <1>1, InTableFrame DEF Frame, Others, IInv, LocksHeld, HoldsLease
  <2>2. published.phase # "ready" /\ published' # published
    BY <2>1 DEF OpRecord
  <2>3. CASE t \in Requests
    <3>1. pc[t] \notin Activating /\ lease # None
      BY <1>1, <2>1, ManagerAssumption DEF IInv, LocksHeld, HoldsLease
    <3>2. ~RReady(t)
      BY <3>1 DEF RReady, Steps, Activating, StartupSteps
    <3>3. published' = published \/ published'.phase # "ready"
      <4>1. CASE RQueue(t) \/ RPass(t) \/ ROwner(t) \/ RRemember(t) \/ RWork(t) \/ RAdmit(t)
        BY <4>1 DEF RQueue, RPass, ROwner, RRemember, RWork, RAdmit, owner
      <4>2. CASE RStart(t) \/ ROwnerLost(t) \/ RStartLost(t)
        <5>1. RStart(t)
          BY <3>1, <4>2 DEF ROwnerLost, RStartLost, Activating
        <5> QED
          BY <5>1 DEF RStart, Record
      <4>3. CASE RAsleep(t) \/ RForget(t) \/ RServe(t)
        BY <4>3 DEF RAsleep, RForget, RServe, ClearOwner, MarkUnknown, Record, owner
      <4> QED
        BY <2>3, <3>2, <4>1, <4>2, <4>3 DEF InTable, RTable, RRow
    <3> QED
      BY <2>2, <3>3
  <2>4. CASE t \in Sleepers
    <3>1. CASE SQueue(t) \/ SWait(t) \/ SGiveUp(t) \/ SDrained(t)
      BY <2>2, <3>1 DEF SQueue, SWait, SGiveUp, SDrained, owner
    <3>2. CASE SWork(t)
      <4>1. published' \in {published, Record("sleeping", target[t])}
        BY <3>2 DEF SWork
      <4> QED
        BY <2>2, <4>1 DEF Record
    <3>3. CASE SEnd(t)
      BY <2>2, <3>3 DEF SEnd
    <3> QED
      BY <2>4, <3>1, <3>2, <3>3 DEF InTable, STable, SRow
  <2>5. CASE t \in Controllers
    BY <2>2, <2>5
       DEF InTable, CTable, CRow, CCall, CTake, CRefuse, CBegin, CLoop, CCommit, ClearOwner, CEnd,
           Record, OpPhase, owner
  <2> QED
    BY <2>3, <2>4, <2>5
<1>2. CASE c = t
  <2>1. CASE pc[c] \in Beyond
    <3>1. published.phase # "ready"
      BY <2>1 DEF OpRecord
    <3> QED
      BY <1>0, <1>2, <3>1
         DEF InTable, CTable, CRow, CCall, CTake, CRefuse, CBegin, CLoop, CCommit, ClearOwner,
             CEnd, Record, OpPhase, owner
  <2>2. CASE pc[c] \notin Beyond
    <3>1. CBegin(c)
      BY <1>0, <1>2, <2>2
         DEF InTable, CTable, CRow, CCall, CTake, CRefuse, CLoop, CCommit, CEnd, Steps, Resting
    <3> QED
      BY <3>1 DEF CBegin, Record, OpPhase
  <2> QED
    BY <2>1, <2>2
<1> QED
  BY <1>1, <1>2

(* A record that is kept stays true: through the steps of a request,       *)
LEMMA RequestTruth ==
  ASSUME HoldInv, OwnerPlaces, StartRecord, Truth, NEW r \in Requests, RTable(r),
         pc[r] \notin Resting
  PROVE  Truth'
<1>1. \A s \in Sleepers : pc[s] \in SleepSteps => pc'[s] \in SleepSteps
  <2>1. "waiting" \notin SleepSteps
    BY DEF SleepSteps, SleepingSteps
  <2> QED
    BY <2>1, ManagerAssumption DEF RTable, Frame, Others
<1>2. target[r] # None
  BY ManagerAssumption DEF HoldInv, AtWork
<1>3. CASE RQueue(r) \/ RPass(r) \/ ROwner(r) \/ RAdmit(r) \/ RWork(r)
  BY <1>1, <1>3 DEF RQueue, RPass, ROwner, RAdmit, RWork, owner, Truth
<1>4. CASE RStart(r)
  BY <1>2, <1>4 DEF RStart, Record, Truth, Announcing
<1>5. CASE ROwnerLost(r) \/ RStartLost(r) \/ RAsleep(r) \/ RForget(r)
  <2>1. CASE ROwnerLost(r)
    BY <1>1, <2>1 DEF ROwnerLost, Lost, PublishDemand, Record, Truth, Announcing
  <2>2. CASE RStartLost(r)
    BY <2>2 DEF RStartLost, Lost, PublishDemand, Record, Truth, Announcing
  <2>3. CASE RAsleep(r) \/ RForget(r)
    BY <2>3 DEF RAsleep, RForget, ClearOwner, Record, Truth, Announcing
  <2> QED
    BY <1>5, <2>1, <2>2, <2>3
<1>6. CASE RReady(r)
  <2>1. active = target[r]
    BY <1>6 DEF RReady, Steps, OwnerPlaces, OwnSteps, Woken
  <2> QED
    BY <1>6, <2>1 DEF RReady, Record, Truth, Announcing
<1>7. CASE RRemember(r)
  <2>1. published.phase # "ready"
    BY <1>7 DEF RRemember, Steps, StartRecord, StartupSteps
  <2> QED
    BY <1>1, <1>7, <2>1 DEF RRemember, Truth
<1>8. CASE RServe(r)
  BY <1>1, <1>8 DEF RServe, MarkUnknown, Record, owner, Truth, Announcing
<1> QED
  BY <1>3, <1>4, <1>5, <1>6, <1>7, <1>8 DEF RTable, RRow

(* of a sleeper,                                                           *)
LEMMA SleeperTruth ==
  ASSUME ~DiskFaults, Truth, NEW s \in Sleepers, STable(s)
  PROVE  Truth'
<1>0. /\ SleepSteps = {"announce", "sleepLease", "commit", "abort", "validate", "sleepCheck",
                       "sleepPost", "sleepPoll"}
      /\ "waiting" \notin SleepSteps
  BY DEF SleepSteps, SleepingSteps
<1>1. \A u \in Sleepers \ {s} : pc[u] \in SleepSteps => pc'[u] \in SleepSteps
  BY <1>0 DEF STable, Frame, Others
<1>2. CASE SQueue(s) \/ SWait(s) \/ SGiveUp(s) \/ SDrained(s)
  BY <1>0, <1>1, <1>2 DEF SQueue, SWait, SGiveUp, SDrained, Steps, owner, Truth
<1>3. CASE SWork(s)
  <2>1. pc'[s] \in SleepSteps
    BY <1>0, <1>3 DEF SWork, Steps
  <2>2. \/ UNCHANGED <<active, ready, starting, published>>
        \/ published' = Record("sleeping", target[s])
    BY <1>3 DEF SWork
  <2> QED
    BY <1>1, <2>1, <2>2 DEF Record, Truth, Announcing
<1>4. CASE SEnd(s)
  BY <1>4 DEF SEnd, Truth, Announcing
<1> QED
  BY <1>2, <1>3, <1>4 DEF STable, SRow

(* and of a startup operation, whose announcement makes it true.           *)
LEMMA ControllerTruth ==
  ASSUME IInv, OpRecord, NEW c \in Controllers, CTable(c),
         Truth \/ CBegin(c)
  PROVE  Truth'
<1>1. \A s \in Sleepers : pc[s] \in SleepSteps => pc'[s] \in SleepSteps
  <2>1. "waiting" \notin SleepSteps
    BY DEF SleepSteps, SleepingSteps
  <2> QED
    BY <2>1, ManagerAssumption DEF CTable, Frame, Others
<1>2. CASE CBegin(c)
  <2>1. starting' # None
    BY <1>2, ManagerAssumption DEF CBegin, Steps, IInv, OpTargets
  <2> QED
    BY <1>2, <2>1 DEF CBegin, Record, OpPhase, Truth
<1>3. CASE ~CBegin(c)
  <2>1. CASE CCommit(c)
    <3>1. published.phase # "ready"
      BY <2>1 DEF CCommit, Steps, OpRecord, Beyond, OpSteps
    <3> QED
      BY <1>1, <1>3, <2>1, <3>1 DEF CCommit, ClearOwner, Record, Truth, Announcing
  <2>2. CASE CEnd(c)
    BY <2>2 DEF CEnd, Record, Truth, Announcing
  <2> QED
    BY <1>1, <1>3, <2>1, <2>2 DEF CTable, CRow, CCall, CTake, CRefuse, CLoop, owner, Truth
<1> QED
  BY <1>2, <1>3

LEMMA TruthStep ==
  ASSUME ~DiskFaults, LIInv, RecordInv, NEW t \in Threads, InTable(t), RecordKept'
  PROVE  Truth'
<1> USE DEF LIInv, OwnerInv, RecordInv
<1>0. /\ Beyond = {"opCheck", "opSleep", "opPoll", "opAdopt", "opFinally"}
      /\ "waiting" \notin Beyond
  BY DEF Beyond, OpSteps
<1>1. \A c \in Controllers \ {t} : pc'[c] \in Beyond => pc[c] \in Beyond
  BY <1>0, InTableFrame DEF Frame, Others
<1>2. CASE t \in Requests
  <2>1. RecordKept
    <3>1. UNCHANGED mode /\ t \notin Controllers
      BY <1>2, ManagerAssumption DEF InTable, RTable
    <3> QED
      BY <1>1, <3>1 DEF RecordKept, Up, mode
  <2>2. CASE pc[t] \in Resting
    <3>1. RQueue(t)
      BY <1>2, <2>2
         DEF InTable, RTable, RRow, RPass, ROwner, RStart, ROwnerLost, RStartLost, RAsleep, RReady,
             RForget, RRemember, RWork, RAdmit, RServe, Steps, Resting, StartupSteps, Woken,
             UndoSteps
    <3>2. \A s \in Sleepers : pc[s] \in SleepSteps => pc'[s] \in SleepSteps
      <4>1. "waiting" \notin SleepSteps
        BY DEF SleepSteps, SleepingSteps
      <4> QED
        BY <1>2, <4>1, InTableFrame, ManagerAssumption DEF Frame, Others
    <3> QED
      BY <2>1, <3>1, <3>2 DEF RQueue, owner, Truth
  <2> QED
    BY <1>2, <2>1, <2>2, RequestTruth DEF InTable
<1>3. CASE t \in Sleepers
  <2>1. RecordKept
    <3>1. UNCHANGED mode /\ t \notin Controllers
      BY <1>3, ManagerAssumption DEF InTable, STable
    <3> QED
      BY <1>1, <3>1 DEF RecordKept, Up, mode
  <2> QED
    BY <1>3, <2>1, SleeperTruth DEF InTable
<1>4. CASE t \in Controllers
  <2>1. CTable(t)
    BY <1>4 DEF InTable
  <2>2. CASE pc[t] \in Beyond
    BY <1>4, <2>1, <2>2, ControllerTruth DEF RecordKept
  <2>3. CASE pc[t] \notin Beyond
    <3>1. CCall(t) \/ CTake(t) \/ CRefuse(t) \/ CBegin(t)
      BY <1>0, <2>1, <2>3 DEF CTable, CRow, CLoop, CCommit, CEnd, Steps
    <3>2. CASE CBegin(t)
      BY <1>4, <2>1, <3>2, ControllerTruth
    <3>3. CASE CCall(t) \/ CTake(t) \/ CRefuse(t)
      <4>1. UNCHANGED mode /\ pc'[t] \notin Beyond
        BY <1>0, <3>3 DEF CCall, CTake, CRefuse, Steps, Resting
      <4>2. RecordKept
        BY <1>1, <4>1 DEF RecordKept, Up, mode
      <4> QED
        BY <1>4, <2>1, <4>2, ControllerTruth
    <3> QED
      BY <3>1, <3>2, <3>3
  <2> QED
    BY <2>2, <2>3
<1> QED
  BY <1>2, <1>3, <1>4

LEMMA RecordStep ==
  ASSUME ~DiskFaults, LIInv, RecordInv, [Next]_vars
  PROVE  RecordInv'
<1>1. ASSUME NEW t \in Threads, InTable(t)
      PROVE  RecordInv'
  BY <1>1, TruthStep, OpRecordStep, StartRecordStep DEF LIInv, RecordInv
<1>2. CASE ProxyStays
  BY <1>2 DEF ProxyStays, owner, mode, locals, RecordInv, RecordKept, Up, Truth, OpRecord,
              StartRecord
<1>3. CASE Crash
  <2>1. /\ \A t \in Threads : pc'[t] = "idle"
        /\ finalized' = ~Bootstrap /\ listening' = Bootstrap
    BY <1>3 DEF Crash, NewProcess
  <2>2. "idle" \notin Beyond \cup StartupSteps
    BY DEF Beyond, OpSteps, StartupSteps
  <2> QED
    BY <2>1, <2>2 DEF RecordInv, RecordKept, Up, OpRecord, StartRecord
<1> QED
  BY <1>1, <1>2, <1>3, StepInTable DEF LIInv

LEMMA InitRecordInv == Init => RecordInv
<1> SUFFICES ASSUME Init PROVE RecordInv
  OBVIOUS
<1>1. /\ \A t \in Threads : pc[t] = "idle"
      /\ finalized = ~Bootstrap /\ listening = Bootstrap
  BY DEF Init
<1>2. "idle" \notin Beyond \cup StartupSteps
  BY DEF Beyond, OpSteps, StartupSteps
<1> QED
  BY <1>1, <1>2 DEF RecordInv, RecordKept, Up, OpRecord, StartRecord

(* The transition file of a proxy that serves is never ahead of it: ready  *)
(* only of a ready owner, a transition only while the thread that announced*)
(* it is at work (_publish_transition and its callers).                    *)
THEOREM RecordIsTruthful ==
  ASSUME ~DiskFaults
  PROVE  Spec => []RecordTruthful
<1>1. ASSUME LIInv, RecordInv, listening, finalized
      PROVE  /\ published.phase = "ready" => ready /\ published.model = active
             /\ published.phase \in Announcing => lease # None /\ starting = published.model
             /\ published.phase = "sleeping" => quiescing
  <2>1. Truth
    BY <1>1 DEF RecordInv, RecordKept, Up
  <2>2. starting # None => lease # None
    <3>1. Announced \subseteq Activating \cup OpSteps
      BY DEF Announced, Activating
    <3> QED
      BY <1>1, <3>1, ManagerAssumption
         DEF LIInv, OwnerInv, StartingHeld, IInv, LocksHeld, HoldsLease
  <2> QED
    BY <1>1, <2>1, <2>2 DEF Truth, LIInv, HoldInv, Quiesced
<1>2. LIInv /\ RecordInv => RecordTruthful
  BY <1>1 DEF RecordTruthful, Announcing
<1>3. LIInv /\ RecordInv /\ [Next]_vars => RecordInv'
  BY RecordStep
<1> QED
  BY <1>2, <1>3, Ownership, InitRecordInv, PTL DEF Spec

-----------------------------------------------------------------------------
(* A pending switch.  While no deadline passes and admission does not deny,*)
(* the request that set it goes on until it drops it.                      *)
NoDeadline == \A t \in Threads : ~expired[t]

AdmitClear == \A r \in Requests : pc[r] = "admit" => pending # target[r]

PendingInv == NoDeadline /\ AdmitClear /\ PendingHasRequester

(* What a step of another thread may do to the pending switch of a request *)
(* about to be admitted: nothing.                                          *)
LEMMA AdmitClearStep ==
  ASSUME IInv, HoldInv, AdmitClear, NEW t \in Threads, InTable(t)
  PROVE  AdmitClear'
<1> SUFFICES ASSUME NEW r \in Requests, pc'[r] = "admit"
             PROVE  pending' # target'[r]
  BY DEF AdmitClear
<1>0. "admit" \in Acquiring /\ {"ownerPeers", "readiness"} \cap Resting = {}
  BY DEF Acquiring, Resting
<1>1. CASE r # t
  <2>1. /\ pc[r] = "admit" /\ target'[r] = target[r] /\ condition = r /\ r \notin {None, t}
    BY <1>0, <1>1, AcquiringFrame, ManagerAssumption DEF IInv, LocksHeld, HoldsCondition
  <2>2. pending' = pending
    <3>1. CASE t \in Requests
      <4>1. pc[t] \notin Acquiring
        BY <2>1 DEF IInv, LocksHeld, HoldsCondition
      <4>2. RQueue(t) \/ RPass(t) \/ RServe(t)
        BY <3>1, <4>1, RequestPlaces
           DEF InTable, RTable, RRow, ROwner, RStart, ROwnerLost, RStartLost, RAsleep, RReady,
               RForget, RRemember, RWork, RAdmit, Steps, OldSteps, PeerSteps, Woken, UndoSteps
      <4> QED
        BY <2>1, <4>2 DEF RQueue, RPass, RServe
    <3>2. CASE t \notin Requests
      BY <3>2 DEF InTable, STable, CTable
    <3> QED
      BY <3>1, <3>2
  <2> QED
    BY <2>1, <2>2 DEF AdmitClear
<1>2. CASE r = t
  <2>1. RReady(r)
    BY <1>2
       DEF InTable, RTable, RRow, RQueue, RPass, ROwner, RStart, ROwnerLost, RStartLost, Lost,
           RAsleep, RForget, RRemember, RWork, RAdmit, RServe, Steps, Outside, Resting, Woken,
           StartupSteps, UndoSteps
  <2>2. target[r] # None
    BY <1>0, <2>1, ManagerAssumption DEF RReady, Steps, HoldInv, AtWork
  <2> QED
    BY <2>1, <2>2 DEF RReady, LeaveLease
<1> QED
  BY <1>1, <1>2

(* The requester goes on, or drops its switch.                             *)
Pursuing == {"waiting", "resume"} \cup Acquiring

LEMMA RequesterStep ==
  ASSUME ~Timeouts, ~Denials, NoDeadline, AdmitClear, HoldInv, NEW r \in Requests, RTable(r),
         pc[r] \in Pursuing, target[r] = pending, pending' = pending, pending # None
  PROVE  pc'[r] \in Pursuing /\ target'[r] = pending'
<1>0. /\ Acquiring \subseteq Pursuing /\ {"waiting", "resume"} \subseteq Pursuing
      /\ {"leased", "lost", "marked"} \cap Pursuing = {}
      /\ "admit" \in Acquiring /\ Activating \subseteq Acquiring
      /\ Resting \cap Pursuing = {}
      /\ Outside \cap Pursuing = {"waiting", "resume"}
  BY DEF Pursuing, Acquiring, Activating, StartupSteps, Resting, Outside
<1>1. CASE RQueue(r)
  <2>1. pc[r] \in {"waiting", "resume"}
    BY <1>0, <1>1 DEF RQueue, Steps
  <2>2. pc'[r] \in {"waiting", "resume"}
    BY <1>1, <2>1 DEF RQueue, NoDeadline
  <2> QED
    BY <1>0, <1>1, <2>1, <2>2 DEF RQueue, Resting
<1>2. CASE RPass(r) \/ ROwner(r) \/ RStart(r)
  BY <1>0, <1>2
     DEF RPass, ROwner, RStart, Steps, Acquiring, Activating, StartupSteps
<1>3. CASE ROwnerLost(r) \/ RStartLost(r) \/ RAsleep(r) \/ RReady(r)
  BY <1>3 DEF ROwnerLost, RStartLost, Lost, RAsleep, RReady, LeaveLease
<1>4. CASE RForget(r) \/ RRemember(r)
  BY <1>0, <1>4 DEF RForget, RRemember, Steps, Activating, StartupSteps
<1>5. CASE RWork(r)
  <2>1. pc'[r] \in StartupSteps
    BY <1>5 DEF RWork, Steps, StartupSteps, Woken
  <2> QED
    BY <1>0, <1>5, <2>1 DEF RWork, Activating
<1>6. CASE RAdmit(r) \/ RServe(r)
  BY <1>0, <1>6 DEF RAdmit, RServe, Steps, AdmitClear
<1> QED
  BY <1>1, <1>2, <1>3, <1>4, <1>5, <1>6 DEF RTable, RRow

LEMMA PendingHasRequesterStep ==
  ASSUME ~Timeouts, ~Denials, IInv, HoldInv, PendingInv, NEW t \in Threads, InTable(t)
  PROVE  PendingHasRequester'
<1> USE DEF PendingInv
<1> SUFFICES ASSUME pending' # None
             PROVE  \E r \in Requests : target'[r] = pending' /\ pc'[r] \in Pursuing
  BY DEF PendingHasRequester, Pursuing
<1>1. CASE pending' = pending
  <2>1. PICK r \in Requests : target[r] = pending /\ pc[r] \in Pursuing
    BY <1>1 DEF PendingHasRequester, Pursuing
  <2>2. CASE r = t
    BY <1>1, <2>1, <2>2, RequesterStep DEF InTable
  <2>3. CASE r # t
    <3>1. pc'[r] \in Pursuing /\ target'[r] = target[r]
      BY <2>1, <2>3, InTableFrame DEF Frame, Others, Pursuing
    <3> QED
      BY <1>1, <2>1, <3>1
  <2> QED
    BY <2>2, <2>3
<1>2. CASE pending' # pending
  <2>1. t \in Requests /\ RTable(t)
    BY <1>2 DEF InTable, STable, CTable
  <2>2. RQueue(t)
    BY <1>2, <2>1
       DEF RTable, RRow, RPass, ROwner, RStart, ROwnerLost, RStartLost, Lost, LeaveLease,
           RAsleep, RReady, RForget, RRemember, RWork, RAdmit, RServe
  <2>3. pending' = target[t] /\ target'[t] = target[t] /\ pc'[t] = "waiting"
    BY <1>2, <2>2 DEF RQueue
  <2> QED
    BY <2>1, <2>3 DEF Pursuing
<1> QED
  BY <1>1, <1>2

LEMMA PendingStep ==
  ASSUME ~Timeouts, ~Denials, IInv, HoldInv, PendingInv, [Next]_vars
  PROVE  PendingInv'
<1>1. ASSUME NEW t \in Threads, InTable(t)
      PROVE  PendingInv'
  <2>1. NoDeadline'
    BY <1>1, InTableFrame DEF PendingInv, NoDeadline, Frame
  <2> QED
    BY <1>1, <2>1, AdmitClearStep, PendingHasRequesterStep DEF PendingInv
<1>2. CASE ProxyStays
  BY <1>2 DEF ProxyStays, gate, locals, PendingInv, NoDeadline, AdmitClear, PendingHasRequester
<1>3. CASE Crash
  BY <1>3 DEF Crash, NewProcess, PendingInv, NoDeadline, AdmitClear, PendingHasRequester
<1> QED
  BY <1>1, <1>2, <1>3, StepInTable

LEMMA InitPendingInv == Init => PendingInv
BY DEF Init, PendingInv, NoDeadline, AdmitClear, PendingHasRequester

(* A pending switch always has a request behind it that will make or drop  *)
(* it, so that nobody waits for nothing (_pending_switch_name and the      *)
(* finally of _activate_locked), as long as no drain deadline passes and   *)
(* admission does not deny.  With either it may be left without one: the   *)
(* run pending_timeout is a behaviour.                                     *)
THEOREM PendingIsPursued ==
  ASSUME ~Timeouts, ~Denials
  PROVE  Spec => []PendingHasRequester
<1>1. IInv /\ HoldInv /\ PendingInv /\ [Next]_vars => PendingInv'
  BY PendingStep
<1>2. PendingInv => PendingHasRequester
  BY DEF PendingInv
<1> QED
  BY <1>1, <1>2, Holding, InitPendingInv, PTL DEF Spec
=============================================================================
