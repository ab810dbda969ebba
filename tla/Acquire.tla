------------------------------- MODULE Acquire -------------------------------
(***************************************************************************)
(* One inference request: ModelManager.acquire, the activation it performs *)
(* under the condition and the startup lease, the forwarding of the        *)
(* request and its release.                                                *)
(***************************************************************************)
EXTENDS ManagerState

(* The POSTs of _wake, by the program counter of the thread that makes     *)
(* them, each with the one after it.                                       *)
WakePhases == IF Level2 THEN {"weights", "reload", "kvCache", "mmCache"}
                        ELSE {"weights"}
NextPhase(l) ==
  IF ~Level2 THEN "leaveSleep"
  ELSE CASE l = "weights" -> "reload"
         [] l = "reload"  -> "kvCache"
         [] l = "kvCache" -> "mmCache"
         [] l = "mmCache" -> "leaveSleep"

Peers(r) == Models \ {target[r]}

-----------------------------------------------------------------------------
(* Mutant: the gate is missing.                                            *)
ArriveUngated(r) ==
  /\ pc[r] = "idle" /\ listening
  /\ \E m \in Models : target' = [target EXCEPT ![r] = m]
  /\ Go(r, "enter")
  /\ UNCHANGED <<engine, locks, owner, gate, mode, todo, probe, expired, op>>

(* The server's gate: no inference before the lineup is finalized.  What   *)
(* is denied before acquire takes the condition changes nothing and is left*)
(* out.                                                                    *)
Arrive(r) ==
  /\ pc[r] = "idle" /\ listening /\ finalized
  /\ \E m \in Models : target' = [target EXCEPT ![r] = m]
  /\ Go(r, "enter")
  /\ UNCHANGED <<engine, locks, owner, gate, mode, todo, probe, expired, op>>

DenyEntry(r) ==
  /\ pc[r] = "enter" /\ condition = None /\ Denials
  /\ Return(r)
  /\ UNCHANGED <<engine, locks, owner, gate, mode>>

-----------------------------------------------------------------------------
(* _wait_for_switch_safety: its three tests, in order.                     *)
InSwitchLoop(r) == pc[r] \in {"enter", "resume"} /\ condition = None
MustSwitch(r) == active \notin {None, target[r]}

(* Mutants: the request passes a quiescing sleeper, or a pending switch.   *)
MustDeferToSwitch(r)  == pending \notin {None, target[r]}
MustDeferToSleeper(r) == quiescing

MustDefer(r) == quiescing \/ pending \notin {None, target[r]}

DeferToDrain(r) ==
  /\ InSwitchLoop(r) /\ MustDefer(r) /\ ~expired[r]
  /\ Go(r, "waiting")
  /\ UNCHANGED <<engine, locks, owner, gate, mode, locals>>

DeferToInflight(r) ==
  /\ InSwitchLoop(r) /\ ~MustDefer(r) /\ MustSwitch(r)
  /\ ~expired[r] /\ inflight > 0
  /\ pending' = target[r]
  /\ Go(r, "waiting")
  /\ UNCHANGED <<engine, locks, owner, quiescing, inflight, mode, locals>>

(* _wait_for_drain finds the deadline passed and gives up the pending      *)
(* switch if it is this request's.                                         *)
DropPending(r) ==
  IF pending = target[r] THEN pending' = None /\ ReturnNotify(r)
                         ELSE UNCHANGED pending /\ Return(r)

GiveUpInDrain(r) ==
  /\ InSwitchLoop(r)
  /\ \/ MustDefer(r) /\ expired[r] /\ DropPending(r)
     \/ \* the deadline passes between the count's read and the wait
        /\ ~MustDefer(r) /\ MustSwitch(r) /\ inflight > 0
        /\ Timeouts /\ ~expired[r]
        /\ pending' = None /\ ReturnNotify(r)
  /\ UNCHANGED <<engine, locks, owner, quiescing, inflight, mode>>

(* _exact_inflight_requests finds the deadline passed first: it raises, and*)
(* the pending switch stays.                                               *)
GiveUpInCount(r) ==
  /\ InSwitchLoop(r) /\ ~MustDefer(r) /\ MustSwitch(r) /\ expired[r]
  /\ Return(r)
  /\ UNCHANGED <<engine, locks, owner, gate, mode>>

(* Mutant: the old model is not drained.                                   *)
SwitchWithoutDrain(r) == InSwitchLoop(r) /\ ~MustDefer(r)

SwitchIsSafe(r) ==
  /\ InSwitchLoop(r) /\ ~MustDefer(r)
  /\ MustSwitch(r) => ~expired[r] /\ inflight = 0

PassSwitch(r) ==
  /\ SwitchIsSafe(r)
  /\ condition' = r
  /\ Go(r, "lease")
  /\ UNCHANGED <<engine, lease, sleepLock, owner, gate, mode, locals>>

(* The admission checks after the wait deny: nothing is undone.            *)
DenySwitch(r) ==
  /\ SwitchIsSafe(r) /\ Denials
  /\ Return(r)
  /\ UNCHANGED <<engine, locks, owner, gate, mode>>

-----------------------------------------------------------------------------
(* _activate_locked, from here to Admit: the request holds the condition   *)
(* and the lease.                                                          *)

(* _ensure_awake_locked announces a start and _ensure_awake_startup_locked *)
(* turns to the old engine, if one is cached, or to the peers.             *)
StartActivation(r, cached) ==
  /\ starting' = target[r]
  /\ lifecycle' = "starting"
  /\ published' = Record("starting", target[r])
  /\ Go(r, IF cached = None THEN "peerCheck" ELSE "oldSleep")
  /\ todo' = [todo EXCEPT ![r] = Peers(r)]

TakeLease(r) ==
  /\ pc[r] = "lease" /\ lease = None
  /\ lease' = r
  /\ IF active = target[r]
       THEN Go(r, "ownerCheck") /\ UNCHANGED <<starting, lifecycle, published, todo>>
       ELSE StartActivation(r, active)
  /\ UNCHANGED <<engine, condition, sleepLock, active, ready, gate, mode,
                 target, probe, expired, op>>

(* _activate_locked leaves the lease and its finally drops a pending       *)
(* switch to the target.                                                   *)
LeaveLease(r) ==
  /\ lease' = None
  /\ pending' = IF pending = target[r] THEN None ELSE pending

(* The exits that fail, holding nothing afterwards.                        *)
LeaveRevalidation(r) ==
  /\ LeaveLease(r)
  /\ condition' = None
  /\ IF pending = target[r] THEN ReturnNotify(r) ELSE Return(r)
  /\ UNCHANGED <<engine, sleepLock, quiescing, inflight, mode>>

RevalidationFails(r) ==
  /\ PublishDemand(target[r])
  /\ LeaveRevalidation(r)
  /\ UNCHANGED <<active, starting>>

(* An exception none of the handlers lists (an http.client.HTTPException,  *)
(* which client.py lets through) leaves the owner as it was: of the whole  *)
(* way out only the finally of _activate_locked runs.                      *)
RevalidationEscapes(r) ==
  Faults /\ LeaveRevalidation(r) /\ UNCHANGED owner

ExitStartup(r) ==
  /\ starting' = None
  /\ LeaveLease(r)
  /\ condition' = None
  /\ ReturnNotify(r)
  /\ UNCHANGED <<sleepLock, quiescing, inflight, mode>>

LeaveDemand(r) ==
  /\ PublishDemand(target[r])
  /\ ExitStartup(r)
  /\ UNCHANGED active

(* _ensure_awake_locked's handler: a target already remembered as owner is *)
(* put back to sleep, any other failure only publishes the demand.         *)
FailStartup(r) ==
  IF active = target[r]
    THEN /\ Go(r, "undoCheck")
         /\ UNCHANGED <<locks, owner, gate, mode, locals>>
    ELSE LeaveDemand(r)

-----------------------------------------------------------------------------
(* _revalidate_cached_owner_locked                                         *)
OwnerCheck(r) ==
  /\ pc[r] = "ownerCheck"
  /\ \E answer \in SleepState(target[r]) :
       \/ /\ answer = "asleep"
          /\ active' = None /\ ready' = FALSE
          /\ StartActivation(r, None)
          /\ UNCHANGED <<engine, locks, gate, mode, target, probe, expired, op>>
       \/ /\ answer = "awake"
          /\ Go(r, "ownerPeers")
          /\ todo' = [todo EXCEPT ![r] = Peers(r)]
          /\ UNCHANGED <<engine, locks, owner, gate, mode, target, probe, expired, op>>
       \/ answer \in {"unknown", "error"} /\ RevalidationFails(r)
       \/ answer = "error" /\ RevalidationEscapes(r)

OwnerPeers(r) ==
  /\ pc[r] = "ownerPeers"
  /\ \E m \in todo[r] : \E answer \in SleepState(m) :
       \/ /\ answer = "asleep"
          /\ todo' = [todo EXCEPT ![r] = @ \ {m}]
          /\ UNCHANGED <<engine, locks, owner, gate, mode, pc, target, probe, expired, op>>
       \/ answer # "asleep" /\ RevalidationFails(r)
       \/ answer = "error" /\ RevalidationEscapes(r)

OwnerListed(r) ==
  /\ pc[r] = "ownerPeers" /\ todo[r] = {}
  /\ \/ /\ ready' = TRUE
        /\ lifecycle' = "active"
        /\ published' = Record("ready", target[r])
        /\ LeaveLease(r)
        /\ IF pending = target[r] THEN GoNotify(r, "admit") ELSE Go(r, "admit")
        /\ UNCHANGED <<engine, condition, sleepLock, active, starting,
                       quiescing, inflight, mode, locals>>
     \/ Faults /\ RevalidationFails(r)
     \/ RevalidationEscapes(r)

-----------------------------------------------------------------------------
(* _ensure_awake_startup_locked: sleep the old owner ...                   *)
OldSleep(r) ==
  /\ pc[r] = "oldSleep"
  /\ \/ /\ FallAsleep(active)
        /\ Go(r, "oldWait")
        /\ UNCHANGED <<locks, owner, gate, mode, locals>>
     \/ SleepFails(active) /\ FailStartup(r)

OldWait(r) ==
  /\ pc[r] = "oldWait"
  /\ \/ /\ "asleep" \in SleepState(active)
        /\ ClearOwner
        /\ Go(r, "peerCheck")
        /\ UNCHANGED <<engine, locks, starting, gate, mode, locals>>
     \/ Faults /\ FailStartup(r) /\ UNCHANGED engine

(* ... verify every other engine asleep, putting it to sleep if need be ...*)
PeerCheck(r) ==
  /\ pc[r] = "peerCheck"
  /\ \E m \in todo[r] : \E answer \in SleepState(m) :
       \/ /\ answer = "asleep"
          /\ todo' = [todo EXCEPT ![r] = @ \ {m}]
          /\ UNCHANGED <<engine, locks, owner, gate, mode, pc, target, probe, expired, op>>
       \/ /\ answer = "awake"
          /\ probe' = [probe EXCEPT ![r] = m]
          /\ Go(r, "peerSleep")
          /\ UNCHANGED <<engine, locks, owner, gate, mode, target, todo, expired, op>>
       \/ answer \in {"unknown", "error"} /\ FailStartup(r) /\ UNCHANGED engine

PeerSleep(r) ==
  /\ pc[r] = "peerSleep"
  /\ \/ /\ FallAsleep(probe[r])
        /\ Go(r, "peerWait")
        /\ UNCHANGED <<locks, owner, gate, mode, locals>>
     \/ SleepFails(probe[r]) /\ FailStartup(r)

PeerWait(r) ==
  /\ pc[r] = "peerWait"
  /\ \/ /\ "asleep" \in SleepState(probe[r])
        /\ todo' = [todo EXCEPT ![r] = @ \ {probe[r]}]
        /\ probe' = [probe EXCEPT ![r] = None]
        /\ Go(r, "peerCheck")
        /\ UNCHANGED <<engine, locks, owner, gate, mode, target, expired, op>>
     \/ Faults /\ FailStartup(r) /\ UNCHANGED engine

(* ... look at the target, remember it as owner unless admission denies the*)
(* wake, and skip the wake if it is already awake ...                      *)
RememberTarget(r, next) ==
  /\ active' = target[r] /\ ready' = FALSE /\ lifecycle' = "starting"
  /\ Go(r, next)
  /\ UNCHANGED <<engine, locks, starting, published, gate, mode, locals>>

TargetCheck(r) ==
  /\ pc[r] = "peerCheck" /\ todo[r] = {}
  /\ \E answer \in SleepState(target[r]) :
       \/ answer = "awake" /\ RememberTarget(r, "readiness")
       \/ answer \in {"asleep", "unknown"} /\ RememberTarget(r, "weights")
       \/ /\ answer = "error" \/ (Denials /\ answer # "awake")
          /\ FailStartup(r) /\ UNCHANGED engine

(* ... wake it, each POST behind an admission check ...                    *)
WakePhase(r) ==
  /\ pc[r] \in WakePhases
  /\ \/ /\ IF pc[r] = "weights" THEN WakeUp(target[r]) ELSE UNCHANGED engine
        /\ Go(r, NextPhase(pc[r]))
        /\ UNCHANGED <<locks, owner, gate, mode, locals>>
     \/ /\ IF pc[r] = "weights" THEN WakeFails(target[r])
                                ELSE Faults /\ UNCHANGED engine
        /\ FailStartup(r)
     \/ Denials /\ FailStartup(r) /\ UNCHANGED engine

LeaveSleep(r) ==
  /\ pc[r] = "leaveSleep"
  /\ \/ /\ SleepState(target[r]) \cap {"awake", "unknown"} # {}
        /\ Go(r, "readiness")
        /\ UNCHANGED <<engine, locks, owner, gate, mode, locals>>
     \/ Faults /\ FailStartup(r) /\ UNCHANGED engine

(* ... and wait for it to be listed, run its smoke request and check       *)
(* admission once more.                                                    *)
Readiness(r) ==
  /\ pc[r] = "readiness"
  /\ \/ /\ ready' = TRUE
        /\ lifecycle' = "active"
        /\ published' = Record("ready", target[r])
        /\ starting' = None
        /\ LeaveLease(r)
        /\ GoNotify(r, "admit")
        /\ UNCHANGED <<engine, condition, sleepLock, active, quiescing,
                       inflight, mode, locals>>
     \/ (Faults \/ Denials) /\ FailStartup(r) /\ UNCHANGED engine

-----------------------------------------------------------------------------
(* The handler's own sleep of a target whose start failed.                 *)
LeaveAsleep(r) == ClearOwner /\ ExitStartup(r) /\ UNCHANGED engine

(* An exception the handler does not list passes it: its finally publishes *)
(* what the owner's fields say, and the lifecycle stays at "starting".     *)
UndoEscapes(r) ==
  /\ Faults
  /\ published' = Record(IF ready THEN "ready" ELSE "idle", active)
  /\ ExitStartup(r)
  /\ UNCHANGED <<active, ready, lifecycle>>

UndoCheck(r) ==
  /\ pc[r] = "undoCheck"
  /\ \E answer \in SleepState(target[r]) :
       \/ answer = "asleep" /\ LeaveAsleep(r)
       \/ /\ answer = "awake"
          /\ Go(r, "undoSleep")
          /\ UNCHANGED <<engine, locks, owner, gate, mode, locals>>
       \/ answer \in {"unknown", "error"} /\ LeaveDemand(r) /\ UNCHANGED engine
       \/ answer = "error" /\ UndoEscapes(r) /\ UNCHANGED engine

UndoSleep(r) ==
  /\ pc[r] = "undoSleep"
  /\ \/ /\ FallAsleep(target[r])
        /\ Go(r, "undoWait")
        /\ UNCHANGED <<locks, owner, gate, mode, locals>>
     \/ SleepFails(target[r]) /\ (LeaveDemand(r) \/ UndoEscapes(r))

UndoWait(r) ==
  /\ pc[r] = "undoWait"
  /\ \/ "asleep" \in SleepState(target[r]) /\ LeaveAsleep(r)
     \/ Faults /\ (LeaveDemand(r) \/ UndoEscapes(r)) /\ UNCHANGED engine

-----------------------------------------------------------------------------
(* The final check and the increment share the request lock.               *)
Admit(r) ==
  /\ pc[r] = "admit"
  /\ condition' = None
  /\ \/ /\ inflight' = inflight + 1
        /\ Go(r, "leased")
        /\ UNCHANGED locals
     \/ Denials /\ Return(r) /\ UNCHANGED inflight
  /\ UNCHANGED <<engine, lease, sleepLock, owner, pending, quiescing, mode>>

(* Mutant: the error path leaks the request.                               *)
MarkAndLeak(r) ==
  /\ pc[r] = "lost" /\ condition = None
  /\ IF active = target[r] THEN MarkUnknown(target[r])
                           ELSE UNCHANGED <<ready, lifecycle, published>>
  /\ GoNotify(r, "released")
  /\ UNCHANGED <<engine, locks, active, starting, gate, mode, locals>>

(* The upstream is lost while the response is forwarded:                   *)
(* mark_owner_unavailable, before the lease on the model is released.      *)
UpstreamLost(r) ==
  /\ pc[r] = "leased" /\ Faults
  /\ Go(r, "lost")
  /\ UNCHANGED <<engine, locks, owner, gate, mode, locals>>

MarkOwnerUnavailable(r) ==
  /\ pc[r] = "lost" /\ condition = None
  /\ IF active = target[r] THEN MarkUnknown(target[r])
                           ELSE UNCHANGED <<ready, lifecycle, published>>
  /\ GoNotify(r, "marked")
  /\ UNCHANGED <<engine, locks, active, starting, gate, mode, locals>>

(* Mutants: the lease on the model can be released twice, or its release   *)
(* wakes nobody.                                                           *)
EndResponseTwice(r) ==
  /\ pc[r] \in {"leased", "marked", "released"}
  /\ inflight' = inflight - 1
  /\ Go(r, "released")
  /\ UNCHANGED <<engine, locks, owner, pending, quiescing, mode, locals>>

ReleaseQuietly(r) ==
  /\ pc[r] = "released" /\ condition = None
  /\ Return(r)
  /\ UNCHANGED <<engine, locks, owner, gate, mode>>

(* release: the decrement needs no condition, the notification does.       *)
EndResponse(r) ==
  /\ pc[r] \in {"leased", "marked"}
  /\ inflight' = inflight - 1
  /\ Go(r, "released")
  /\ UNCHANGED <<engine, locks, owner, pending, quiescing, mode, locals>>

NotifyRelease(r) ==
  /\ pc[r] = "released" /\ condition = None
  /\ ReturnNotify(r)
  /\ UNCHANGED <<engine, locks, owner, gate, mode>>

-----------------------------------------------------------------------------
(* Everything a request does by itself once it has arrived; the end of the *)
(* upstream response is the engine's and the client's doing.               *)
RequestStep(r) ==
  \/ DenyEntry(r) \/ DeferToDrain(r) \/ DeferToInflight(r)
  \/ GiveUpInDrain(r) \/ GiveUpInCount(r) \/ PassSwitch(r) \/ DenySwitch(r)
  \/ DeadlinePasses(r, {"waiting", "resume"})
  \/ TakeLease(r) \/ OwnerCheck(r) \/ OwnerPeers(r) \/ OwnerListed(r)
  \/ OldSleep(r) \/ OldWait(r) \/ PeerCheck(r) \/ PeerSleep(r) \/ PeerWait(r)
  \/ TargetCheck(r) \/ WakePhase(r) \/ LeaveSleep(r) \/ Readiness(r)
  \/ UndoCheck(r) \/ UndoSleep(r) \/ UndoWait(r)
  \/ Admit(r) \/ MarkOwnerUnavailable(r) \/ NotifyRelease(r)
=============================================================================
