------------------------------- MODULE Backoff -------------------------------
(***************************************************************************)
(* POST /sleep: ModelManager.sleep_active_model.  It quiesces new requests,*)
(* waits for the count of requests in flight to reach zero, and then, with *)
(* the condition free and the startup lease held, puts the active engine to*)
(* sleep.  With no active engine it proves every engine asleep instead.    *)
(*                                                                         *)
(* A sleeper in Bounded carries a drain deadline and a later containment   *)
(* deadline; the others have the configured drain timeout alone.           *)
(***************************************************************************)
EXTENDS ManagerState

SleepCall(s) ==
  /\ pc[s] = "idle" /\ listening
  /\ Go(s, "sleepLock")
  /\ UNCHANGED <<engine, locks, owner, gate, mode, locals>>

TakeSleepLock(s) ==
  /\ pc[s] = "sleepLock" /\ sleepLock = None
  /\ ~(s \in Bounded /\ expired[s])
  /\ sleepLock' = s
  /\ Go(s, "enter")
  /\ UNCHANGED <<engine, condition, lease, owner, gate, mode, locals>>

FreeSleepLock(s) == sleepLock' = IF sleepLock = s THEN None ELSE sleepLock

(* A bounded caller gives up on the sleep lock, or on the condition.       *)
SleepCallExpires(s) ==
  /\ s \in Bounded /\ expired[s]
  /\ pc[s] \in {"sleepLock", "enter"}
  /\ FreeSleepLock(s)
  /\ Return(s)
  /\ UNCHANGED <<engine, condition, lease, owner, gate, mode>>

-----------------------------------------------------------------------------
(* Under the condition: quiesce, then wait for zero.                       *)
InDrainLoop(s) ==
  /\ condition = None
  /\ \/ pc[s] = "resume"
     \/ pc[s] = "enter" /\ ~(s \in Bounded /\ expired[s])

WaitForZero(s) ==
  /\ InDrainLoop(s) /\ ~expired[s] /\ inflight > 0
  /\ quiescing' = TRUE
  /\ Go(s, "waiting")
  /\ UNCHANGED <<engine, locks, owner, pending, inflight, mode, locals>>

(* Mutant: a drain that times out stays quiesced.                          *)
GiveUpQuiesced(s) ==
  /\ InDrainLoop(s) /\ expired[s]
  /\ quiescing' = TRUE
  /\ FreeSleepLock(s)
  /\ ReturnNotify(s)
  /\ UNCHANGED <<engine, condition, lease, owner, pending, inflight, mode>>

(* Mutant: or keeps the lock that other calls queue for.                   *)
GiveUpHoldingLock(s) ==
  /\ InDrainLoop(s) /\ expired[s]
  /\ quiescing' = FALSE
  /\ ReturnNotify(s)
  /\ UNCHANGED <<engine, locks, owner, pending, inflight, mode>>

GiveUpZero(s) ==
  /\ InDrainLoop(s) /\ expired[s]
  /\ quiescing' = FALSE
  /\ FreeSleepLock(s)
  /\ ReturnNotify(s)
  /\ UNCHANGED <<engine, condition, lease, owner, pending, inflight, mode>>

Drained(s) ==
  /\ InDrainLoop(s) /\ ~expired[s] /\ inflight = 0
  /\ quiescing' = TRUE
  /\ target' = [target EXCEPT ![s] = active]
  /\ Go(s, IF active = None THEN "sleepLease" ELSE "announce")
  /\ UNCHANGED <<engine, locks, owner, pending, inflight, mode,
                 todo, probe, expired, op>>

-----------------------------------------------------------------------------
(* Outside the condition: announce, take the lease, act.                   *)
Announce(s) ==
  /\ pc[s] = "announce"
  /\ published' = Record("sleeping", target[s])
  /\ Go(s, "sleepLease")
  /\ UNCHANGED <<engine, locks, active, ready, lifecycle, starting, gate, mode,
                 locals>>

(* _publish_transition raises (a full disk, a missing directory).          *)
AnnounceFails(s) ==
  /\ DiskFaults
  /\ pc[s] = "announce" /\ Go(s, "abort")
  /\ UNCHANGED <<engine, locks, owner, gate, mode, locals>>

TakeSleepLease(s) ==
  /\ pc[s] = "sleepLease" /\ lease = None
  /\ lease' = s
  /\ IF target[s] = None
       THEN Go(s, "validate") /\ todo' = [todo EXCEPT ![s] = Models]
       ELSE Go(s, "sleepCheck") /\ UNCHANGED todo
  /\ UNCHANGED <<engine, condition, sleepLock, owner, gate, mode,
                 target, probe, expired, op>>

(* Leaving the lease, for the commit or, on any exception, for the abort.  *)
LeaveFor(s, next) ==
  /\ lease' = IF lease = s THEN None ELSE lease
  /\ Go(s, next)
  /\ UNCHANGED <<condition, sleepLock, owner, gate, mode, locals>>

(* A containment deadline passes: in the wait for the lease or before the  *)
(* next call.  An unbounded caller has one too when it validates the       *)
(* lineup, and that one starts before its wait for the lease.              *)
ContainmentExpires(s) ==
  /\ Timeouts
  /\ \/ s \in Bounded /\ pc[s] \in {"sleepLease", "sleepCheck", "sleepPost", "sleepPoll"}
     \/ pc[s] = "validate" /\ todo[s] # {}
  /\ LeaveFor(s, "abort")
  /\ UNCHANGED engine

ValidateAsleep(s) ==
  /\ pc[s] = "validate"
  /\ \E m \in todo[s] : \E answer \in SleepState(m) :
       \/ /\ answer = "asleep"
          /\ todo' = [todo EXCEPT ![s] = @ \ {m}]
          /\ UNCHANGED <<engine, locks, owner, gate, mode, pc, target, probe, expired, op>>
       \/ answer # "asleep" /\ LeaveFor(s, "abort") /\ UNCHANGED engine

AllAsleep(s) ==
  /\ pc[s] = "validate" /\ todo[s] = {}
  /\ LeaveFor(s, "commit")
  /\ UNCHANGED engine

SleepCheck(s) ==
  /\ pc[s] = "sleepCheck"
  /\ \E answer \in SleepState(target[s]) :
       \/ answer = "asleep" /\ LeaveFor(s, "commit")
       \/ /\ answer = "awake"
          /\ Go(s, "sleepPost")
          /\ UNCHANGED <<locks, owner, gate, mode, locals>>
       \/ answer \in {"unknown", "error"} /\ LeaveFor(s, "abort")
  /\ UNCHANGED engine

SleepPost(s) ==
  /\ pc[s] = "sleepPost"
  /\ \/ /\ FallAsleep(target[s])
        /\ Go(s, "sleepPoll")
        /\ UNCHANGED <<locks, owner, gate, mode, locals>>
     \/ SleepFails(target[s]) /\ LeaveFor(s, "abort")

(* Mutant: an accepted /sleep is taken for a finished one.                 *)
SleepUnverified(s) ==
  /\ pc[s] = "sleepPoll"
  /\ LeaveFor(s, "commit")
  /\ UNCHANGED engine

SleepPoll(s) ==
  /\ pc[s] = "sleepPoll"
  /\ \/ "asleep" \in SleepState(target[s]) /\ LeaveFor(s, "commit")
     \/ Faults /\ LeaveFor(s, "abort")
  /\ UNCHANGED engine

-----------------------------------------------------------------------------
(* Back under the condition: the result, and the end of the quiescence.    *)
EndSleep(s) ==
  /\ condition = None
  /\ quiescing' = FALSE
  /\ FreeSleepLock(s)
  /\ ReturnNotify(s)
  /\ UNCHANGED <<engine, condition, lease, starting, pending, inflight, mode>>

CommitSleep(s) ==
  /\ pc[s] = "commit"
  /\ IF target[s] = None
       THEN /\ ready' = FALSE
            /\ lifecycle' = "sleeping"
            /\ published' = Record("idle", None)
            /\ UNCHANGED active
       ELSE ClearOwner
  /\ EndSleep(s)

AbortSleep(s) ==
  /\ pc[s] = "abort"
  /\ MarkUnknown(target[s]) /\ UNCHANGED active
  /\ EndSleep(s)

(* The publication raises before anyone is notified and, in a call that had*)
(* an engine, before the quiescence has ended.                             *)
EndUnpublished(s) ==
  /\ DiskFaults /\ condition = None
  /\ \/ /\ pc[s] = "commit" /\ lifecycle' = "sleeping"
        /\ active' = IF target[s] = None THEN active ELSE None
     \/ pc[s] = "abort" /\ lifecycle' = "unknown" /\ UNCHANGED active
  /\ ready' = FALSE
  /\ quiescing' = (quiescing /\ target[s] # None)
  /\ FreeSleepLock(s)
  /\ Return(s)
  /\ UNCHANGED <<engine, condition, lease, starting, published, pending, inflight, mode>>

SleeperStep(s) ==
  \/ TakeSleepLock(s) \/ SleepCallExpires(s)
  \/ WaitForZero(s) \/ GiveUpZero(s) \/ Drained(s) \/ Announce(s)
  \/ DeadlinePasses(s, {"sleepLock", "enter", "waiting", "resume"})
  \/ TakeSleepLease(s) \/ ContainmentExpires(s)
  \/ ValidateAsleep(s) \/ AllAsleep(s)
  \/ SleepCheck(s) \/ SleepPost(s) \/ SleepPoll(s)
  \/ CommitSleep(s) \/ AbortSleep(s)
  \/ AnnounceFails(s) \/ EndUnpublished(s)
=============================================================================
