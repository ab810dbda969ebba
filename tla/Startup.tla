------------------------------- MODULE Startup -------------------------------
(***************************************************************************)
(* The operations that bring the lineup into a known state: outside        *)
(* bootstrap mode the reconciliation the main thread performs before the   *)
(* listener is bound, in bootstrap mode the handlers of /startup/sleep,    *)
(* /startup/finalize and /startup/adopt; and the crash of the process.     *)
(* The loops over the lineup visit it in any order, so that every          *)
(* configured order is covered.                                            *)
(***************************************************************************)
EXTENDS ManagerState

Ops == IF Bootstrap THEN {"sleep", "finalize", "adopt"} ELSE {"reconcile"}

ControlCall(c) ==
  /\ pc[c] = "idle"
  /\ \/ Bootstrap /\ listening
     \/ ~Bootstrap /\ ~listening /\ \A d \in Controllers : pc[d] = "idle"
  /\ \E o \in Ops :
       /\ op' = [op EXCEPT ![c] = o]
       /\ IF o = "sleep" THEN \E m \in Models : target' = [target EXCEPT ![c] = m]
                         ELSE UNCHANGED target
  /\ Go(c, "opLease")
  /\ UNCHANGED <<engine, locks, owner, gate, mode, todo, probe, expired>>

(* Mutant: the lease is not waited for.                                    *)
SeizeOpLease(c) ==
  /\ pc[c] = "opLease"
  /\ lease' = c
  /\ Go(c, "opBegin")
  /\ UNCHANGED <<engine, condition, sleepLock, owner, gate, mode, locals>>

TakeOpLease(c) ==
  /\ pc[c] = "opLease" /\ lease = None
  /\ lease' = c
  /\ Go(c, "opBegin")
  /\ UNCHANGED <<engine, condition, sleepLock, owner, gate, mode, locals>>

OpPhase(c) == IF op[c] = "sleep" THEN "bootstrap_sleep"
              ELSE IF op[c] = "finalize" THEN "finalizing"
              ELSE IF op[c] = "adopt" THEN "adopting"
              ELSE "starting"

(* Only /startup/sleep refuses while requests are in flight or a switch is *)
(* pending.  Reconciliation does too, but it runs before any request can;  *)
(* it alone keeps the condition.                                           *)
OpRefused(c) == op[c] = "sleep" /\ (inflight > 0 \/ pending # None)

OpBegin(c) ==
  /\ pc[c] = "opBegin" /\ condition = None
  /\ IF OpRefused(c)
       THEN /\ lease' = None
            /\ Return(c)
            /\ UNCHANGED <<condition, starting, published>>
       ELSE /\ starting' = IF op[c] = "sleep" THEN target[c] ELSE System
            /\ published' = Record(OpPhase(c), starting')
            /\ condition' = IF op[c] = "reconcile" THEN c ELSE None
            /\ todo' = [todo EXCEPT ![c] = IF op[c] = "sleep" THEN {target[c]} ELSE Models]
            /\ Go(c, "opCheck")
            /\ UNCHANGED <<lease, target, probe, expired, op>>
  /\ UNCHANGED <<engine, sleepLock, active, ready, lifecycle, gate, mode>>

-----------------------------------------------------------------------------
OpFails(c) == Go(c, "opFinally") /\ UNCHANGED locals

(* An engine found asleep is still polled by /startup/sleep and finalize.  *)
OpCheck(c) ==
  /\ pc[c] = "opCheck"
  /\ \E m \in todo[c] : \E answer \in SleepState(m) :
       \/ /\ answer = "asleep" /\ op[c] \in {"sleep", "finalize"}
          /\ probe' = [probe EXCEPT ![c] = m]
          /\ Go(c, "opPoll")
          /\ UNCHANGED <<target, todo, expired, op>>
       \/ /\ answer = "asleep" /\ op[c] \in {"adopt", "reconcile"}
          /\ todo' = [todo EXCEPT ![c] = @ \ {m}]
          /\ UNCHANGED <<pc, target, probe, expired, op>>
       \/ /\ answer = "awake" /\ op[c] # "adopt"
          /\ probe' = [probe EXCEPT ![c] = m]
          /\ Go(c, "opSleep")
          /\ UNCHANGED <<target, todo, expired, op>>
       \/ \* adopt_startup_state collects the awake engines: one is adopted
          /\ answer = "awake" /\ op[c] = "adopt" /\ target[c] = None
          /\ target' = [target EXCEPT ![c] = m]
          /\ todo' = [todo EXCEPT ![c] = @ \ {m}]
          /\ UNCHANGED <<pc, probe, expired, op>>
       \/ answer = "awake" /\ op[c] = "adopt" /\ target[c] # None /\ OpFails(c)
       \/ answer \in {"unknown", "error"} /\ OpFails(c)
  /\ UNCHANGED <<engine, locks, owner, gate, mode>>

OpSleep(c) ==
  /\ pc[c] = "opSleep"
  /\ \/ FallAsleep(probe[c]) /\ Go(c, "opPoll") /\ UNCHANGED locals
     \/ SleepFails(probe[c]) /\ OpFails(c)
  /\ UNCHANGED <<locks, owner, gate, mode>>

OpPoll(c) ==
  /\ pc[c] = "opPoll"
  /\ \/ /\ "asleep" \in SleepState(probe[c])
        /\ todo' = [todo EXCEPT ![c] = @ \ {probe[c]}]
        /\ probe' = [probe EXCEPT ![c] = None]
        /\ Go(c, "opCheck")
        /\ UNCHANGED <<target, expired, op>>
     \/ Faults /\ OpFails(c)
  /\ UNCHANGED <<engine, locks, owner, gate, mode>>

OpListed(c) ==
  /\ pc[c] = "opCheck" /\ todo[c] = {} /\ op[c] = "adopt" /\ target[c] # None
  /\ \/ Go(c, "opAdopt") /\ UNCHANGED locals
     \/ Faults /\ OpFails(c)
  /\ UNCHANGED <<engine, locks, owner, gate, mode>>

-----------------------------------------------------------------------------
(* The second section under the condition.                                 *)
CommitOpSleep(c) ==
  /\ pc[c] = "opCheck" /\ todo[c] = {} /\ op[c] = "sleep" /\ condition = None
  /\ IF active = target[c] THEN ClearOwner
                           ELSE UNCHANGED <<active, ready, lifecycle, published>>
  /\ Go(c, "opFinally")
  /\ UNCHANGED <<engine, locks, starting, gate, mode, locals>>

CommitFinalize(c) ==
  /\ pc[c] = "opCheck" /\ todo[c] = {} /\ op[c] = "finalize" /\ condition = None
  /\ ClearOwner
  /\ finalized' = TRUE
  /\ Go(c, "opFinally")
  /\ UNCHANGED <<engine, locks, starting, gate, listening, crashes, locals>>

(* Mutant: the awake engine is not recorded.                               *)
AdoptNobody(c) ==
  /\ op[c] = "adopt" /\ condition = None
  /\ \/ pc[c] = "opAdopt"
     \/ pc[c] = "opCheck" /\ todo[c] = {} /\ target[c] = None
  /\ active' = None
  /\ ready' = FALSE
  /\ lifecycle' = "sleeping"
  /\ finalized' = TRUE
  /\ Go(c, "opFinally")
  /\ UNCHANGED <<engine, locks, starting, published, gate, listening, crashes, locals>>

CommitAdopt(c) ==
  /\ op[c] = "adopt" /\ condition = None
  /\ \/ pc[c] = "opAdopt"
     \/ pc[c] = "opCheck" /\ todo[c] = {} /\ target[c] = None
  /\ active' = target[c]
  /\ ready' = (target[c] # None)
  /\ lifecycle' = IF target[c] = None THEN "sleeping" ELSE "active"
  /\ finalized' = TRUE
  /\ Go(c, "opFinally")
  /\ UNCHANGED <<engine, locks, starting, published, gate, listening, crashes, locals>>

(* Mutant: the announcement stays in the transition file.                  *)
EndOpAnnounced(c) ==
  /\ starting' = None
  /\ lease' = None
  /\ condition' = None
  /\ ReturnNotify(c)
  /\ UNCHANGED <<engine, sleepLock, published, gate, finalized, crashes>>

(* Every operation ends by clearing its announcement, and only then leaves *)
(* the lease.                                                              *)
EndOp(c) ==
  /\ starting' = None
  /\ published' = Record("idle", None)
  /\ lease' = None
  /\ condition' = None
  /\ ReturnNotify(c)
  /\ UNCHANGED <<engine, sleepLock, gate, finalized, crashes>>

OpFinally(c) ==
  /\ pc[c] = "opFinally" /\ condition \in {None, c}
  /\ EndOp(c)
  /\ UNCHANGED <<active, ready, lifecycle, listening>>


(* Reconciliation succeeds, and the server binds its listener.             *)
Reconciled(c) ==
  /\ pc[c] = "opCheck" /\ todo[c] = {} /\ op[c] = "reconcile"
  /\ active' = None /\ ready' = FALSE /\ lifecycle' = "sleeping"
  /\ EndOp(c)
  /\ listening' = TRUE

ControllerStep(c) ==
  \/ TakeOpLease(c) \/ OpBegin(c) \/ OpCheck(c) \/ OpSleep(c) \/ OpPoll(c)
  \/ OpListed(c) \/ CommitOpSleep(c) \/ CommitFinalize(c) \/ CommitAdopt(c)
  \/ OpFinally(c) \/ Reconciled(c)

-----------------------------------------------------------------------------
(* A new process: the fields __init__ sets, no thread at work, no lock     *)
(* held.  The lease is an flock, which the system drops with the process.  *)
NewProcess ==
  /\ condition' = None /\ lease' = None /\ sleepLock' = None
  /\ active' = None /\ ready' = FALSE /\ lifecycle' = "unknown" /\ starting' = None
  /\ pending' = None /\ quiescing' = FALSE /\ inflight' = 0
  /\ finalized' = ~Bootstrap /\ listening' = Bootstrap
  /\ pc' = [t \in Threads |-> "idle"]
  /\ target' = [t \in Threads |-> None]
  /\ todo' = [t \in Threads |-> {}]
  /\ probe' = [t \in Threads |-> None]
  /\ expired' = [t \in Threads |-> FALSE]
  /\ op' = [t \in Threads |-> None]

(* The engines and the transition file survive the crash.                  *)
Crash ==
  /\ crashes < MaxCrashes
  /\ crashes' = crashes + 1
  /\ NewProcess
  /\ UNCHANGED <<engine, published>>
=============================================================================
