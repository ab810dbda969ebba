---------------------------- MODULE ManagerState ----------------------------
(***************************************************************************)
(* The state of one proxy process (ModelManager.__init__, manager.py) and  *)
(* of the threads inside it, with the helpers its methods share.           *)
(*                                                                         *)
(* A step of the model is what a thread does between two points where it   *)
(* can block or call an engine: taking the condition, the lease file or    *)
(* the sleep-operation lock, waiting on the condition, one HTTP call.      *)
(* What the code runs under the condition between two such points is one   *)
(* step.  A request-lock section is one step as well.                      *)
(***************************************************************************)
EXTENDS Integers, FiniteSets, Engines

CONSTANTS
  Requests,     \* handler threads of inference POSTs
  Sleepers,     \* handler threads of POST /sleep
  Controllers,  \* the main thread, and the handlers of /startup/*
  None, System, \* no model; the "__system_startup__" and similar owners
  Bounded,      \* the sleepers that carry deadlines (X-Sleeper-* headers)
  Bootstrap,    \* bootstrap_mode
  Level2,       \* wake_strategy = "level2"
  Timeouts,     \* drain and containment deadlines may pass
  Denials,      \* the admission checks may deny
  DiskFaults,   \* the transition file may fail to be written in POST /sleep
  Repeat,       \* a thread that returns may serve another call
  MaxCrashes    \* bound: process crashes in a behaviour

Threads == Requests \cup Sleepers \cup Controllers

ASSUME ManagerAssumption ==
  /\ Requests \cap Sleepers = {}
  /\ Requests \cap Controllers = {}
  /\ Sleepers \cap Controllers = {}
  /\ None \notin Models \cup Threads /\ System \notin Models \cup {None}
  /\ Bounded \subseteq Sleepers
  /\ IsFiniteSet(Requests)
  /\ {Bootstrap, Level2, Timeouts, Denials, DiskFaults, Repeat} \subseteq BOOLEAN
  /\ MaxCrashes \in Nat

VARIABLES
  condition,  \* holder of _condition
  lease,      \* holder of the startup_lease file lock
  sleepLock,  \* holder of _sleep_operation_lock
  active,     \* _active_model_name
  ready,      \* _active_model_ready
  lifecycle,  \* _lifecycle_state
  starting,   \* _starting_model_name
  published,  \* the transition file: its phase and model
  pending,    \* _pending_switch_name
  quiescing,  \* _quiescing
  inflight,   \* _inflight_requests
  finalized,  \* _startup_finalized
  listening,  \* the HTTP listener is bound
  crashes,    \* crashes so far
  pc, target, todo, probe, expired, op
    \* per thread: where it is, the model it is for, the models its loop has
    \* left, the model it is putting to sleep, whether its drain deadline has
    \* passed, and the operation of a controller

locks  == <<condition, lease, sleepLock>>
owner  == <<active, ready, lifecycle, starting, published>>
gate   == <<pending, quiescing, inflight>>
mode   == <<finalized, listening, crashes>>
locals == <<target, todo, probe, expired, op>>
vars   == <<engine, locks, owner, gate, mode, pc, locals>>

-----------------------------------------------------------------------------
Phases == {"none", "idle", "starting", "ready", "sleeping", "unknown",
           "demand", "bootstrap_sleep", "finalizing", "adopting"}

Record(phase, m) == [phase |-> phase, model |-> m]

Go(t, l) == pc' = [pc EXCEPT ![t] = l]

(* The program counters after notify_all: whoever waits must now reacquire *)
(* the condition.                                                          *)
Notified(f) == [t \in Threads |-> IF f[t] = "waiting" THEN "resume" ELSE f[t]]

GoNotify(t, l) == pc' = Notified([pc EXCEPT ![t] = l])

(* Where a thread is between calls.  The main thread's process is          *)
(* restarted by its supervisor when reconciliation fails.                  *)
Rest(t) == IF Repeat \/ (t \in Controllers /\ ~Bootstrap) THEN "idle" ELSE "done"

Forget(t) ==
  /\ target' = [target EXCEPT ![t] = None]
  /\ todo' = [todo EXCEPT ![t] = {}]
  /\ probe' = [probe EXCEPT ![t] = None]
  /\ expired' = [expired EXCEPT ![t] = FALSE]
  /\ op' = [op EXCEPT ![t] = None]

Return(t)       == Go(t, Rest(t)) /\ Forget(t)
ReturnNotify(t) == GoNotify(t, Rest(t)) /\ Forget(t)

(* _clear_owner_locked                                                     *)
ClearOwner ==
  /\ active' = None
  /\ ready' = FALSE
  /\ lifecycle' = "sleeping"
  /\ published' = Record("idle", None)

(* Mutant: the cached readiness survives.                                  *)
MarkUnknownStillReady(m) ==
  /\ UNCHANGED ready
  /\ lifecycle' = "unknown"
  /\ published' = Record("unknown", m)

(* _mark_lifecycle_unknown_locked                                          *)
MarkUnknown(m) ==
  /\ ready' = FALSE
  /\ lifecycle' = "unknown"
  /\ published' = Record("unknown", m)

(* Mutant: the cached readiness survives.                                  *)
PublishDemandStillReady(m) ==
  /\ UNCHANGED ready
  /\ lifecycle' = "demand"
  /\ published' = Record("demand", m)

(* _raise_lifecycle_demand_locked, and the handlers of _ensure_awake_locked*)
(* that do the same: ownership is kept, readiness is not.                  *)
PublishDemand(m) ==
  /\ ready' = FALSE
  /\ lifecycle' = "demand"
  /\ published' = Record("demand", m)

(* The drain deadline passes while the thread is blocked on a lock or      *)
(* waiting; a timed-out wait must reacquire the condition before it acts.  *)
DeadlinePasses(t, blocked) ==
  /\ Timeouts
  /\ pc[t] \in blocked /\ ~expired[t]
  /\ expired' = [expired EXCEPT ![t] = TRUE]
  /\ Go(t, IF pc[t] = "waiting" THEN "resume" ELSE pc[t])
  /\ UNCHANGED <<engine, locks, owner, gate, mode, target, todo, probe, op>>
=============================================================================
