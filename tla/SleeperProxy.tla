---------------------------- MODULE SleeperProxy ----------------------------
(***************************************************************************)
(* One proxy process in front of its engines: inference requests, POST     *)
(* /sleep calls, startup operations and crashes, interleaved.              *)
(***************************************************************************)
EXTENDS Acquire, Backoff, Startup

Init ==
  /\ engine \in [Models -> {"asleep", "awake"}]
  /\ condition = None /\ lease = None /\ sleepLock = None
  /\ active = None /\ ready = FALSE /\ lifecycle = "unknown" /\ starting = None
  /\ published = Record("none", None)
  /\ pending = None /\ quiescing = FALSE /\ inflight = 0
  /\ finalized = ~Bootstrap /\ listening = Bootstrap /\ crashes = 0
  /\ pc = [t \in Threads |-> "idle"]
  /\ target = [t \in Threads |-> None]
  /\ todo = [t \in Threads |-> {}]
  /\ probe = [t \in Threads |-> None]
  /\ expired = [t \in Threads |-> FALSE]
  /\ op = [t \in Threads |-> None]

Request(r) == Arrive(r) \/ RequestStep(r) \/ UpstreamLost(r) \/ EndResponse(r)

Sleeper(s) == SleepCall(s) \/ SleeperStep(s)

Controller(c) == ControlCall(c) \/ ControllerStep(c)

EngineSettles(m) ==
  Settle(m) /\ UNCHANGED <<locks, owner, gate, mode, pc, locals>>

Next ==
  \/ \E r \in Requests : Request(r)
  \/ \E s \in Sleepers : Sleeper(s)
  \/ \E c \in Controllers : Controller(c)
  \/ \E m \in Models : EngineSettles(m)
  \/ Crash

Spec == Init /\ [][Next]_vars

(* A step of t other than the passing of its deadline.                     *)
InTime(t) == expired'[t] => expired[t]

(* Every thread that can take a step of its own eventually does: the server*)
(* runs a thread per connection, every HTTP call has a timeout and every   *)
(* poll a budget.  Calls need not arrive, responses need not end, and      *)
(* whether deadlines pass is left to Clocks.                               *)
FairThreads ==
  /\ \A r \in Requests : WF_vars(RequestStep(r) /\ InTime(r))
  /\ \A s \in Sleepers : WF_vars(SleeperStep(s) /\ InTime(s))
  /\ \A c \in Controllers : WF_vars(ControllerStep(c))
  /\ \A m \in Models : WF_vars(EngineSettles(m))

FairSpec == Spec /\ FairThreads

(* Deadlines pass.                                                         *)
Clocks == \A t \in Requests \cup Sleepers :
            WF_vars(DeadlinePasses(t, {"sleepLock", "enter", "waiting", "resume"}))

(* Upstream responses end.                                                 *)
ResponsesEnd == \A r \in Requests : WF_vars(EndResponse(r))

-----------------------------------------------------------------------------
(* Where threads are.                                                      *)
StartupSteps ==
  {"oldSleep", "oldWait", "peerCheck", "peerSleep", "peerWait",
   "weights", "reload", "kvCache", "mmCache", "leaveSleep", "readiness",
   "undoCheck", "undoSleep", "undoWait"}

Activating == {"ownerCheck", "ownerPeers"} \cup StartupSteps  \* holds the lease
Acquiring  == {"lease", "admit"} \cup Activating              \* holds the condition
Serving    == {"leased", "lost", "marked"}                    \* counted in flight

SleepingSteps == {"validate", "sleepCheck", "sleepPost", "sleepPoll"}  \* lease
SleepSteps    == {"announce", "sleepLease", "commit", "abort"} \cup SleepingSteps

OpSteps == {"opBegin", "opCheck", "opSleep", "opPoll", "opAdopt", "opFinally"}

RequestPC    == {"idle", "done", "enter", "waiting", "resume", "released"}
                  \cup Acquiring \cup Serving
SleeperPC    == {"idle", "done", "sleepLock", "enter", "waiting", "resume"}
                  \cup SleepSteps
ControllerPC == {"idle", "done", "opLease"} \cup OpSteps

Served(r) == IF pc[r] \in Serving THEN target[r] ELSE None

LockTypes ==
  /\ condition \in Threads \cup {None}
  /\ lease \in Threads \cup {None}
  /\ sleepLock \in Sleepers \cup {None}

OwnerTypes ==
  /\ active \in Models \cup {None}
  /\ ready \in BOOLEAN
  /\ lifecycle \in {"unknown", "sleeping", "active", "starting", "demand"}
  /\ starting \in Models \cup {None, System}
  /\ published \in [phase : Phases, model : Models \cup {None, System}]

GateTypes ==
  /\ pending \in Models \cup {None}
  /\ quiescing \in BOOLEAN
  /\ inflight \in Nat

ModeTypes == finalized \in BOOLEAN /\ listening \in BOOLEAN /\ crashes \in Nat

PcTypes ==
  /\ pc \in [Threads -> RequestPC \cup SleeperPC \cup ControllerPC]
  /\ \A r \in Requests : pc[r] \in RequestPC
  /\ \A s \in Sleepers : pc[s] \in SleeperPC
  /\ \A c \in Controllers : pc[c] \in ControllerPC

LocalTypes ==
  /\ target \in [Threads -> Models \cup {None}]
  /\ todo \in [Threads -> SUBSET Models]
  /\ probe \in [Threads -> Models \cup {None}]
  /\ expired \in [Threads -> BOOLEAN]
  /\ op \in [Threads -> {"sleep", "finalize", "adopt", "reconcile", None}]

(* Every variable has its type: the program counters of each kind of       *)
(* thread, owners among the configured models, a count that never goes     *)
(* below zero (manager.py __init__ and release).                           *)
TypeOK ==
  /\ engine \in [Models -> EngineStates]
  /\ LockTypes /\ OwnerTypes /\ GateTypes /\ ModeTypes /\ PcTypes /\ LocalTypes

-----------------------------------------------------------------------------
(* The lineup's promise: at most one engine is woken, only after every     *)
(* other was put to sleep, and no engine is put to sleep under a request   *)
(* (README.md: the at-most-one invariant, lines 7 and 105-107).            *)
Promise == INSTANCE Lineup WITH
             Clients  <- Requests,
             resident <- {m \in Models : engine[m] # "asleep"},
             serving  <- [r \in Requests |-> Served(r)]

(* Every behaviour of the proxy is one of the lineup's.                    *)
KeepsPromise == Promise!Spec

(* No response is cut off by its engine being put to sleep.                *)
NeverEvicted ==
  \A r \in Requests : pc[r] = "leased" => engine[target[r]] # "asleep"

(* While a /sleep call quiesces, nobody is admitted: the count can only    *)
(* fall, through the wait for zero and through the sleep that follows it.  *)
QuiesceHolds == [][quiescing /\ quiescing' => inflight' <= inflight]_vars

(* The count is exactly the requests between admission and release: it is  *)
(* what a drain waits for, and nothing is counted twice or leaked.         *)
InflightCounts == inflight = Cardinality({r \in Requests : pc[r] \in Serving})

(* Once a switch is pending, no request for another model is admitted      *)
(* (docs/multimodal-chat.md: steady traffic cannot starve the switch).     *)
PendingBlocksOthers ==
  [][\A r \in Requests :
       (pc[r] = "admit" /\ pc'[r] = "leased") => pending \in {None, target[r]}]_vars

(* A pending switch has a thread behind it that will drop it: otherwise    *)
(* requests for every other model wait for nothing.                        *)
PendingHasRequester ==
  pending # None =>
    \E r \in Requests : target[r] = pending /\ pc[r] \in {"waiting", "resume"} \cup Acquiring

(* No thread is at work on the engines.                                    *)
AtRest == condition = None /\ lease = None /\ ~quiescing

(* With no transition in progress, an engine that holds memory is the      *)
(* cached owner, so that the next switch or /sleep will find it.           *)
AwakeIsOwned ==
  listening /\ finalized /\ AtRest => \A m \in Models : engine[m] # "asleep" => active = m

(* And a cached owner that claims to be ready is awake.                    *)
ReadyIsAwake == AtRest /\ ready => active # None /\ engine[active] = "awake"

(* Between transitions the lifecycle state says what the ownership fields  *)
(* say, and no start is announced (SLP-LIFE-005, /healthz).  "starting"    *)
(* may still stand there: a start whose undo was cut short by an exception *)
(* no handler lists (manager.py:912).  Its owner is then remembered, so    *)
(* that the next request revalidates it and the next switch sleeps it, and *)
(* without faults of the engines it never happens.                         *)
LifecycleExplicit ==
  AtRest =>
    /\ starting = None
    /\ lifecycle = "active" <=> ready
    /\ lifecycle = "sleeping" => active = None
    /\ ready => active # None
    /\ lifecycle = "starting" => Faults /\ active # None

(* What the host guard reads is never ahead of a proxy that serves: the    *)
(* file says ready only of a ready owner, and announces a transition only  *)
(* while its owner is at work.  A record that outlives its process is gone *)
(* by the time the next one serves.                                        *)
RecordTruthful ==
  listening /\ finalized =>
    /\ published.phase = "ready" => ready /\ published.model = active
    /\ published.phase \in {"starting", "bootstrap_sleep", "finalizing", "adopting"} =>
         lease # None /\ starting = published.model
    /\ published.phase = "sleeping" => quiescing

(* Where a startup operation, with the lease, takes the condition.         *)
WantsCondition(t) == pc[t] \in {"opBegin", "opAdopt", "opFinally"}
                       \/ (pc[t] = "opCheck" /\ todo[t] = {})

(* No two threads wait for each other's lock: one holding the condition and*)
(* wanting the lease, the other the reverse.                               *)
NoLockCycle ==
  ~ \E r, c \in Threads :
      /\ r # c /\ condition = r /\ pc[r] = "lease"
      /\ lease = c /\ WantsCondition(c)

(* Startup operations wake nothing: until the lineup is finalized no engine*)
(* leaves sleep (startup_sleep_model: "without waking any engine").        *)
BootstrapWakesNothing ==
  [][~finalized => \A m \in Models : engine[m] = "asleep" => engine'[m] = "asleep"]_vars

(* Where the next call may sleep or wake an engine.                        *)
EngineSteps == (Activating \ {"ownerCheck", "ownerPeers"}) \cup SleepingSteps
                 \cup {"opSleep", "opPoll"}

(* Lifecycle transitions of the engines happen under the lease, one thread *)
(* at a time (SLP-LIFE-004).                                               *)
LeaseSerializes ==
  \A t \in Threads : pc[t] \in EngineSteps => lease = t

-----------------------------------------------------------------------------
(* Once calls stop coming in, every request in acquire is leased or        *)
(* answered and every POST /sleep is answered, whoever queues behind the   *)
(* sleep-operation lock, the condition or the lease, and even if the       *)
(* responses they wait for never end: the drain deadlines bound it.  While *)
(* calls keep coming nobody is promised a turn, since the locks are not    *)
(* fair.                                                                   *)
NoCallArrives ==
  \A t \in Requests \cup Sleepers : pc[t] = "idle" => pc'[t] = "idle"

CallsAnswered ==
  Clocks /\ <>[][NoCallArrives]_vars =>
    <>[](\A t \in Requests \cup Sleepers : pc[t] \in {"idle", "done"} \cup Serving)

(* With responses that end, the deadlines are not needed: while none passes*)
(* and no more calls come in, nobody is left waiting.  So no notification  *)
(* is lost between switches, /sleep calls and releases.                    *)
NoWakeUpLost ==
  ResponsesEnd /\ [](\A t \in Threads : ~expired[t]) /\ <>[][NoCallArrives]_vars =>
    <>[](\A t \in Requests \cup Sleepers :
           pc[t] \notin {"sleepLock", "enter", "waiting", "resume"})

(* When the last thread has returned, no lock is held, no request counted  *)
(* and no start announced, whatever denied, timed out or crashed; and no   *)
(* quiescence is left, unless a POST /sleep could not write its record     *)
(* (manager.py:707, 715), which has withdrawn the readiness as well; with  *)
(* the startup endpoints an adoption may have set it again.  Whether the   *)
(* pending switch is left is PendingHasRequester's subject.                *)
NoResidue ==
  (\A t \in Threads : pc[t] \in {"idle", "done"}) =>
    /\ condition = None /\ lease = None /\ sleepLock = None
    /\ inflight = 0 /\ starting = None
    /\ quiescing => DiskFaults /\ (ready => Bootstrap)
=============================================================================
