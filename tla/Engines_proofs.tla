--------------------------- MODULE Engines_proofs ---------------------------
(***************************************************************************)
(* What the proxy does to its engines, for every lineup and any number of  *)
(* threads: which engine may be awake, under whom it may be put to sleep,  *)
(* and that the proxy as a whole implements the promise of module Lineup.  *)
(* The proofs read the table of Lifecycle_proofs, never the actions.       *)
(***************************************************************************)
EXTENDS Lifecycle_proofs

USE DEF Threads

(* No wake takes effect after the proxy has seen it fail.                  *)
Punctual == LateWake => ~Faults

(* Nobody stops waiting for an engine that is still falling asleep: the    *)
(* poll of /is_sleeping neither fails nor runs out of its deadline.        *)
Settled == AsyncSleep => ~Faults /\ (~Timeouts \/ Bounded = {})

-----------------------------------------------------------------------------
(* What a thread's step does to the engines.                               *)
Wakes(t) ==
  t \in Requests /\ pc[t] = "weights" /\ (WakeUp(target[t]) \/ WakeFails(target[t]))

PutsToSleep(t, m) ==
  /\ FallAsleep(m)
  /\ \/ t \in Requests /\ Sleeping(t) /\ m = Victim(t)
     \/ t \in Sleepers /\ pc[t] = "sleepPost" /\ m = target[t]
     \/ t \in Controllers /\ pc[t] = "opSleep" /\ m = probe[t]

LEMMA EngineMoves ==
  ASSUME NEW t \in Threads, InTable(t)
  PROVE  UNCHANGED engine \/ Wakes(t) \/ \E m : PutsToSleep(t, m)
<1>1. CASE t \in Requests
  <2>1. CASE RWork(t)
    BY <1>1, <2>1 DEF RWork, Steps, CallFails, Wakes, PutsToSleep, Sleeping
  <2>2. CASE RStartLost(t)
    BY <1>1, <2>2 DEF RStartLost, CallFails, Wakes, PutsToSleep, Sleeping
  <2>3. CASE ~RWork(t) /\ ~RStartLost(t)
    BY <1>1, <2>3
       DEF InTable, RTable, RRow, RQueue, RPass, ROwner, RStart, ROwnerLost, RAsleep, RReady,
           RForget, RRemember, RAdmit, RServe
  <2> QED
    BY <2>1, <2>2, <2>3
<1>2. CASE t \in Sleepers
  BY <1>2
     DEF InTable, STable, SRow, SQueue, SWait, SGiveUp, SDrained, SWork, SEnd, Steps, PutsToSleep
<1>3. CASE t \in Controllers
  BY <1>3
     DEF InTable, CTable, CRow, CCall, CTake, CRefuse, CBegin, CLoop, CCommit, CEnd, Steps,
         PutsToSleep
<1> QED
  BY <1>1, <1>2, <1>3

(* A POST /sleep touches its engine, and wakes nothing.                    *)
LEMMA FallAsleepMoves ==
  ASSUME engine \in [Models -> EngineStates], NEW m, FallAsleep(m), NEW n \in Models
  PROVE  /\ engine'[n] # engine[n] => n = m
         /\ engine[n] = "asleep" => engine'[n] = "asleep"
         /\ engine'[n] \in {engine[n], "asleep", "falling"}
         /\ engine'[n] = "falling" => engine[n] = "falling" \/ AsyncSleep
         /\ AsyncSleep /\ engine'[n] = "asleep" => engine[n] = "asleep"
BY DEF FallAsleep

(* A wake touches its engine, and it rises late only if it may.            *)
LEMMA WakeMoves ==
  ASSUME engine \in [Models -> EngineStates], NEW m, WakeUp(m) \/ WakeFails(m), NEW n \in Models
  PROVE  /\ engine'[n] # engine[n] => n = m
         /\ engine'[n] \in {engine[n], "awake", "rising"}
         /\ engine'[n] = "rising" => engine[n] = "rising" \/ ~Punctual
BY EnginesAssumption DEF WakeUp, WakeFails, Punctual

(* An engine that sleeps is woken by a request that starts it.             *)
LEMMA AsleepStays ==
  ASSUME IInv, NEW t \in Threads, InTable(t), NEW m \in Models,
         engine[m] = "asleep", engine'[m] # "asleep"
  PROVE  t \in Requests /\ pc[t] = "weights" /\ m = target[t]
BY EngineMoves, FallAsleepMoves, WakeMoves DEF Wakes, PutsToSleep, IInv, TypeOK

-----------------------------------------------------------------------------
(* Startup operations wake nothing, nor does anyone else before the lineup *)
(* is finalized, whatever POST /sleep calls, failures and crashes come     *)
(* (startup_sleep_model, finalize_startup and adopt_startup_state).        *)
THEOREM BootstrapIsQuiet == Spec => BootstrapWakesNothing
<1>1. ASSUME IInv, HoldInv, [Next]_vars, ~finalized, NEW m \in Models, engine[m] = "asleep"
      PROVE  engine'[m] = "asleep"
  <2>1. ASSUME NEW t \in Threads, InTable(t), engine'[m] # "asleep"
        PROVE  FALSE
    <3>1. t \in Requests /\ pc[t] = "weights"
      BY <1>1, <2>1, AsleepStays
    <3> QED
      BY <1>1, <3>1 DEF HoldInv, AtWork, Up, Resting
  <2>2. CASE EnginesSettle
    BY <1>1, <2>2 DEF EnginesSettle, Settle, IInv, TypeOK
  <2>3. CASE Crash
    BY <1>1, <2>3 DEF Crash
  <2> QED
    BY <1>1, <2>1, <2>2, <2>3, StepInTable
<1>2. IInv /\ HoldInv /\ [Next]_vars =>
        [~finalized => \A m \in Models : engine[m] = "asleep" => engine'[m] = "asleep"]_vars
  BY <1>1
<1> QED
  BY <1>2, Holding, PTL DEF Spec, BootstrapWakesNothing

-----------------------------------------------------------------------------
(* At most the cached owner is awake.  Whoever goes through the lineup to  *)
(* change the owner has found asleep what it has behind it.                *)
NoRising == \A m \in Models : engine[m] # "rising"

NotAdopted == ~finalized => active = None

Owned == Up => \A m \in Models : engine[m] # "asleep" => active = m

(* The engines a startup operation is to leave asleep, as long as it loops.*)
Looping == {"opCheck", "opSleep", "opPoll", "opAdopt"}

Scope(c) == IF op[c] = "sleep" THEN {target[c]}
            ELSE IF op[c] = "adopt" THEN Models \ {target[c]}
            ELSE Models

LoopDone ==
  \A c \in Controllers : pc[c] \in Looping =>
    /\ \A m \in Models : m \in Scope(c) \ todo[c] => engine[m] = "asleep"
    /\ pc[c] = "opAdopt" => todo[c] = {} /\ op[c] = "adopt"

(* A sleeper that has found an owner has found it alone.                   *)
SleepDone ==
  \A s \in Sleepers :
    /\ pc[s] = "validate" => target[s] = None
    /\ pc[s] \in SleepSteps /\ target[s] # None =>
         \A m \in Models \ {target[s]} : engine[m] = "asleep"
    /\ pc[s] = "commit" /\ target[s] # None =>
         \A m \in Models : engine[m] = "asleep"

AloneInv == NoRising /\ NotAdopted /\ Owned /\ LoopDone /\ SleepDone

(* With engines that do not rise, one that answers so does sleep.          *)
LEMMA AsleepIsAsleep ==
  ASSUME NoRising, NEW m \in Models, Asleep(m)
  PROVE  engine[m] = "asleep"
BY DEF NoRising, Asleep

LEMMA NoRisingStep ==
  ASSUME Punctual, IInv, NoRising, NEW t \in Threads, InTable(t)
  PROVE  NoRising'
<1> SUFFICES ASSUME NEW m \in Models PROVE engine'[m] # "rising"
  BY DEF NoRising
<1>1. CASE UNCHANGED engine
  BY <1>1 DEF NoRising
<1>2. CASE Wakes(t)
  BY <1>2, WakeMoves DEF Wakes, NoRising, IInv, TypeOK
<1>3. CASE \E n : PutsToSleep(t, n)
  BY <1>3, FallAsleepMoves DEF PutsToSleep, NoRising, IInv, TypeOK
<1> QED
  BY <1>1, <1>2, <1>3, EngineMoves

(* Before an adoption or a finalization nobody is the owner.               *)
LEMMA NotAdoptedStep ==
  ASSUME HoldInv, NotAdopted, NEW t \in Threads, InTable(t)
  PROVE  NotAdopted'
<1> SUFFICES ASSUME ~finalized' PROVE active' = None
  BY DEF NotAdopted
<1>1. CASE t \in Requests
  <2>1. pc[t] \in Resting
    BY <1>1 DEF InTable, RTable, mode, HoldInv, AtWork, Up
  <2>2. RQueue(t)
    BY <1>1, <2>1
       DEF InTable, RTable, RRow, RPass, ROwner, RStart, ROwnerLost, RStartLost, RAsleep, RReady,
           RForget, RRemember, RWork, RAdmit, RServe, Steps, Resting, StartupSteps, Woken,
           UndoSteps
  <2> QED
    BY <1>1, <2>2 DEF InTable, RTable, mode, RQueue, owner, NotAdopted
<1>2. CASE t \in Sleepers
  <2>1. active = None
    BY <1>2 DEF InTable, STable, mode, NotAdopted
  <2>2. active' \in {active, None}
    BY <1>2
       DEF InTable, STable, SRow, SQueue, SWait, SGiveUp, SDrained, SWork, SEnd, owner
  <2> QED
    BY <2>1, <2>2
<1>3. CASE t \in Controllers
  BY <1>3
     DEF InTable, CTable, CRow, CCall, CTake, CRefuse, CBegin, CLoop, CCommit, ClearOwner, CEnd,
         mode, owner, NotAdopted
<1> QED
  BY <1>1, <1>2, <1>3

(* A request leaves no engine awake but its own, and makes it the owner    *)
(* before it wakes it.                                                     *)
LEMMA RequestOwned ==
  ASSUME LIInv, NoRising, Owned, NEW r \in Requests, InTable(r), Up,
         NEW m \in Models, engine'[m] # "asleep"
  PROVE  active' = m
<1> USE DEF LIInv
<1>0. /\ pc[r] \notin Resting => target[r] \in Models
      /\ active \in Models \cup {None} /\ None \notin Models
  BY ManagerAssumption DEF HoldInv, AtWork, IInv, TypeOK, OwnerTypes
<1>1. engine[m] # "asleep" => active = m
  BY DEF Owned
<1>2. engine[m] = "asleep" => pc[r] = "weights" /\ m = target[r]
  BY AsleepStays
<1>3. CASE RQueue(r) \/ RPass(r) \/ ROwner(r) \/ ROwnerLost(r) \/ RReady(r) \/ RAdmit(r) \/ RServe(r)
  BY <1>1, <1>3
     DEF RQueue, RPass, ROwner, ROwnerLost, Lost, RReady, RAdmit, RServe, owner
<1>4. CASE RStart(r)
  <2>1. engine' = engine
    BY <1>4 DEF RStart
  <2>2. CASE Steps(r, {"lease"}, {IF active = None THEN "peerCheck" ELSE "oldSleep"})
    BY <1>1, <1>4, <2>1, <2>2 DEF RStart, Steps
  <2>3. CASE Steps(r, {"ownerCheck"}, {"peerCheck"})
    <3>1. active = target[r] /\ target[r] \in Models /\ Asleep(target[r])
      BY <1>0, <1>4, <2>3 DEF RStart, Steps, OwnerInv, OwnerPlaces, Resting
    <3> QED
      BY <1>1, <2>1, <3>1, AsleepIsAsleep
  <2> QED
    BY <1>4, <2>2, <2>3 DEF RStart
<1>5. CASE RStartLost(r)
  <2>1. pc[r] # "weights"
    BY <1>5 DEF RStartLost, UndoSteps, OwnerInv, OwnerPlaces, OwnSteps
  <2> QED
    BY <1>1, <1>2, <1>5, <2>1 DEF RStartLost, Lost
<1>6. CASE RAsleep(r)
  <2>1. active = target[r] /\ target[r] \in Models /\ Asleep(target[r]) /\ engine' = engine
    BY <1>0, <1>6 DEF RAsleep, Steps, OwnerInv, OwnerPlaces, OwnSteps, UndoSteps, Resting
  <2> QED
    BY <1>1, <2>1, AsleepIsAsleep
<1>7. CASE RForget(r)
  <2>1. active \in Models /\ Asleep(active) /\ engine' = engine
    BY <1>0, <1>7 DEF RForget, Steps, OwnerInv, OwnerPlaces, OldSteps
  <2> QED
    BY <1>1, <2>1, AsleepIsAsleep
<1>8. CASE RRemember(r)
  BY <1>0, <1>1, <1>8 DEF RRemember, Steps, OwnerInv, OwnerPlaces, PeerSteps
<1>9. CASE RWork(r)
  <2>1. pc[r] = "weights" => active = target[r]
    BY DEF OwnerInv, OwnerPlaces, OwnSteps
  <2> QED
    BY <1>1, <1>2, <1>9, <2>1 DEF RWork, owner
<1> QED
  BY <1>3, <1>4, <1>5, <1>6, <1>7, <1>8, <1>9 DEF InTable, RTable, RRow

LEMMA OwnedStep ==
  ASSUME LIInv, AloneInv, NEW t \in Threads, InTable(t)
  PROVE  Owned'
<1> USE DEF LIInv, AloneInv
<1> SUFFICES ASSUME Up', NEW m \in Models, engine'[m] # "asleep"
             PROVE  active' = m
  BY DEF Owned
<1>1. CASE t \in Requests
  <2>1. Up
    BY <1>1 DEF InTable, RTable, Up, mode
  <2> QED
    BY <1>1, <2>1, RequestOwned
<1>2. CASE t \in Sleepers
  <2>1. engine[m] # "asleep"
    BY <1>2, AsleepStays, ManagerAssumption
  <2>2. Up /\ active = m
    BY <1>2, <2>1 DEF InTable, STable, Up, mode, Owned
  <2>3. CASE SEnd(t)
    <3>1. pc[t] = "commit" => target[t] = None
      BY <1>2, <2>1 DEF SleepDone
    <3> QED
      BY <2>2, <2>3, <3>1 DEF SEnd
  <2>4. CASE ~SEnd(t)
    BY <1>2, <2>2, <2>4
       DEF InTable, STable, SRow, SQueue, SWait, SGiveUp, SDrained, SWork, owner
  <2> QED
    BY <2>3, <2>4
<1>3. CASE t \in Controllers
  <2>1. engine[m] # "asleep"
    BY <1>3, AsleepStays, ManagerAssumption
  <2>2. pc[t] \in Looping /\ todo[t] = {} => m \notin Scope(t)
    BY <1>3, <2>1 DEF LoopDone
  <2>3. CASE CCommit(t)
    <3>1. pc[t] \in Looping /\ todo[t] = {}
      BY <1>3, <2>3 DEF CCommit, Steps, Looping, LoopDone
    <3>2. Up => active = m
      BY <2>1 DEF Owned
    <3>3. m \notin Scope(t)
      BY <2>2, <3>1
    <3>4. CASE op[t] = "sleep"
      <4>1. Up
        BY <2>3, <3>4 DEF CCommit, Up
      <4>2. active # target[t]
        BY <3>2, <3>3, <3>4, <4>1 DEF Scope
      <4> QED
        BY <2>3, <3>2, <3>4, <4>1, <4>2 DEF CCommit
    <3>5. CASE op[t] = "adopt"
      BY <2>3, <3>3, <3>5 DEF CCommit, Scope
    <3>6. CASE op[t] \notin {"sleep", "adopt"}
      BY <3>3, <3>6 DEF Scope
    <3> QED
      BY <3>4, <3>5, <3>6
  <2>4. CASE CEnd(t)
    <3>1. CASE pc[t] = "opFinally"
      BY <2>1, <2>4, <3>1 DEF CEnd, Steps, Up, Owned
    <3>2. CASE pc[t] # "opFinally"
      BY <2>2, <2>4, <3>2 DEF CEnd, Steps, Looping, Scope
    <3> QED
      BY <3>1, <3>2
  <2>5. CASE CCall(t) \/ CTake(t) \/ CRefuse(t) \/ CBegin(t) \/ CLoop(t)
    BY <2>1, <2>5 DEF CCall, CTake, CRefuse, CBegin, CLoop, mode, owner, Up, Owned
  <2> QED
    BY <1>3, <2>3, <2>4, <2>5 DEF InTable, CTable, CRow
<1> QED
  BY <1>1, <1>2, <1>3

(* A startup operation that loops has the lease: nobody wakes an engine    *)
(* behind it.                                                              *)
LEMMA LoopDoneStep ==
  ASSUME LIInv, NoRising, LoopDone, NEW t \in Threads, InTable(t)
  PROVE  LoopDone'
<1> USE DEF LIInv
<1> SUFFICES ASSUME NEW c \in Controllers, pc'[c] \in Looping
             PROVE  /\ \A m \in Models : m \in (Scope(c) \ todo[c])' => engine'[m] = "asleep"
                    /\ pc'[c] = "opAdopt" => todo'[c] = {} /\ op'[c] = "adopt"
  BY DEF LoopDone
<1>0. /\ Looping = {"opCheck", "opSleep", "opPoll", "opAdopt"} /\ Looping \subseteq OpSteps
      /\ "waiting" \notin Looping /\ Resting \cap Looping = {}
      /\ "weights" \in Activating
  BY DEF Looping, OpSteps, Resting, Activating, StartupSteps
<1>1. CASE c # t
  <2>1. pc[c] \in Looping /\ UNCHANGED <<pc[c], target[c], todo[c], op[c]>>
    BY <1>0, <1>1, InTableFrame DEF Frame, Others
  <2>2. lease = c
    BY <1>0, <2>1 DEF IInv, LocksHeld, HoldsLease
  <2>3. pc[t] # "weights"
    BY <1>0, <1>1, <2>2 DEF IInv, LocksHeld, HoldsLease
  <2>4. \A m \in Models : engine[m] = "asleep" => engine'[m] = "asleep"
    BY <2>3, AsleepStays
  <2> QED
    BY <2>1, <2>4 DEF LoopDone, Scope
<1>2. CASE c = t
  <2>1. CTable(c) /\ (CBegin(c) \/ CLoop(c))
    BY <1>0, <1>2
       DEF InTable, CTable, CRow, CCall, CTake, CRefuse, CCommit, CEnd, Steps
  <2>2. \A m \in Models : engine[m] = "asleep" => engine'[m] = "asleep"
    BY <1>2, AsleepStays, ManagerAssumption
  <2>3. CASE CBegin(c)
    <3>1. (Scope(c) \ todo[c])' = {}
      BY <2>3 DEF CBegin, Scope
    <3> QED
      BY <2>3, <3>1 DEF CBegin, Steps
  <2>4. CASE CLoop(c)
    <3>1. pc[c] \in Looping /\ UNCHANGED op
      BY <1>0, <2>4 DEF CLoop, Steps
    <3>2. pc'[c] = "opAdopt" => todo'[c] = {} /\ op'[c] = "adopt"
      BY <2>4 DEF CLoop, Steps
    <3>3. \/ UNCHANGED <<target, todo>>
          \/ /\ UNCHANGED target
             /\ \E m : Asleep(m) /\ todo'[c] = todo[c] \ {m}
          \/ /\ op[c] = "adopt" /\ target[c] = None
             /\ \E m : target'[c] = m /\ todo'[c] = todo[c] \ {m}
      BY <2>4 DEF CLoop, Steps
    <3>4. ASSUME NEW m \in Models, m \in (Scope(c) \ todo[c])'
          PROVE  engine[m] = "asleep"
      <4>1. m \in Scope(c) \ todo[c] \/ Asleep(m)
        BY <3>1, <3>3, <3>4, ManagerAssumption DEF Scope
      <4> QED
        BY <3>1, <4>1, AsleepIsAsleep DEF LoopDone
    <3> QED
      BY <2>2, <3>2, <3>4
  <2> QED
    BY <2>1, <2>3, <2>4
<1> QED
  BY <1>1, <1>2

(* A sleeper has quiesced the requests: nobody wakes an engine behind it   *)
(* either, and the owner it found was awake alone.                         *)
LEMMA SleepDoneStep ==
  ASSUME LIInv, AloneInv, NEW t \in Threads, InTable(t)
  PROVE  SleepDone'
<1> USE DEF LIInv, AloneInv
<1> SUFFICES ASSUME NEW s \in Sleepers
             PROVE  /\ pc'[s] = "validate" => target'[s] = None
                    /\ pc'[s] \in SleepSteps /\ target'[s] # None =>
                         \A m \in Models \ {target'[s]} : engine'[m] = "asleep"
                    /\ pc'[s] = "commit" /\ target'[s] # None =>
                         \A m \in Models : engine'[m] = "asleep"
  BY DEF SleepDone
<1>0. /\ SleepSteps = {"announce", "sleepLease", "commit", "abort", "validate", "sleepCheck",
                       "sleepPost", "sleepPoll"}
      /\ "weights" \in Acquiring
      /\ Resting \cap SleepSteps = {}
  BY DEF SleepSteps, SleepingSteps, Acquiring, Activating, StartupSteps, Resting
<1>1. CASE s # t
  <2>1. pc'[s] \in SleepSteps => pc[s] = pc'[s] /\ target'[s] = target[s]
    BY <1>0, <1>1, InTableFrame DEF Frame, Others
  <2>2. pc[s] \in SleepSteps => \A m \in Models : engine[m] = "asleep" => engine'[m] = "asleep"
    <3> SUFFICES ASSUME pc[s] \in SleepSteps, NEW m \in Models, engine[m] = "asleep"
                 PROVE  engine'[m] = "asleep"
      OBVIOUS
    <3>1. \A r \in Requests : pc[r] # "weights"
      BY <1>0 DEF HoldInv, Quiesced, IInv, GatesHold
    <3> QED
      BY <3>1, AsleepStays
  <2> QED
    BY <1>0, <2>1, <2>2 DEF SleepDone
<1>2. CASE s = t
  <2>0. STable(s) /\ \A m \in Models : engine[m] = "asleep" => engine'[m] = "asleep"
    BY <1>2, AsleepStays, ManagerAssumption DEF InTable
  <2>1. CASE SQueue(s) \/ SWait(s) \/ SGiveUp(s) \/ SEnd(s)
    BY <1>0, <2>1 DEF SQueue, SWait, SGiveUp, SEnd, Steps
  <2>2. CASE SDrained(s)
    <3>1. pc'[s] \in {"sleepLease", "announce"} /\ target'[s] = active
      BY <2>2 DEF SDrained, Steps
    <3>2. active # None => Up
      <4>1. pc[s] \notin Resting
        BY <2>2 DEF SDrained, Steps, Resting
      <4> QED
        BY <4>1, ManagerAssumption DEF HoldInv, Modes, NotAdopted, Up
    <3> QED
      BY <1>0, <2>0, <3>1, <3>2 DEF Owned
  <2>3. CASE SWork(s)
    <3>1. pc[s] \in SleepSteps /\ UNCHANGED target
      BY <1>0, <2>3 DEF SWork, Steps, SleepingSteps
    <3>2. pc'[s] = "validate" => target[s] = None
      BY <2>3 DEF SWork, Steps, SleepDone
    <3>3. pc'[s] = "commit" /\ target[s] # None => Asleep(target[s])
      BY <1>0, <2>3 DEF SWork, Steps, SleepDone
    <3>4. pc'[s] = "commit" /\ target[s] # None => \A m \in Models : engine[m] = "asleep"
      BY <3>1, <3>3, AsleepIsAsleep DEF SleepDone
    <3> QED
      BY <2>0, <3>1, <3>2, <3>4 DEF SleepDone
  <2> QED
    BY <2>0, <2>1, <2>2, <2>3 DEF STable, SRow
<1> QED
  BY <1>1, <1>2

LEMMA AloneStep ==
  ASSUME Punctual, LIInv, AloneInv, [Next]_vars
  PROVE  AloneInv'
<1>1. ASSUME NEW t \in Threads, InTable(t)
      PROVE  AloneInv'
  BY <1>1, NoRisingStep, NotAdoptedStep, OwnedStep, LoopDoneStep, SleepDoneStep
     DEF AloneInv, LIInv
<1>2. CASE ProxyStays /\ EnginesSettle
  <2>1. \A m \in Models : engine'[m] \in {engine[m], "asleep"}
    BY <1>2 DEF EnginesSettle, Settle, AloneInv, NoRising, LIInv, IInv, TypeOK
  <2> QED
    BY <1>2, <2>1 DEF ProxyStays, owner, mode, locals, AloneInv, NoRising, NotAdopted, Owned, Up,
                      LoopDone, Scope, SleepDone
<1>3. CASE Crash
  <2>1. /\ \A t \in Threads : pc'[t] = "idle"
        /\ finalized' = ~Bootstrap /\ listening' = Bootstrap /\ active' = None
        /\ UNCHANGED engine
    BY <1>3 DEF Crash, NewProcess
  <2>2. "idle" \notin Looping \cup SleepSteps \cup {"validate", "commit"}
    BY DEF Looping, SleepSteps, SleepingSteps
  <2> QED
    BY <2>1, <2>2 DEF AloneInv, NoRising, NotAdopted, Owned, Up, LoopDone, SleepDone
<1> QED
  BY <1>1, <1>2, <1>3, StepInTable DEF LIInv

LEMMA InitAloneInv == Init => AloneInv
<1> SUFFICES ASSUME Init PROVE AloneInv
  OBVIOUS
<1>1. /\ \A t \in Threads : pc[t] = "idle"
      /\ finalized = ~Bootstrap /\ listening = Bootstrap /\ active = None
      /\ engine \in [Models -> {"asleep", "awake"}]
  BY DEF Init
<1>2. "idle" \notin Looping \cup SleepSteps \cup {"validate", "commit"}
  BY DEF Looping, SleepSteps, SleepingSteps
<1> QED
  BY <1>1, <1>2 DEF AloneInv, NoRising, NotAdopted, Owned, Up, LoopDone, SleepDone

THEOREM Alone ==
  ASSUME Punctual
  PROVE  Spec => []AloneInv
<1>1. LIInv /\ AloneInv /\ [Next]_vars => AloneInv'
  BY AloneStep
<1> QED
  BY <1>1, Ownership, InitAloneInv, PTL DEF Spec

(* Of a lineup that is let in, no engine but the cached owner holds memory,*)
(* be a transition in progress or not: the next switch or POST /sleep finds*)
(* it (_ensure_awake_startup_locked, sleep_active_model, adopt).           *)
THEOREM AwakeEngineIsOwned ==
  ASSUME Punctual
  PROVE  Spec => []AwakeIsOwned
<1>1. AloneInv => AwakeIsOwned
  BY DEF AloneInv, Owned, Up, AwakeIsOwned
<1> QED
  BY <1>1, Alone, PTL

-----------------------------------------------------------------------------
(* Outside bootstrap mode, a request is served by an engine that is awake, *)
(* and that stays so under it.                                             *)
Idle == \A q \in Requests : pc[q] \notin Serving

(* Where a thread waits for engine m to report that it sleeps.             *)
WaitsFor(t, m) ==
  \/ pc[t] = "oldWait" /\ active = m
  \/ pc[t] = "peerWait" /\ probe[t] = m
  \/ pc[t] \in {"undoWait", "sleepPoll"} /\ target[t] = m

(* An engine that is falling asleep is waited for.                         *)
Falling ==
  \A m \in Models : engine[m] = "falling" =>
    AsyncSleep /\ (~listening \/ \E t \in Threads : WaitsFor(t, m))

AwakeAt == {"ownerPeers", "admit"} \cup Woken \cup Serving

AwakePlaces == \A r \in Requests : pc[r] \in AwakeAt => engine[target[r]] = "awake"

ServedActive == \A r \in Requests : pc[r] \in Serving => active = target[r]

(* No switch has gone past the drain while a request is served.            *)
StartsIdle ==
  \A r \in Requests :
    \/ pc[r] \in StartupSteps
    \/ pc[r] = "lease" /\ active \notin {None, target[r]}
    => Idle

ReadyAwake ==
  ready => /\ listening
           /\ engine[active] = "awake" \/ \E t \in Threads : pc[t] \in {"oldWait"} \cup SleepSteps

ServedInv == Falling /\ AwakePlaces /\ ServedActive /\ StartsIdle /\ ReadyAwake

(* A count of zero says that nobody is served.                             *)
LEMMA CountIdle ==
  ASSUME IInv, inflight = 0
  PROVE  Idle
<1>1. Cardinality(InService) = 0
  BY DEF IInv, InflightCounts, InService
<1>2. InService = {}
  BY <1>1, InServiceFinite, FS_EmptySet
<1> QED
  BY <1>2 DEF InService, Idle

(* Nor is anyone admitted but from the last check.                         *)
LEMMA IdleStays ==
  ASSUME Idle, NEW t \in Threads, InTable(t), pc[t] # "admit"
  PROVE  Idle'
<1> SUFFICES ASSUME NEW q \in Requests, pc'[q] \in Serving PROVE FALSE
  BY DEF Idle
<1>1. CASE q = t
  BY <1>1 DEF InTable, Orderly, CountOrderly, Idle
<1>2. CASE q # t
  BY <1>2, InTableFrame DEF Frame, Others, Idle, Serving
<1> QED
  BY <1>1, <1>2

(* Once the listener is bound there is no operation but in bootstrap mode. *)
LEMMA NoOperation ==
  ASSUME ~Bootstrap, HoldInv, listening, NEW c \in Controllers, InTable(c)
  PROVE  FALSE
<1>1. pc[c] \in Resting
  BY DEF HoldInv, Modes
<1> QED
  BY <1>1
     DEF InTable, CTable, CRow, CCall, CTake, CRefuse, CBegin, CLoop, CCommit, CEnd, Steps, Resting

(* A request that has the condition has the engines to itself,             *)
LEMMA EngineFrame ==
  ASSUME ~Bootstrap, LIInv, NEW t \in Threads, InTable(t),
         NEW r \in Requests \ {t}, pc[r] \in Acquiring
  PROVE  UNCHANGED engine
<1> USE DEF LIInv
<1>1. condition = r /\ ~quiescing /\ listening
  BY DEF IInv, LocksHeld, HoldsCondition, GatesHold, HoldInv, AtWork, Up, Acquiring, Activating,
         StartupSteps, Resting
<1>2. t \in Requests => pc[t] \notin StartupSteps
  BY <1>1, RequestPlaces DEF IInv, LocksHeld, HoldsCondition
<1>3. t \in Sleepers => pc[t] # "sleepPost"
  BY <1>1 DEF HoldInv, Quiesced, SleepSteps, SleepingSteps
<1>4. t \notin Controllers
  BY <1>1, NoOperation
<1> QED
  BY <1>2, <1>3, <1>4, EngineMoves DEF Wakes, PutsToSleep, Sleeping, StartupSteps

(* and leaves them alone while one is served, as a sleeper does.           *)
LEMMA ServedFrame ==
  ASSUME ~Bootstrap, LIInv, StartsIdle, ~Idle, NEW t \in Threads, InTable(t)
  PROVE  UNCHANGED engine
<1> USE DEF LIInv
<1>1. listening
  BY DEF Idle, Serving, HoldInv, AtWork, Up, Resting
<1>2. t \in Requests => pc[t] \notin StartupSteps
  BY DEF StartsIdle
<1>3. t \in Sleepers => pc[t] # "sleepPost"
  BY CountIdle DEF HoldInv, Quiesced, SleepSteps, SleepingSteps
<1>4. t \notin Controllers
  BY <1>1, NoOperation
<1> QED
  BY <1>2, <1>3, <1>4, EngineMoves DEF Wakes, PutsToSleep, Sleeping, StartupSteps

(* With the lease, and not waiting, a request finds no engine falling.     *)
LEMMA NoneFalls ==
  ASSUME LIInv, Falling, NEW r \in Requests, pc[r] \in Activating \ WaitSteps, NEW m \in Models
  PROVE  engine[m] # "falling"
<1> USE DEF LIInv
<1> SUFFICES ASSUME engine[m] = "falling" PROVE FALSE
  OBVIOUS
<1>1. listening /\ lease = r
  BY DEF HoldInv, AtWork, Up, Activating, StartupSteps, Resting, IInv, LocksHeld, HoldsLease
<1>2. PICK u \in Threads : WaitsFor(u, m)
  BY <1>1 DEF Falling
<1>3. HoldsLease(u) /\ pc[u] \in WaitSteps \cup {"sleepPoll"}
  BY <1>2 DEF WaitsFor, HoldsLease, Activating, StartupSteps, SleepingSteps, WaitSteps
<1>4. u = r
  BY <1>1, <1>3 DEF IInv, LocksHeld
<1>5. "sleepPoll" \notin Activating
  BY DEF Activating, StartupSteps
<1> QED
  BY <1>3, <1>4, <1>5

(* Whoever has put an engine to sleep waits for it, and is not disturbed.  *)
LEMMA FallingStep ==
  ASSUME ~Bootstrap, Settled, LIInv, AsyncSleep => AloneInv, Falling,
         NEW t \in Threads, InTable(t)
  PROVE  Falling'
<1> USE DEF LIInv
<1> SUFFICES ASSUME NEW m \in Models, engine'[m] = "falling"
             PROVE  AsyncSleep /\ (listening' => \E u \in Threads : WaitsFor(u, m)')
  BY DEF Falling
<1>0. engine \in [Models -> EngineStates]
  BY DEF IInv, TypeOK
<1>1. engine[m] = "falling" \/ (AsyncSleep /\ PutsToSleep(t, m))
  <2>1. CASE Wakes(t)
    BY <1>0, <2>1, WakeMoves DEF Wakes
  <2>2. ASSUME NEW n, PutsToSleep(t, n)
        PROVE  engine[m] = "falling" \/ (AsyncSleep /\ PutsToSleep(t, m))
    BY <1>0, <2>2, FallAsleepMoves DEF PutsToSleep
  <2> QED
    BY <2>1, <2>2, EngineMoves
<1>2. AsyncSleep /\ ~Faults /\ (~Timeouts \/ Bounded = {}) /\ AloneInv
  BY <1>1 DEF Falling, Settled
<1>3. CASE t \in Controllers
  <2>1. CASE listening
    BY <1>3, <2>1, NoOperation
  <2>2. CASE ~listening /\ listening'
    <3>1. pc[t] = "opCheck" /\ todo[t] = {} /\ op[t] = "reconcile" /\ engine' = engine
      BY <1>3, <2>2
         DEF InTable, CTable, CRow, CCall, CTake, CRefuse, CBegin, CLoop, CCommit, CEnd, Steps,
             mode
    <3>2. engine[m] = "asleep"
      BY <1>2, <1>3, <3>1 DEF AloneInv, LoopDone, Looping, Scope
    <3> QED
      BY <3>1, <3>2
  <2> QED
    BY <1>2, <2>1, <2>2
<1>4. CASE t \notin Controllers
  <2>0. listening' = listening
    BY <1>4 DEF InTable, RTable, STable, mode
  <2>1. CASE engine[m] = "falling" /\ listening
    <3>1. PICK u \in Threads : WaitsFor(u, m)
      BY <2>1 DEF Falling
    <3>2. CASE u # t
      <4>1. pc'[u] = pc[u] /\ target'[u] = target[u] /\ probe'[u] = probe[u]
        BY <3>1, <3>2, InTableFrame DEF Frame, Others, WaitsFor
      <4>2. pc[u] = "oldWait" => active' = active
        <5> SUFFICES ASSUME pc[u] = "oldWait" PROVE active' = active
          OBVIOUS
        <5>1. u \in Requests /\ pc[u] \in Acquiring
          BY DEF IInv, TypeOK, PcTypes, SleeperPC, SleepSteps, SleepingSteps, ControllerPC,
                 OpSteps, Acquiring, Activating, StartupSteps
        <5> QED
          BY <3>2, <4>1, <5>1, AcquiringFrame
      <4> QED
        BY <1>2, <3>1, <4>1, <4>2 DEF WaitsFor
    <3>3. CASE u = t /\ t \in Requests
      <4>1. CASE RQueue(t) \/ RPass(t) \/ ROwner(t) \/ RStart(t) \/ ROwnerLost(t) \/ RReady(t)
                 \/ RRemember(t) \/ RAdmit(t) \/ RServe(t)
        BY <3>1, <3>3, <4>1
           DEF WaitsFor, RQueue, RPass, ROwner, RStart, ROwnerLost, RReady, RRemember, RAdmit,
               RServe, Steps, Outside
      <4>2. CASE RStartLost(t)
        BY <1>2, <3>1, <3>3, <4>2
           DEF WaitsFor, RStartLost, StartupSteps, CallFails, WaitSteps
      <4>3. CASE RAsleep(t) \/ RForget(t)
        BY <2>1, <3>1, <3>3, <4>3 DEF WaitsFor, RAsleep, RForget, Steps, Asleep
      <4>4. CASE RWork(t)
        <5>1. pc[t] \in WaitSteps
          BY <3>1, <3>3, <4>4 DEF WaitsFor, WaitSteps, RWork, Steps, Woken, StartupSteps
        <5>2. pc[t] = "peerWait" /\ Asleep(probe[t])
          BY <1>2, <4>4, <5>1 DEF WaitSteps, RWork, Steps, CallFails, Woken, UndoSteps
        <5> QED
          BY <2>1, <3>1, <3>3, <5>2 DEF WaitsFor, Asleep
      <4> QED
        BY <3>3, <4>1, <4>2, <4>3, <4>4 DEF InTable, RTable, RRow
    <3>4. CASE u = t /\ t \in Sleepers
      BY <1>2, <2>1, <3>1, <3>4
         DEF WaitsFor, InTable, STable, SRow, SQueue, SWait, SGiveUp, SDrained, SWork, SEnd,
             Steps, SleepingSteps, Asleep
    <3> QED
      BY <1>4, <3>2, <3>3, <3>4
  <2>2. CASE engine[m] # "falling"
    <3>1. PutsToSleep(t, m) /\ engine' # engine
      BY <1>1, <2>2
    <3>2. CASE t \in Requests
      <4>1. pc[t] \in {"oldSleep", "peerSleep", "undoSleep"} /\ m = Victim(t)
        BY <3>1, <3>2, ManagerAssumption DEF PutsToSleep, Sleeping
      <4>2. RWork(t)
        BY <1>2, <3>1, <3>2, <4>1
           DEF InTable, RTable, RRow, RQueue, RPass, ROwner, RStart, ROwnerLost, RStartLost,
               RAsleep, RReady, RForget, RRemember, RAdmit, RServe, Steps, CallFails
      <4>3. /\ pc[t] = "oldSleep" => pc'[t] = "oldWait"
            /\ pc[t] = "peerSleep" => pc'[t] = "peerWait" /\ UNCHANGED probe
            /\ pc[t] = "undoSleep" => pc'[t] = "undoWait"
            /\ UNCHANGED <<active, target>>
        BY <1>2, <3>1, <4>1, <4>2 DEF RWork, Steps, CallFails, Woken, owner, UndoSteps
      <4> QED
        BY <1>2, <4>1, <4>3 DEF WaitsFor, Victim
    <3>3. CASE t \in Sleepers
      <4>1. pc[t] = "sleepPost" /\ m = target[t]
        BY <3>1, <3>3, ManagerAssumption DEF PutsToSleep
      <4>2. pc'[t] = "sleepPoll" /\ UNCHANGED target
        BY <1>2, <3>1, <3>3, <4>1
           DEF InTable, STable, SRow, SQueue, SWait, SGiveUp, SDrained, SWork, SEnd, Steps
      <4> QED
        BY <1>2, <4>1, <4>2 DEF WaitsFor
    <3> QED
      BY <1>4, <3>2, <3>3
  <2> QED
    BY <1>2, <2>0, <2>1, <2>2
<1> QED
  BY <1>3, <1>4

(* An engine that answers it with "awake" is.                              *)
LEMMA FoundAwake ==
  ASSUME LIInv, Falling, NEW r \in Requests, pc[r] \in Activating \ WaitSteps, ~Asleep(target[r])
  PROVE  engine[target[r]] = "awake"
<1>1. target[r] \in Models /\ engine \in [Models -> EngineStates]
  BY DEF LIInv, HoldInv, AtWork, Activating, StartupSteps, Resting, IInv, TypeOK
<1>2. engine[target[r]] # "falling"
  BY <1>1, NoneFalls
<1> QED
  BY <1>1, <1>2 DEF Asleep, EngineStates

(* A request finds its engine awake, or wakes it, and so it stays.         *)
LEMMA AwakePlacesStep ==
  ASSUME ~Bootstrap, LIInv, ServedInv, NEW t \in Threads, InTable(t)
  PROVE  AwakePlaces'
<1> USE DEF LIInv, ServedInv
<1> SUFFICES ASSUME NEW r \in Requests, pc'[r] \in AwakeAt
             PROVE  engine'[target'[r]] = "awake"
  BY DEF AwakePlaces
<1>0. /\ AwakeAt = {"ownerPeers", "admit", "reload", "kvCache", "mmCache", "leaveSleep",
                    "readiness", "leased", "lost", "marked"}
      /\ \A l \in AwakeAt : l \in Acquiring \cup Serving
  BY DEF AwakeAt, Woken, Serving, Acquiring, Activating, StartupSteps
<1>1. CASE r # t
  <2>1. pc[r] = pc'[r] /\ target'[r] = target[r]
    BY <1>0, <1>1, InTableFrame DEF Frame, Others
  <2>2. engine' = engine
    BY <1>0, <1>1, <2>1, EngineFrame, ServedFrame DEF Idle
  <2> QED
    BY <2>1, <2>2 DEF AwakePlaces
<1>2. CASE r = t
  <2>0. RRow(r)
    BY <1>2 DEF InTable, RTable
  <2>1. CASE RQueue(r) \/ RPass(r) \/ RStart(r) \/ ROwnerLost(r) \/ RStartLost(r) \/ RAsleep(r)
             \/ RForget(r)
    BY <1>0, <2>1
       DEF RQueue, RPass, RStart, ROwnerLost, RStartLost, RAsleep, RForget, Lost, Steps, Outside,
           Resting
  <2>2. CASE ROwner(r)
    <3>1. pc'[r] = "ownerPeers" /\ UNCHANGED <<engine, target>>
      BY <1>0, <2>2 DEF ROwner, Steps
    <3>2. CASE pc[r] = "ownerCheck"
      BY <2>2, <3>1, <3>2, FoundAwake DEF ROwner, Steps, Activating, WaitSteps
    <3>3. CASE pc[r] = "ownerPeers"
      BY <1>0, <3>1, <3>3 DEF AwakePlaces
    <3> QED
      BY <2>2, <3>1, <3>2, <3>3 DEF ROwner, Steps
  <2>3. CASE RReady(r) \/ RAdmit(r) \/ RServe(r)
    <3>1. pc[r] \in AwakeAt
      BY <1>0, <2>3 DEF RReady, RAdmit, RServe, Steps
    <3>2. UNCHANGED engine /\ target'[r] = target[r]
      BY <1>0, <2>3 DEF RReady, RAdmit, RServe, Steps, Resting
    <3> QED
      BY <3>1, <3>2 DEF AwakePlaces
  <2>4. CASE RRemember(r)
    <3>1. pc[r] = "peerCheck" /\ ~Asleep(target[r]) /\ UNCHANGED <<engine, target>>
      BY <1>0, <2>4 DEF RRemember, Steps
    <3> QED
      BY <3>1, FoundAwake DEF Activating, StartupSteps, WaitSteps
  <2>5. CASE RWork(r)
    <3>1. \/ pc[r] = "weights" /\ WakeUp(target[r])
          \/ pc[r] \in AwakeAt /\ UNCHANGED engine
      BY <1>0, <2>5 DEF RWork, Steps, Woken
    <3>2. target[r] \in Models /\ UNCHANGED target /\ engine \in [Models -> EngineStates]
      BY <1>0, <2>5, <3>1 DEF RWork, HoldInv, AtWork, Resting, IInv, TypeOK
    <3> QED
      BY <3>1, <3>2 DEF WakeUp, AwakePlaces
  <2> QED
    BY <2>0, <2>1, <2>2, <2>3, <2>4, <2>5 DEF RRow
<1> QED
  BY <1>1, <1>2

(* The owner is not taken from a request that is served.                   *)
LEMMA ServedActiveStep ==
  ASSUME ~Bootstrap, LIInv, ServedInv, NEW t \in Threads, InTable(t)
  PROVE  ServedActive'
<1> USE DEF LIInv, ServedInv
<1> SUFFICES ASSUME NEW r \in Requests, pc'[r] \in Serving
             PROVE  active' = target'[r]
  BY DEF ServedActive
<1>0. "admit" \in Acquiring /\ Serving = {"leased", "lost", "marked"}
      /\ Serving \cap Resting = {} /\ Serving \subseteq AwakeAt
  BY DEF Acquiring, Serving, Resting, AwakeAt
<1>1. CASE r = t
  <2>1. RRow(r) /\ pc'[r] \in Serving
    BY <1>1 DEF InTable, RTable
  <2>2. RAdmit(r) \/ RServe(r)
    BY <1>0, <2>1
       DEF RRow, RQueue, RPass, ROwner, RStart, ROwnerLost, RStartLost, RAsleep, RReady, RForget,
           RRemember, RWork, Lost, Steps, Outside, Woken
  <2>3. active' = active /\ target'[r] = target[r]
    BY <1>0, <2>1, <2>2 DEF RAdmit, RServe, owner, MarkUnknown
  <2>4. active = target[r]
    BY <1>0, <2>1, <2>2 DEF RAdmit, RServe, Steps, OwnerInv, OwnerPlaces, ServedActive
  <2> QED
    BY <2>3, <2>4
<1>2. CASE r # t
  <2>1. pc[r] = pc'[r] /\ target'[r] = target[r]
    BY <1>0, <1>2, InTableFrame DEF Frame, Others
  <2>2. /\ active = target[r] /\ target[r] \in Models /\ engine[target[r]] = "awake"
        /\ ~Idle /\ listening
    BY <1>0, <2>1 DEF ServedActive, AwakePlaces, HoldInv, AtWork, Up, Idle
  <2>3. CASE t \in Requests
    <3>1. pc[t] \notin StartupSteps
      BY <2>2, <2>3 DEF StartsIdle
    <3>2. ~RStart(t) \/ UNCHANGED active
      <4>1. SUFFICES ASSUME RStart(t), pc[t] = "ownerCheck" PROVE FALSE
        BY DEF RStart, Steps
      <4>2. Asleep(target[t]) /\ active = target[t]
        BY <2>3, <4>1 DEF RStart, Steps, OwnerInv, OwnerPlaces
      <4> QED
        BY <2>2, <4>2 DEF Asleep
    <3>3. ~RAsleep(t) /\ ~RForget(t) /\ ~RRemember(t)
      BY <3>1 DEF RAsleep, RForget, RRemember, Steps, StartupSteps
    <3>4. active' = active
      BY <2>3, <3>2, <3>3
         DEF InTable, RTable, RRow, RQueue, RPass, ROwner, ROwnerLost, RStartLost, Lost, RReady,
             RWork, RAdmit, RServe, owner
    <3> QED
      BY <2>1, <2>2, <3>4
  <2>4. CASE t \in Sleepers
    <3>1. pc[t] \notin SleepSteps
      BY <2>2, <2>4, CountIdle DEF HoldInv, Quiesced
    <3>2. active' = active
      BY <2>4, <3>1
         DEF InTable, STable, SRow, SQueue, SWait, SGiveUp, SDrained, SWork, SEnd, Steps,
             SleepSteps, owner
    <3> QED
      BY <2>1, <2>2, <3>2
  <2>5. CASE t \in Controllers
    BY <2>2, <2>5, NoOperation
  <2> QED
    BY <2>3, <2>4, <2>5
<1> QED
  BY <1>1, <1>2

(* A start begins when nobody is served: the switch has drained, or there  *)
(* is no owner, or the owner is found asleep.                              *)
LEMMA StartsIdleStep ==
  ASSUME LIInv, ServedInv, NEW t \in Threads, InTable(t)
  PROVE  StartsIdle'
<1> USE DEF LIInv, ServedInv
<1> SUFFICES ASSUME NEW r \in Requests,
                    \/ pc'[r] \in StartupSteps
                    \/ pc'[r] = "lease" /\ active' \notin {None, target'[r]}
             PROVE  Idle'
  BY DEF StartsIdle
<1>0. pc'[r] \in Acquiring /\ "admit" \in Acquiring
  BY RequestPlaces
<1>1. CASE r # t
  <2>1. pc[r] = pc'[r] /\ target'[r] = target[r] /\ UNCHANGED active
    BY <1>0, <1>1, AcquiringFrame
  <2>2. pc[t] # "admit"
    BY <1>0, <1>1, <2>1 DEF IInv, LocksHeld, HoldsCondition
  <2> QED
    BY <2>1, <2>2, IdleStays DEF StartsIdle
<1>2. CASE r = t
  <2>0. RRow(r)
    BY <1>2 DEF InTable, RTable
  <2>1. pc[t] # "admit" /\ (RPass(r) \/ RStart(r) \/ RForget(r) \/ RRemember(r) \/ RWork(r))
    BY <1>2, <2>0
       DEF RRow, RQueue, RPass, ROwner, RStart, ROwnerLost, RStartLost, RAsleep, RReady, RForget,
           RRemember, RWork, RAdmit, RServe, Lost, Steps, Outside, Resting, StartupSteps, Woken,
           UndoSteps
  <2> SUFFICES Idle
    BY <2>1, IdleStays
  <2>2. \A q \in Requests :
          pc[q] \in Serving => active = target[q] /\ active \in Models /\ engine[active] = "awake"
    BY DEF ServedActive, AwakePlaces, AwakeAt, HoldInv, AtWork, Resting, Serving
  <2>3. CASE RPass(r)
    BY <2>3, CountIdle, RequestPlaces DEF RPass, Steps, owner, MustSwitch
  <2>4. CASE RStart(r)
    <3>1. CASE pc[r] = "lease"
      BY <2>2, <2>4, <3>1, ManagerAssumption DEF RStart, Steps, StartsIdle, Idle
    <3>2. CASE pc[r] = "ownerCheck"
      BY <2>2, <2>4, <3>2 DEF RStart, Steps, OwnerInv, OwnerPlaces, Asleep, Idle
    <3> QED
      BY <2>4, <3>1, <3>2 DEF RStart, Steps
  <2>5. CASE RForget(r) \/ RRemember(r) \/ RWork(r)
    <3>1. pc[r] \in StartupSteps
      BY <2>5 DEF RForget, RRemember, RWork, Steps, StartupSteps, Woken
    <3> QED
      BY <3>1 DEF StartsIdle
  <2> QED
    BY <2>1, <2>3, <2>4, <2>5
<1> QED
  BY <1>1, <1>2

(* A ready owner is put to sleep only by a thread that then withdraws the  *)
(* readiness.                                                              *)
LEMMA ReadyAwakeStep ==
  ASSUME ~Bootstrap, LIInv, ServedInv, NEW t \in Threads, InTable(t)
  PROVE  ReadyAwake'
<1> USE DEF LIInv, ServedInv
<1> DEFINE W == {"oldWait"} \cup SleepSteps
<1> SUFFICES ASSUME ready'
             PROVE  listening' /\ (engine'[active'] = "awake" \/ \E u \in Threads : pc'[u] \in W)
  BY DEF ReadyAwake
<1>0. SleepSteps = {"announce", "sleepLease", "commit", "abort", "validate", "sleepCheck",
                    "sleepPost", "sleepPoll"}
  BY DEF SleepSteps, SleepingSteps
<1>1. ASSUME NEW u \in Threads \ {t}, pc[u] \in W
      PROVE  pc'[u] \in W
  BY <1>0, <1>1, InTableFrame DEF Frame, Others
<1>2. CASE t \in Requests
  <2>0. RRow(t) /\ UNCHANGED mode
    BY <1>2 DEF InTable, RTable
  <2>1. CASE RReady(t)
    <3>1. pc[t] \in {"ownerPeers", "readiness"} /\ UNCHANGED <<engine, active>>
      BY <2>1 DEF RReady, Steps
    <3>2. active = target[t] /\ engine[target[t]] = "awake" /\ listening
      BY <1>2, <3>1
         DEF OwnerInv, OwnerPlaces, OwnSteps, Woken, AwakePlaces, AwakeAt, HoldInv, AtWork, Up,
             Resting
    <3> QED
      BY <2>0, <3>1, <3>2 DEF mode
  <2>2. CASE ~RReady(t)
    <3>1. ready /\ active' = active
      BY <2>0, <2>2
         DEF RRow, RQueue, RPass, ROwner, RStart, ROwnerLost, RStartLost, RAsleep, RForget,
             RRemember, RWork, RAdmit, RServe, Lost, PublishDemand, ClearOwner, MarkUnknown, owner
    <3>2. listening
      BY <3>1 DEF ReadyAwake
    <3>3. pc[t] \notin PeerSteps \cup OwnSteps /\ (pc[t] \in OldSteps => active # target[t])
      BY <1>2, <3>1 DEF OwnerInv, OwnerPlaces
    <3>4. pc[t] \in OldSteps => pc[t] = "oldSleep" /\ pc'[t] = "oldWait"
      BY <2>0, <2>2, <3>3
         DEF RRow, RQueue, RPass, ROwner, RStart, ROwnerLost, RStartLost, RAsleep, RForget,
             RRemember, RWork, RAdmit, RServe, Lost, PublishDemand, ClearOwner, Steps, Outside,
             OldSteps, Woken, UndoSteps
    <3>5. pc[t] \notin W \ {"oldWait"}
      BY <1>2, <1>0
         DEF IInv, TypeOK, PcTypes, RequestPC, Acquiring, Activating, StartupSteps, Serving
    <3>6. CASE \E u \in Threads : pc[u] \in W
      BY <1>1, <2>0, <3>2, <3>4, <3>5, <3>6 DEF OldSteps, mode
    <3>7. CASE engine[active] = "awake"
      <4>1. engine' = engine \/ pc[t] = "oldSleep"
        BY <1>2, <3>3, EngineMoves, ManagerAssumption
           DEF Wakes, PutsToSleep, Sleeping, PeerSteps, OwnSteps, UndoSteps
      <4> QED
        BY <2>0, <3>1, <3>2, <3>4, <3>7, <4>1 DEF OldSteps, mode
    <3> QED
      BY <3>1, <3>6, <3>7 DEF ReadyAwake
  <2> QED
    BY <2>1, <2>2
<1>3. CASE t \in Sleepers
  <2>0. SRow(t) /\ UNCHANGED mode
    BY <1>3 DEF InTable, STable
  <2>1. /\ ready /\ active' = active
        /\ pc[t] \in SleepSteps => pc'[t] \in SleepSteps
        /\ engine' = engine \/ pc[t] \in SleepSteps
    BY <1>0, <2>0
       DEF SRow, SQueue, SWait, SGiveUp, SDrained, SWork, SEnd, Steps, SleepingSteps, owner
  <2>2. listening
    BY <2>1 DEF ReadyAwake
  <2>3. pc[t] # "oldWait"
    BY <1>3 DEF IInv, TypeOK, PcTypes, SleeperPC, SleepSteps, SleepingSteps
  <2> QED
    BY <1>1, <2>0, <2>1, <2>2, <2>3 DEF ReadyAwake, mode
<1>4. CASE t \in Controllers
  <2>1. CASE listening
    BY <1>4, <2>1, NoOperation
  <2>2. CASE ~listening
    <3>1. ~ready
      BY <2>2 DEF ReadyAwake
    <3>2. CCommit(t)
      BY <1>4, <3>1
         DEF InTable, CTable, CRow, CCall, CTake, CRefuse, CBegin, CLoop, CEnd, owner
    <3>3. op[t] \in Ops /\ op[t] # "reconcile"
      BY <1>4, <3>2 DEF CCommit, Steps, Resting, HoldInv, Modes
    <3> QED
      BY <3>3 DEF Ops
  <2> QED
    BY <2>1, <2>2
<1> QED
  BY <1>2, <1>3, <1>4

LEMMA ServedStep ==
  ASSUME ~Bootstrap, Settled, LIInv, AsyncSleep => AloneInv, ServedInv, [Next]_vars
  PROVE  ServedInv'
<1>1. ASSUME NEW t \in Threads, InTable(t)
      PROVE  ServedInv'
  BY <1>1, FallingStep, AwakePlacesStep, ServedActiveStep, StartsIdleStep, ReadyAwakeStep
     DEF ServedInv
<1>2. CASE ProxyStays /\ EnginesSettle
  <2>1. ASSUME NEW m \in Models
        PROVE  /\ engine[m] = "awake" => engine'[m] = "awake"
               /\ engine'[m] = "falling" => engine[m] = "falling"
    BY <1>2 DEF EnginesSettle, Settle, LIInv, IInv, TypeOK
  <2>2. /\ \A r \in Requests : pc[r] \in AwakeAt => target[r] \in Models
        /\ ready => active \in Models
    BY DEF LIInv, HoldInv, AtWork, AwakeAt, Woken, Serving, Resting, OwnerInv, ReadyOwned, IInv,
           TypeOK, OwnerTypes
  <2> QED
    BY <1>2, <2>1, <2>2
       DEF ProxyStays, owner, mode, locals, ServedInv, Falling, WaitsFor, AwakePlaces,
           ServedActive, StartsIdle, Idle, ReadyAwake
<1>3. CASE Crash
  <2>1. /\ \A t \in Threads : pc'[t] = "idle"
        /\ listening' = FALSE /\ ready' = FALSE /\ UNCHANGED engine
    BY <1>3 DEF Crash, NewProcess
  <2>2. "idle" \notin AwakeAt \cup Serving \cup StartupSteps \cup {"lease"}
    BY DEF AwakeAt, Woken, Serving, StartupSteps
  <2> QED
    BY <2>1, <2>2 DEF ServedInv, Falling, AwakePlaces, ServedActive, StartsIdle, ReadyAwake
<1> QED
  BY <1>1, <1>2, <1>3, StepInTable DEF LIInv

LEMMA InitServedInv == Init => ServedInv
<1> SUFFICES ASSUME Init PROVE ServedInv
  OBVIOUS
<1>1. /\ \A t \in Threads : pc[t] = "idle"
      /\ ready = FALSE /\ engine \in [Models -> {"asleep", "awake"}]
  BY DEF Init
<1>2. "idle" \notin AwakeAt \cup Serving \cup StartupSteps \cup {"lease"}
  BY DEF AwakeAt, Woken, Serving, StartupSteps
<1> QED
  BY <1>1, <1>2 DEF ServedInv, Falling, AwakePlaces, ServedActive, StartsIdle, ReadyAwake

THEOREM ServedByAwake ==
  ASSUME ~Bootstrap, Settled
  PROVE  Spec => [](LIInv /\ (AsyncSleep => AloneInv) /\ ServedInv)
<1>1. Spec => [](AsyncSleep => AloneInv)
  <2>1. CASE AsyncSleep
    <3>1. Punctual
      BY <2>1 DEF Settled, Punctual
    <3> QED
      BY <3>1, Alone, PTL
  <2>2. CASE ~AsyncSleep
    BY <2>2, PTL
  <2> QED
    BY <2>1, <2>2
<1>2. LIInv /\ (AsyncSleep => AloneInv) /\ ServedInv /\ [Next]_vars => ServedInv'
  BY ServedStep
<1> QED
  BY <1>1, <1>2, Ownership, InitServedInv, PTL DEF Spec

(* No response is cut off by its engine being put to sleep: not by a switch*)
(* that has counted zero, nor by a POST /sleep, nor by the end of a sleep  *)
(* that was asked for before (_wait_for_switch_safety, sleep_active_model).*)
THEOREM NobodyIsEvicted ==
  ASSUME ~Bootstrap, Settled
  PROVE  Spec => []NeverEvicted
<1>1. ServedInv => NeverEvicted
  BY DEF ServedInv, AwakePlaces, AwakeAt, Serving, NeverEvicted
<1> QED
  BY <1>1, ServedByAwake, PTL

(* A cached owner that claims to be ready is awake, unless a transition is *)
(* under way (_active_model_ready, what /healthz reports as ready).        *)
THEOREM ReadyOwnerIsAwake ==
  ASSUME ~Bootstrap, Settled
  PROVE  Spec => []ReadyIsAwake
<1>1. ASSUME LIInv, ServedInv, AtRest, ready
      PROVE  active # None /\ engine[active] = "awake"
  <2>1. active # None
    BY <1>1 DEF LIInv, OwnerInv, ReadyOwned
  <2>2. ASSUME NEW u \in Threads, pc[u] \in {"oldWait"} \cup SleepSteps
        PROVE  FALSE
    <3>1. CASE u \in Sleepers /\ pc[u] \in SleepSteps
      BY <1>1, <3>1 DEF LIInv, HoldInv, Quiesced, AtRest
    <3>2. CASE u \in Sleepers /\ pc[u] = "oldWait"
      BY <1>1, <3>2 DEF LIInv, IInv, TypeOK, PcTypes, SleeperPC, SleepSteps, SleepingSteps
    <3>3. CASE u \in Requests \cup Controllers
      <4>1. pc[u] = "oldWait"
        BY <1>1, <2>2, <3>3
           DEF LIInv, IInv, TypeOK, PcTypes, RequestPC, ControllerPC, OpSteps, SleepSteps,
               SleepingSteps, Acquiring, Activating, StartupSteps, Serving
      <4>2. HoldsLease(u)
        BY <4>1 DEF HoldsLease, Activating, StartupSteps
      <4>3. lease = u /\ u # None
        BY <1>1, <4>2, ManagerAssumption DEF LIInv, IInv, LocksHeld
      <4> QED
        BY <1>1, <4>3 DEF AtRest
    <3> QED
      BY <2>2, <3>1, <3>2, <3>3
  <2> QED
    BY <1>1, <2>1, <2>2 DEF ServedInv, ReadyAwake
<1>2. LIInv /\ ServedInv => ReadyIsAwake
  BY <1>1 DEF ReadyIsAwake
<1> QED
  BY <1>2, ServedByAwake, PTL

-----------------------------------------------------------------------------
(* The proxy keeps the promise of module Lineup, step by step.             *)
Resident == {m \in Models : engine[m] # "asleep"}

(* Who is served changes by an admission or by a release.                  *)
LEMMA ServingMoves ==
  ASSUME LIInv, NEW t \in Threads, InTable(t)
  PROVE  /\ \A r \in Requests \ {t} : Served(r)' = Served(r)
         /\ t \in Requests =>
              \/ Served(t)' = Served(t)
              \/ pc[t] = "admit" /\ Served(t) = None /\ Served(t)' = target[t] /\ UNCHANGED engine
              \/ Served(t) = target[t] /\ Served(t)' = None /\ pc[t] \in Serving
                   /\ UNCHANGED engine
<1>0. Serving = {"leased", "lost", "marked"}
  BY DEF Serving
<1>1. ASSUME NEW r \in Requests \ {t}
      PROVE  Served(r)' = Served(r)
  <2>1. /\ target'[r] = target[r]
        /\ pc'[r] = pc[r] \/ (pc[r] = "waiting" /\ pc'[r] = "resume")
    BY InTableFrame DEF Frame, Others
  <2> QED
    BY <1>0, <2>1 DEF Served
<1>2. ASSUME t \in Requests
      PROVE  \/ Served(t)' = Served(t)
             \/ pc[t] = "admit" /\ Served(t) = None /\ Served(t)' = target[t] /\ UNCHANGED engine
             \/ Served(t) = target[t] /\ Served(t)' = None /\ pc[t] \in Serving
                  /\ UNCHANGED engine
  <2>1. CASE RAdmit(t) \/ RServe(t)
    BY <1>0, <2>1 DEF RAdmit, RServe, Steps, Served, Resting
  <2>2. CASE ~RAdmit(t) /\ ~RServe(t)
    <3>1. pc[t] \notin Serving /\ pc'[t] \notin Serving
      BY <1>0, <1>2, <2>2
         DEF InTable, RTable, RRow, RQueue, RPass, ROwner, RStart, ROwnerLost, RStartLost, RAsleep,
             RReady, RForget, RRemember, RWork, Lost, Steps, Outside, Resting, StartupSteps, Woken,
             UndoSteps
    <3> QED
      BY <3>1 DEF Served
  <2> QED
    BY <2>1, <2>2
<1> QED
  BY <1>1, <1>2

(* An engine that wakes was the owner's, and no other was awake.           *)
LEMMA WakeKeepsPromise ==
  ASSUME LIInv, AloneInv, NEW t \in Threads, InTable(t), Wakes(t)
  PROVE  Resident' = Resident \/ (Resident = {} /\ Resident' = {target[t]})
<1>1. /\ target[t] \in Models /\ active = target[t] /\ Up
      /\ engine \in [Models -> EngineStates]
  BY DEF Wakes, LIInv, HoldInv, AtWork, Resting, OwnerInv, OwnerPlaces, OwnSteps, IInv, TypeOK
<1>2. \A m \in Models : engine[m] # "asleep" => m = target[t]
  BY <1>1 DEF AloneInv, Owned
<1>3. \A m \in Models :
        /\ engine'[m] # engine[m] => m = target[t]
        /\ engine'[m] \in {engine[m], "awake", "rising"}
  BY <1>1, WakeMoves DEF Wakes
<1> QED
  BY <1>1, <1>2, <1>3 DEF Resident

(* An engine that is put to sleep is put to sleep alone.                   *)
LEMMA SleepKeepsPromise ==
  ASSUME LIInv, NEW t \in Threads, NEW m, PutsToSleep(t, m)
  PROVE  Resident' = Resident \/ (m \in Resident /\ Resident' = Resident \ {m})
<1>1. \A n \in Models : /\ engine'[n] # engine[n] => n = m
                        /\ engine[n] = "asleep" => engine'[n] = "asleep"
  BY FallAsleepMoves DEF PutsToSleep, LIInv, IInv, TypeOK
<1>2. CASE m \in Models /\ engine[m] # "asleep" /\ engine'[m] = "asleep"
  BY <1>1, <1>2 DEF Resident
<1>3. CASE ~(m \in Models /\ engine[m] # "asleep" /\ engine'[m] = "asleep")
  BY <1>1, <1>3 DEF Resident
<1> QED
  BY <1>2, <1>3

(* An admission, a release, a wake and a sleep are the lineup's.           *)
LEMMA ThreadKeepsPromise ==
  ASSUME ~Bootstrap, LIInv, AloneInv, ServedInv, NEW t \in Threads, InTable(t)
  PROVE  [Promise!Next]_(Promise!lineupVars)
<1> USE DEF LIInv, ServedInv
<1>0. /\ None \notin Models
      /\ \A r \in Requests : pc[r] \in Serving \cup {"admit"} =>
           /\ target[r] \in Models /\ engine[target[r]] = "awake"
           /\ active = target[r] /\ Up
  BY ManagerAssumption
     DEF HoldInv, AtWork, Resting, Serving, AwakePlaces, AwakeAt, ServedActive, OwnerInv, OwnerPlaces
<1>1. CASE UNCHANGED engine
  <2>1. Resident' = Resident
    BY <1>1 DEF Resident
  <2>2. CASE \A r \in Requests : Served(r)' = Served(r)
    BY <2>1, <2>2 DEF Resident, Promise!lineupVars
  <2>3. CASE t \in Requests /\ pc[t] = "admit" /\ Served(t) = None /\ Served(t)' = target[t]
    <3>1. Resident = {target[t]}
      BY <1>0, <2>3 DEF Resident, AloneInv, Owned
    <3>2. [r \in Requests |-> Served(r)]' = [[r \in Requests |-> Served(r)] EXCEPT ![t] = target[t]]
      BY <2>3, ServingMoves
    <3>3. Promise!Serve(t, target[t])
      BY <2>1, <2>3, <3>1, <3>2 DEF Promise!Serve, Resident
    <3> QED
      BY <1>0, <2>3, <3>3 DEF Promise!Next
  <2>4. CASE t \in Requests /\ Served(t) = target[t] /\ Served(t)' = None /\ pc[t] \in Serving
    <3>1. [r \in Requests |-> Served(r)]' = [[r \in Requests |-> Served(r)] EXCEPT ![t] = None]
      BY <2>4, ServingMoves
    <3>2. Served(t) # None
      BY <1>0, <2>4
    <3>3. Promise!Finish(t)
      BY <2>1, <2>4, <3>1, <3>2 DEF Promise!Finish, Resident
    <3> QED
      BY <2>4, <3>3 DEF Promise!Next
  <2> QED
    BY <2>2, <2>3, <2>4, ServingMoves
<1>2. CASE engine' # engine
  <2>1. Idle
    BY <1>2, ServedFrame
  <2>2. \A r \in Requests : Served(r)' = Served(r) /\ Served(r) = None
    BY <1>2, <2>1, ServingMoves DEF Idle, Served
  <2>3. [r \in Requests |-> Served(r)]' = [r \in Requests |-> Served(r)]
    BY <2>2
  <2>4. CASE Resident' = Resident
    BY <2>3, <2>4 DEF Resident, Promise!lineupVars
  <2>5. CASE Wakes(t) /\ Resident' # Resident
    <3>1. PICK m \in Models : m = target[t]
      BY <2>5 DEF Wakes, HoldInv, AtWork, Resting
    <3>2. Resident = {} /\ Resident' = {m}
      BY <2>5, <3>1, WakeKeepsPromise
    <3>3. Promise!Wake(m)
      BY <2>3, <3>2 DEF Promise!Wake, Resident
    <3> QED
      BY <3>3 DEF Promise!Next
  <2>6. ASSUME NEW m, PutsToSleep(t, m), Resident' # Resident
        PROVE  Promise!Next
    <3>1. m \in Resident /\ Resident' = Resident \ {m}
      BY <2>6, SleepKeepsPromise
    <3>2. m \in Models /\ m # None
      BY <1>0, <3>1 DEF Resident
    <3>3. Promise!Sleep(m)
      BY <2>2, <2>3, <3>1, <3>2 DEF Promise!Sleep, Resident
    <3> QED
      BY <3>2, <3>3 DEF Promise!Next
  <2> QED
    BY <1>2, <2>4, <2>5, <2>6, EngineMoves
<1> QED
  BY <1>1, <1>2

(* So is what the engines do on their own, and the crash abandons everyone.*)
LEMMA StepKeepsPromise ==
  ASSUME ~Bootstrap, LIInv, AloneInv, ServedInv, [Next]_vars
  PROVE  [Promise!Next]_(Promise!lineupVars)
<1>1. ASSUME NEW t \in Threads, InTable(t)
      PROVE  [Promise!Next]_(Promise!lineupVars)
  BY <1>1, ThreadKeepsPromise
<1>2. CASE ProxyStays /\ EnginesSettle
  <2>1. \A r \in Requests : Served(r)' = Served(r)
    BY <1>2 DEF ProxyStays, locals, Served
  <2>2. [r \in Requests |-> Served(r)]' = [r \in Requests |-> Served(r)]
    BY <2>1
  <2>3. ASSUME NEW m \in Models, Settle(m)
        PROVE  Promise!Next
    <3>1. engine[m] = "falling" /\ engine' = [engine EXCEPT ![m] = "asleep"]
      BY <2>3 DEF Settle, AloneInv, NoRising
    <3>2. m \in Resident /\ Resident' = Resident \ {m}
      BY <3>1 DEF Resident, LIInv, IInv, TypeOK
    <3>3. \A r \in Requests : Served(r) # m
      BY <3>1, ManagerAssumption DEF Served, ServedInv, AwakePlaces, AwakeAt
    <3>4. Promise!Sleep(m)
      BY <2>2, <3>2, <3>3 DEF Promise!Sleep, Resident
    <3> QED
      BY <3>4 DEF Promise!Next
  <2>4. CASE UNCHANGED engine
    BY <2>2, <2>4 DEF Promise!lineupVars
  <2> QED
    BY <1>2, <2>3, <2>4 DEF EnginesSettle
<1>3. CASE Crash
  <2>1. \A r \in Requests : Served(r)' = None
    BY <1>3 DEF Crash, NewProcess, Served, Serving
  <2>2. [r \in Requests |-> Served(r)]' = [r \in Requests |-> None] /\ UNCHANGED engine
    BY <1>3, <2>1 DEF Crash
  <2>3. Promise!Abandon
    BY <2>2 DEF Promise!Abandon
  <2> QED
    BY <2>3 DEF Promise!Next
<1> QED
  BY <1>1, <1>2, <1>3, StepInTable DEF LIInv

LEMMA InitKeepsPromise == Init => Promise!Init
<1> SUFFICES ASSUME Init PROVE Promise!Init
  OBVIOUS
<1>1. \A r \in Requests : Served(r) = None
  BY DEF Init, Served, Serving
<1> QED
  BY <1>1 DEF Promise!Init

(* Every behaviour of the proxy is one of the lineup's: an engine becomes  *)
(* resident only when none is, a request is served by the only engine that *)
(* is, and no engine that serves is put to sleep, whatever switches, POST  *)
(* /sleep calls, failures and crashes come (README.md, lines 7, 105-107).  *)
THEOREM PromiseIsKept ==
  ASSUME ~Bootstrap, Punctual, Settled
  PROVE  Spec => KeepsPromise
<1>1. LIInv /\ AloneInv /\ ServedInv /\ [Next]_vars => [Promise!Next]_(Promise!lineupVars)
  BY StepKeepsPromise
<1> QED
  BY <1>1, InitKeepsPromise, ServedByAwake, Alone, PTL DEF Spec, KeepsPromise, Promise!Spec

(* While a request is served, its engine is resident and no other is: what *)
(* the promise gives a client (README.md, line 7: at most one model).      *)
THEOREM ClientsServedAlone ==
  ASSUME ~Bootstrap, Punctual, Settled
  PROVE  Spec => []Promise!ServedAlone
<1>1. ASSUME LIInv, AloneInv, ServedInv, NEW r \in Requests, Served(r) # None
      PROVE  Resident = {Served(r)}
  <2>1. pc[r] \in Serving /\ Served(r) = target[r]
    BY <1>1 DEF Served
  <2>2. target[r] \in Models /\ engine[target[r]] = "awake" /\ active = target[r] /\ Up
    BY <1>1, <2>1
       DEF LIInv, HoldInv, AtWork, Resting, Serving, ServedInv, AwakePlaces, AwakeAt, ServedActive
  <2> QED
    BY <1>1, <2>1, <2>2 DEF AloneInv, Owned, Resident
<1>2. LIInv /\ AloneInv /\ ServedInv => Promise!ServedAlone
  BY <1>1 DEF Promise!ServedAlone, Resident
<1> QED
  BY <1>2, ServedByAwake, Alone, PTL
=============================================================================
