---------------------------- MODULE MemoryMonitor ----------------------------
(***************************************************************************)
(* The memory monitor (memory_monitor.py) beside the proxy: its loop, one  *)
(* step per sample, its flag, the POST /sleep it blocks on, the timeout    *)
(* after which the proxy still works on the call it gave up, and the death *)
(* of the process on every error, from which the deployment restarts it.   *)
(* The proxy is what Backoff promises of it: a call ends, with the active  *)
(* engine asleep or with 503, and traffic may wake an engine at any time.  *)
(***************************************************************************)
EXTENDS Naturals

CONSTANTS
  Total,      \* MemTotal
  Critical,   \* critical_percent
  Faults,     \* whether calls fail or time out and reads of meminfo fail
  MaxCalls    \* bound: calls the proxy works on at a time

ASSUME MonitorAssumption ==
  /\ Total \in Nat \ {0} /\ Critical \in 1..95
  /\ Faults \in BOOLEAN /\ MaxCalls \in Nat \ {0}

VARIABLES
  available,         \* MemAvailable
  awake,             \* the proxy has an engine awake
  pc,                \* where the monitor is
  backoffRequested,  \* backoff_requested
  orphans,           \* calls the monitor gave up, that the proxy works on
  answered           \* history: a call made at the ceiling was answered 200,
                     \* and memory has stayed there, seen by one process

proxyVars   == <<awake, orphans>>
monitorVars == <<available, awake, pc, backoffRequested, orphans, answered>>

-----------------------------------------------------------------------------
(* 100.0 * (total - available) / total >= critical_percent, solved for     *)
(* available.                                                              *)
Pressed == available <= ((100 - Critical) * Total) \div 100

Init == /\ available \in 0..Total /\ awake \in BOOLEAN
        /\ pc = "sample" /\ backoffRequested = FALSE
        /\ orphans = 0 /\ answered = FALSE

(* Everything else on the host.                                            *)
Vary == /\ available' \in 0..Total
        /\ answered' = (answered /\ Pressed')
        /\ UNCHANGED <<proxyVars, pc, backoffRequested>>

WakeUp == /\ ~awake /\ awake' = TRUE
          /\ UNCHANGED <<available, pc, backoffRequested, orphans, answered>>

(* One reading, its comparison and, at the ceiling, the request.           *)
Sample == /\ pc = "sample"
          /\ pc' = IF Pressed /\ ~backoffRequested THEN "ask" ELSE "nap"
          /\ backoffRequested' = (backoffRequested /\ Pressed)
          /\ UNCHANGED <<available, proxyVars, answered>>

Nap == /\ pc = "nap" /\ pc' = "sample"
       /\ UNCHANGED <<available, proxyVars, backoffRequested, answered>>

(* Mutant: an answer that names no model does not count.                   *)
AcceptedIfSlept == /\ pc = "ask" /\ pc' = "nap"
                   /\ backoffRequested' = awake
                   /\ awake' = FALSE
                   /\ answered' = Pressed
                   /\ UNCHANGED <<available, orphans>>

(* 200: the active engine, if any, has been put to sleep.                  *)
Accepted == /\ pc = "ask" /\ pc' = "nap"
            /\ backoffRequested' = TRUE
            /\ awake' = FALSE
            /\ answered' = Pressed
            /\ UNCHANGED <<available, orphans>>

(* Mutant: the error is caught, and the loop goes on.                      *)
FailedCaught == /\ Faults
                /\ pc = "ask" /\ pc' = "nap" /\ backoffRequested' = TRUE
                /\ UNCHANGED <<available, proxyVars, answered>>

(* 503 or a lost connection raises out of the loop.                        *)
Failed == /\ Faults
          /\ pc = "ask" /\ pc' = "dead" /\ answered' = FALSE
          /\ UNCHANGED <<available, proxyVars, backoffRequested>>

(* So does the timeout, but the proxy goes on with the call.               *)
TimedOut == /\ Faults /\ orphans < MaxCalls
            /\ pc = "ask" /\ pc' = "dead" /\ answered' = FALSE
            /\ orphans' = orphans + 1
            /\ UNCHANGED <<available, awake, backoffRequested>>

(* So does a /proc/meminfo that cannot be read.                            *)
Unreadable == /\ Faults
              /\ pc = "sample" /\ pc' = "dead" /\ answered' = FALSE
              /\ UNCHANGED <<available, proxyVars, backoffRequested>>

OrphanEnds == /\ orphans > 0 /\ orphans' = orphans - 1
              /\ awake' \in {awake, FALSE}
              /\ UNCHANGED <<available, pc, backoffRequested, answered>>

Restart == /\ pc = "dead" /\ pc' = "sample"
           /\ backoffRequested' = FALSE
           /\ UNCHANGED <<available, proxyVars, answered>>

Answer == Accepted \/ Failed \/ TimedOut
Loop   == Sample \/ Nap \/ Answer \/ Restart
Next   == Vary \/ WakeUp \/ Loop \/ Unreadable \/ OrphanEnds

Spec == Init /\ [][Next]_monitorVars

(* The loop runs, the proxy ends every call (CallsAnswered), meminfo can be*)
(* read at times, and the deployment restarts a monitor that has died:     *)
(* nothing under src/ does.                                                *)
FairSpec == /\ Spec /\ WF_monitorVars(Loop) /\ WF_monitorVars(OrphanEnds)
            /\ SF_monitorVars(Sample)

-----------------------------------------------------------------------------
(* memory_monitor.py:48-63: a proxy that has answered a back-off is not    *)
(* asked again while memory has stayed at the ceiling ever since and the   *)
(* monitor has not been restarted: it does not flap.                       *)
OneBackoffPerCrossing == [][pc' = "ask" /\ pc # "ask" => ~answered]_monitorVars

(* memory_monitor.py:48-55: unless it has its answer already, a monitor    *)
(* under lasting pressure gets a back-off accepted or asks again and again,*)
(* however often a call fails or times out and the process dies.           *)
PersistentPressureIsReported ==
  [](~backoffRequested /\ []Pressed => <>answered \/ []<>(pc = "ask"))
=============================================================================
