------------------------------ MODULE Engines ------------------------------
(***************************************************************************)
(* The vLLM engines behind the proxy, as the proxy sees them through the   *)
(* development control endpoints /is_sleeping, /sleep and /wake_up.  The   *)
(* engines are external: the module is read off the calls manager.py makes *)
(* and the answers its tests make them give.                               *)
(*                                                                         *)
(* An engine is "asleep" or "awake"; "falling" after an accepted /sleep    *)
(* whose memory is still being reclaimed (manager.py:938-940), when        *)
(* /is_sleeping still says no; and "rising" when a wake the proxy has      *)
(* given up on is still to take effect.                                    *)
(***************************************************************************)
CONSTANTS
  Models,      \* the configured lineup
  Faults,      \* control calls may fail, answer with no Boolean, or time out
  AsyncSleep,  \* an accepted /sleep completes only later
  LateWake     \* a failed wake may still complete later

ASSUME EnginesAssumption == {Faults, AsyncSleep, LateWake} \subseteq BOOLEAN

VARIABLE engine

EngineStates == {"asleep", "awake", "falling", "rising"}

(* What GET /is_sleeping may answer about m: "unknown" is the None of      *)
(* _is_sleeping (a 404 or a body without a Boolean), "error" any exception.*)
SleepState(m) ==
  {IF engine[m] \in {"asleep", "rising"} THEN "asleep" ELSE "awake"}
    \cup (IF Faults THEN {"unknown", "error"} ELSE {})

(* POST /sleep as the engine performs it.                                  *)
FallAsleep(m) ==
  engine' = [engine EXCEPT ![m] =
               IF AsyncSleep /\ @ # "asleep" THEN "falling" ELSE "asleep"]

(* POST /sleep that the proxy sees fail: refused, or its answer lost.      *)
SleepFails(m) == Faults /\ (UNCHANGED engine \/ FallAsleep(m))

(* The first POST of a wake, which makes the weights resident.             *)
WakeUp(m) == engine' = [engine EXCEPT ![m] = "awake"]

(* The same call seen to fail: refused, its answer lost, or still running. *)
WakeFails(m) ==
  /\ Faults
  /\ \/ UNCHANGED engine
     \/ WakeUp(m)
     \/ /\ LateWake
        /\ engine' = [engine EXCEPT ![m] = IF @ = "asleep" THEN "rising" ELSE @]

(* What an engine does on its own: complete a sleep or a late wake.        *)
Settle(m) ==
  \/ engine[m] = "falling" /\ engine' = [engine EXCEPT ![m] = "asleep"]
  \/ engine[m] = "rising"  /\ engine' = [engine EXCEPT ![m] = "awake"]
=============================================================================
