------------------------ MODULE MemoryMonitor_proofs ------------------------
(* The monitor does not flap, for any ceiling, any memory and any failure. *)
EXTENDS MemoryMonitor, TLAPS

(* An answer is remembered for as long as memory stays at the ceiling: the *)
(* flag is set with it and reset by a sample below the ceiling only, and a *)
(* process that dies takes both with it.                                   *)
Remembered == answered => /\ Pressed /\ backoffRequested = TRUE
                          /\ pc \in {"sample", "nap"}

LEMMA AnswersAreRemembered == Spec => []Remembered
<1>1. Init => Remembered
  BY DEF Init, Remembered
<1>2. Remembered /\ [Next]_monitorVars => Remembered'
  <2> SUFFICES ASSUME Remembered, [Next]_monitorVars PROVE Remembered'
    OBVIOUS
  <2>1. CASE Vary \/ WakeUp \/ OrphanEnds \/ Unreadable \/ UNCHANGED monitorVars
    BY <2>1 DEF Remembered, Pressed, Vary, WakeUp, OrphanEnds, Unreadable, monitorVars,
         proxyVars
  <2>2. CASE Sample \/ Nap \/ Restart
    BY <2>2 DEF Remembered, Pressed, Sample, Nap, Restart, proxyVars
  <2>3. CASE Answer
    BY <2>3 DEF Remembered, Pressed, Answer, Accepted, Failed, TimedOut, proxyVars
  <2> QED
    BY <2>1, <2>2, <2>3 DEF Next, Loop
<1> QED
  BY <1>1, <1>2, PTL DEF Spec

(* memory_monitor.py:48-63: a proxy that has answered a back-off is asked  *)
(* again only after a sample below the ceiling, or by a new process.       *)
THEOREM MonitorDoesNotFlap == Spec => OneBackoffPerCrossing
<1>1. Remembered /\ [Next]_monitorVars =>
        [pc' = "ask" /\ pc # "ask" => ~answered]_monitorVars
  BY DEF Remembered, Next, Loop, Vary, WakeUp, OrphanEnds, Unreadable, Sample, Nap, Restart,
       Answer, Accepted, Failed, TimedOut
<1> QED
  BY <1>1, AnswersAreRemembered, PTL DEF Spec, OneBackoffPerCrossing
=============================================================================
