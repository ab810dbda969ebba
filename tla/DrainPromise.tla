---------------------------- MODULE DrainPromise ----------------------------
(***************************************************************************)
(* What a zero-inflight proof is worth to the host watchdog that asks for  *)
(* it: once it has been given under a fence, no request is counted again   *)
(* before the watchdog itself lifts that fence, but for a stray one that   *)
(* could not see the fence, and that undoes the proof.                     *)
(***************************************************************************)
EXTENDS Naturals

CONSTANTS None, Actions

VARIABLES
  fence,    \* the action whose fence stands, or None
  counted,  \* requests in flight
  proved    \* a zero has been proved under this fence

promiseVars == <<fence, counted, proved>>

Init == fence = None /\ counted = 0 /\ proved = FALSE

Raise == /\ fence = None
         /\ fence' \in Actions
         /\ UNCHANGED <<counted, proved>>

Lift == /\ fence' = None
        /\ proved' = FALSE
        /\ UNCHANGED counted

Count == /\ ~proved
         /\ counted' = counted + 1
         /\ UNCHANGED <<fence, proved>>

Stray == /\ counted' = counted + 1
         /\ proved' = FALSE
         /\ UNCHANGED fence

Uncount == /\ counted > 0
           /\ counted' = counted - 1
           /\ UNCHANGED <<fence, proved>>

Prove == /\ fence # None /\ counted = 0
         /\ proved' = TRUE
         /\ UNCHANGED <<fence, counted>>

(* The proxy dies; its requests die with it, the fence does not.           *)
Die == counted' = 0 /\ UNCHANGED <<fence, proved>>

Next == Raise \/ Lift \/ Count \/ Stray \/ Uncount \/ Prove \/ Die

Spec == Init /\ [][Next]_promiseVars

(* A proved zero is a zero.                                                *)
ProvedIsZero == proved => counted = 0
=============================================================================
