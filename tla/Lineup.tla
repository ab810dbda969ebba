------------------------------- MODULE Lineup -------------------------------
(***************************************************************************)
(* What the proxy promises about the lineup, whatever its locks do: an     *)
(* engine becomes resident only when none is, a request is served only by  *)
(* the one engine that is resident, and an engine that serves a request is *)
(* not put to sleep.                                                       *)
(***************************************************************************)
EXTENDS FiniteSets

CONSTANTS Models, Clients, None

VARIABLES
  resident,  \* the engines that hold GPU memory
  serving    \* the model each client's request is being served by, or None

lineupVars == <<resident, serving>>

(* A process may start over engines that are all awake.                    *)
Init ==
  /\ resident \in SUBSET Models
  /\ serving = [c \in Clients |-> None]

Wake(m) ==
  /\ resident = {}
  /\ resident' = {m}
  /\ UNCHANGED serving

Sleep(m) ==
  /\ m \in resident
  /\ \A c \in Clients : serving[c] # m
  /\ resident' = resident \ {m}
  /\ UNCHANGED serving

Serve(c, m) ==
  /\ resident = {m} /\ serving[c] = None
  /\ serving' = [serving EXCEPT ![c] = m]
  /\ UNCHANGED resident

Finish(c) ==
  /\ serving[c] # None
  /\ serving' = [serving EXCEPT ![c] = None]
  /\ UNCHANGED resident

(* The proxy dies, and every connection with it.                           *)
Abandon ==
  /\ serving' = [c \in Clients |-> None]
  /\ UNCHANGED resident

Next ==
  \/ \E m \in Models : Wake(m) \/ Sleep(m) \/ \E c \in Clients : Serve(c, m)
  \/ \E c \in Clients : Finish(c)
  \/ Abandon

Spec == Init /\ [][Next]_lineupVars

(* A client is served by an engine that is resident alone.                 *)
ServedAlone == \A c \in Clients : serving[c] # None => resident = {serving[c]}
=============================================================================
