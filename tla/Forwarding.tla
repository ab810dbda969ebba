----------------------------- MODULE Forwarding -----------------------------
(***************************************************************************)
(* The handler threads of POST to a proxied path (server.py:288-444), each *)
(* with one connection: the gates in their order, the upload, the lease,   *)
(* and the response, buffered or streamed, against a client that may leave *)
(* or stop reading and an engine that may die, hang, or answer what is not *)
(* HTTP (client.py:55-122).  Acquisition is one step here: Acquire has it  *)
(* whole.  All requests are for the active model, the others end in it.    *)
(***************************************************************************)
EXTENDS Integers, FiniteSets, Sequences

CONSTANTS
  Handlers,   \* handler threads
  Requests,   \* what they may have to serve
  Losses      \* how a connection lost in mid-response shows: "reset", "timeout"
              \* or "garbled"

Denials == {"unknown_model", "lifecycle_unavailable", "wake_failed",
            "thermal", "admission_denied"}
Request == [path : {"proxied", "other"},
            framing : {"chunked", "unframed", "malformed", "big", "sound"},
            payload : {"sound", "invalid"},
            stream : BOOLEAN]

ASSUME ForwardingAssumption ==
  /\ IsFiniteSet(Handlers) /\ Requests \subseteq Request
  /\ Losses \subseteq {"reset", "timeout", "garbled"}

VARIABLES
  fenced,     \* the fast thermal gate denies
  finalized,  \* startup_finalized, or no bootstrap mode
  engineUp,   \* the active engine serves connections
  ready,      \* _active_model_ready
  inflight,   \* _inflight_requests
  request,    \* the request of each handler
  pc,
  connected,  \* handlers whose client has not left
  broken,     \* handlers whose connection to the engine is lost
  open,       \* handlers with an upstream response that is not closed
  fault,      \* history: how its engine failed each handler, or that its
              \* client vanished
  sent        \* the status lines sent by each handler

hostVars    == <<fenced, finalized, engineUp>>
managerVars == <<ready, inflight>>
wireVars    == <<connected, broken, open, fault, sent>>
forwardVars == <<hostVars, managerVars, request, pc, wireVars>>

-----------------------------------------------------------------------------
Init ==
  /\ fenced \in BOOLEAN /\ finalized \in BOOLEAN /\ engineUp = TRUE
  /\ ready \in BOOLEAN /\ inflight = 0
  /\ request \in [Handlers -> Requests]
  /\ pc = [h \in Handlers |-> "fast"]
  /\ connected = Handlers /\ broken = {} /\ open = {}
  /\ fault = [h \in Handlers |-> "none"]
  /\ sent = [h \in Handlers |-> <<>>]

At(h, l, m) == pc[h] = l /\ pc' = [pc EXCEPT ![h] = m]

(* A status line reaches the client if it is there; else the write raises. *)
Send(h, status) ==
  sent' = IF h \in connected THEN [sent EXCEPT ![h] = Append(@, status)] ELSE sent

-----------------------------------------------------------------------------
(* The gates, each of which answers at once.                               *)
Deny(h, l, status) ==
  /\ At(h, l, "done") /\ Send(h, status)
  /\ UNCHANGED <<hostVars, managerVars, request, connected, broken, open, fault>>

Pass(h, l, m) ==
  /\ At(h, l, m)
  /\ UNCHANGED <<hostVars, managerVars, request, wireVars>>

CheckFast(h) ==
  \/ request[h].path = "proxied" /\ fenced /\ Deny(h, "fast", "thermal")
  \/ ~(request[h].path = "proxied" /\ fenced) /\ Pass(h, "fast", "startup")

CheckStartup(h) ==
  \/ /\ request[h].path = "proxied" /\ ~finalized
     /\ Deny(h, "startup", "startup_not_finalized")
  \/ request[h].path = "other" /\ Deny(h, "startup", "not_found")
  \/ request[h].path = "proxied" /\ finalized /\ Pass(h, "startup", "framing")

FramingDenial == [chunked |-> "length_required", unframed |-> "length_required",
                  malformed |-> "invalid_request", big |-> "request_too_large"]

CheckFraming(h) ==
  LET f == request[h].framing
  IN \/ f # "sound" /\ Deny(h, "framing", FramingDenial[f])
     \/ f = "sound" /\ Pass(h, "framing", "upload")

(* rfile.read blocks until the whole body is there or the client has left. *)
Upload(h) ==
  \/ h \notin connected /\ Deny(h, "upload", "truncated_request")
  \/ request[h].payload = "invalid" /\ Deny(h, "upload", "invalid_request")
  \/ request[h].payload = "sound" /\ Pass(h, "upload", "acquire")

-----------------------------------------------------------------------------
(* acquire leaves the engine validated, or raises and may leave it invalid.*)
Lease(h) ==
  /\ engineUp /\ At(h, "acquire", "forward")
  /\ ready' = TRUE /\ inflight' = inflight + 1
  /\ UNCHANGED <<hostVars, request, wireVars>>

AcquireFails(h) ==
  /\ At(h, "acquire", "done")
  /\ \E d \in Denials : Send(h, d)
  /\ ready' \in {ready, FALSE}
  /\ UNCHANGED <<hostVars, inflight, request, connected, broken, open, fault>>

-----------------------------------------------------------------------------
(* http.request and http.stream.                                           *)
Fault(h, kind) == fault' = [fault EXCEPT ![h] = kind]

(* The engine refuses or resets the connection, or is silent for too long. *)
OpenFails(h) ==
  /\ At(h, "forward", "unavailable")
  /\ \/ (h \in broken \/ ~engineUp) /\ Fault(h, "connection")
     \/ Fault(h, "timeout")
  /\ ready' = FALSE
  /\ UNCHANGED <<hostVars, inflight, request, connected, broken, open, sent>>

AnswerUnavailable(h) ==
  /\ At(h, "unavailable", "release") /\ Send(h, "lifecycle_unavailable")
  /\ UNCHANGED <<hostVars, managerVars, request, connected, broken, open, fault>>

(* Any other exception (HTTPException, OSError) leaves do_POST.            *)
OpenGarbled(h) ==
  /\ At(h, "forward", "release") /\ Fault(h, "garbled")
  /\ UNCHANGED <<hostVars, managerVars, request, connected, broken, open, sent>>

Sound(h) == engineUp /\ h \notin broken

(* The whole response, sent on at once: the client has it or has left.     *)
Buffered(h) ==
  /\ ~request[h].stream /\ Sound(h)
  /\ At(h, "forward", "release") /\ Send(h, "response")
  /\ UNCHANGED <<hostVars, managerVars, request, connected, broken, open, fault>>

OpenStream(h) ==
  /\ request[h].stream /\ Sound(h)
  /\ At(h, "forward", "headers") /\ open' = open \cup {h}
  /\ UNCHANGED <<hostVars, managerVars, request, connected, broken, fault, sent>>

(* A write to a client that has left fails, with a broken pipe or a reset  *)
(* where it hung up.  Where it vanished without a word, the write may time *)
(* out or abort, and that is taken for a failure of the engine.            *)
ClientLost(h) ==
  /\ h \notin connected
  /\ \/ UNCHANGED <<ready, fault>>
     \/ Fault(h, "vanished") /\ ready' = FALSE

SendHeaders(h) ==
  /\ \/ At(h, "headers", "read") /\ Send(h, "response") /\ UNCHANGED <<ready, fault>>
     \/ At(h, "headers", "close") /\ ClientLost(h) /\ UNCHANGED sent
  /\ UNCHANGED <<hostVars, inflight, request, connected, broken, open>>

ReadChunk(h) ==
  \/ Sound(h) /\ Pass(h, "read", "write")
  \/ Sound(h) /\ Pass(h, "read", "close")

(* Mutant: a reset owner gets a second answer.                             *)
ReadFailsAnswered(h) ==
  /\ At(h, "read", "close")
  /\ Fault(h, "timeout") /\ ready' = FALSE
  /\ Send(h, "lifecycle_unavailable")
  /\ UNCHANGED <<hostVars, inflight, request, connected, broken, open>>

(* A reset is taken for the client's; what is no ConnectionError and no    *)
(* TimeoutError is not caught; only a timeout invalidates.                 *)
ReadFails(h) ==
  /\ At(h, "read", "close")
  /\ \/ ~Sound(h) /\ \E l \in Losses : Fault(h, l)
     \/ Fault(h, "timeout")
  /\ ready' = (ready /\ fault'[h] # "timeout")
  /\ UNCHANGED <<hostVars, inflight, request, connected, broken, open, sent>>

(* A write blocks while the client does not read; after it has left a few  *)
(* writes may still succeed.                                               *)
WriteChunk(h) == Pass(h, "write", "read")

(* Mutant: every lost connection is the engine's.                          *)
WriteFailsMarks(h) ==
  /\ h \notin connected
  /\ At(h, "write", "close") /\ ready' = FALSE
  /\ UNCHANGED <<hostVars, inflight, request, wireVars>>

WriteFails(h) ==
  /\ At(h, "write", "close") /\ ClientLost(h)
  /\ UNCHANGED <<hostVars, inflight, request, connected, broken, open, sent>>

(* Mutant: the response is not closed in a finally.                        *)
CloseUnlessFault(h) ==
  /\ At(h, "close", "release")
  /\ open' = IF fault[h] = "garbled" THEN open ELSE open \ {h}
  /\ UNCHANGED <<hostVars, managerVars, request, connected, broken, fault, sent>>

Close(h) ==
  /\ At(h, "close", "release") /\ open' = open \ {h}
  /\ UNCHANGED <<hostVars, managerVars, request, connected, broken, fault, sent>>

(* Mutant: a lease released on success only.                               *)
ReleaseUnlessFault(h) ==
  /\ fault[h] # "garbled"
  /\ At(h, "release", "done") /\ inflight' = inflight - 1
  /\ UNCHANGED <<hostVars, ready, request, wireVars>>

(* Mutant: released by the handler, and again by __exit__.                 *)
ReleaseTwice(h) ==
  /\ At(h, "release", "done")
  /\ inflight' = IF inflight > 1 THEN inflight - 2 ELSE 0
  /\ UNCHANGED <<hostVars, ready, request, wireVars>>

(* ModelLease.__exit__, whatever ended the forwarding.                     *)
Release(h) ==
  /\ At(h, "release", "done") /\ inflight' = inflight - 1
  /\ UNCHANGED <<hostVars, ready, request, wireVars>>

-----------------------------------------------------------------------------
(* The fence, the startup, the engine and the clients.                     *)
Host ==
  /\ fenced' \in BOOLEAN /\ finalized' \in {finalized, TRUE}
  /\ UNCHANGED <<engineUp, managerVars, request, pc, wireVars>>

Forwarding == {h \in Handlers : pc[h] \in {"forward", "headers", "read", "write"}}

EngineDies ==
  /\ engineUp /\ engineUp' = FALSE
  /\ broken' = broken \cup Forwarding
  /\ UNCHANGED <<fenced, finalized, managerVars, request, pc, connected, open, fault,
                 sent>>

EngineReturns ==
  /\ ~engineUp /\ engineUp' = TRUE
  /\ UNCHANGED <<fenced, finalized, managerVars, request, pc, wireVars>>

Leave(h) ==
  /\ h \in connected /\ connected' = connected \ {h}
  /\ UNCHANGED <<hostVars, managerVars, request, pc, broken, open, fault, sent>>

-----------------------------------------------------------------------------
Gates(h)    == CheckFast(h) \/ CheckStartup(h) \/ CheckFraming(h)
Respond(h)  == \/ OpenFails(h) \/ AnswerUnavailable(h) \/ OpenGarbled(h) \/ Buffered(h)
               \/ OpenStream(h) \/ SendHeaders(h) \/ ReadChunk(h) \/ ReadFails(h)
               \/ Close(h) \/ Release(h)

Next == \/ \E h \in Handlers : \/ Gates(h) \/ Upload(h) \/ Lease(h) \/ AcquireFails(h)
                               \/ Respond(h) \/ WriteChunk(h) \/ WriteFails(h)
                               \/ Leave(h)
        \/ Host \/ EngineDies \/ EngineReturns

Spec == Init /\ [][Next]_forwardVars

(* A thread runs, a read from an engine ends by its timeout at the latest, *)
(* and writes to a client that has left fail at last.  A client need not   *)
(* upload, read or leave.                                                  *)
FairSpec == Spec /\ \A h \in Handlers : /\ WF_forwardVars(Gates(h) \/ Respond(h))
                                        /\ SF_forwardVars(WriteFails(h))

-----------------------------------------------------------------------------
Leased == {h \in Handlers : pc[h] \in {"forward", "unavailable", "headers", "read",
                                       "write", "close", "release"}}

TypeOK ==
  /\ fenced \in BOOLEAN /\ finalized \in BOOLEAN /\ engineUp \in BOOLEAN
  /\ ready \in BOOLEAN /\ inflight = Cardinality(Leased)
  /\ request \in [Handlers -> Requests]
  /\ pc \in [Handlers -> {"fast", "startup", "framing", "upload", "acquire", "forward",
                          "unavailable", "headers", "read", "write", "close",
                          "release", "done"}]
  /\ connected \subseteq Handlers /\ broken \subseteq Handlers /\ open \subseteq Handlers
  /\ fault \in [Handlers -> {"none", "connection", "timeout", "reset", "garbled", "vanished"}]
  /\ \A h \in Handlers : Len(sent[h]) <= 2

(* server.py:383-442: when the count of requests in flight is zero, which a*)
(* switch, a back-off and the watchdog take for drained, no response of the*)
(* engine is open, however its request ended.                              *)
DrainedMeansClosed == inflight = 0 => open = {}

(* server.py:374-442, docs/multimodal-chat.md:160-162: a client never gets *)
(* a second status line after the first, whatever fails in mid-response,   *)
(* and ends with one unless it left or the engine did not speak HTTP.      *)
OneAnswer ==
  \A h \in Handlers :
    /\ Len(sent[h]) <= 1
    /\ pc[h] = "done" /\ h \in connected /\ fault[h] # "garbled" => sent[h] # <<>>

(* server.py:436-441, SLP-LIFE-011: outside acquire readiness is withdrawn *)
(* only where an engine refuses or times out, or a client vanishes under   *)
(* the response; never for a client that hangs up.                         *)
HangUpKeepsReady ==
  [][ready /\ ~ready' => \E h \in Handlers :
       \/ fault'[h] # fault[h] /\ fault'[h] \in {"connection", "timeout", "vanished"}
       \/ pc[h] = "acquire" /\ pc'[h] = "done"]_forwardVars

(* docs/multimodal-chat.md:164-166: "Client disconnect or cancellation     *)
(* closes the upstream response and frees model ownership."                *)
LeavingFrees ==
  \A h \in Handlers : h \in Leased \ connected ~> h \notin Leased \cup open
=============================================================================
