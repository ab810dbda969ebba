-------------------------- MODULE Forwarding_proofs --------------------------
(***************************************************************************)
(* One answer per request, closed before it is uncounted, for any number   *)
(* of handlers, any requests and any way a connection may be lost.         *)
(***************************************************************************)
EXTENDS Forwarding, FiniteSetTheorems, TLAPS

Places == {"fast", "startup", "framing", "upload", "acquire", "forward", "unavailable",
           "headers", "read", "write", "close", "release", "done"}

(* Where no status line has been sent, where an engine's response may be   *)
(* open, and where the engine has not failed the request yet.              *)
Unanswered == {"fast", "startup", "framing", "upload", "acquire", "forward", "unavailable",
               "headers"}
Streaming  == {"headers", "read", "write", "close"}
Unfailed   == {"fast", "startup", "framing", "upload", "acquire", "forward", "headers",
               "read", "write"}

(* The status lines there are.                                             *)
Statuses == Denials \cup {"startup_not_finalized", "not_found", "length_required",
                          "invalid_request", "request_too_large", "truncated_request",
                          "response"}

Types ==
  /\ fenced \in BOOLEAN /\ finalized \in BOOLEAN /\ engineUp \in BOOLEAN
  /\ ready \in BOOLEAN /\ inflight \in Int
  /\ request \in [Handlers -> Requests]
  /\ pc \in [Handlers -> Places]
  /\ connected \subseteq Handlers /\ broken \subseteq Handlers /\ open \subseteq Handlers
  /\ fault \in [Handlers -> {"none", "connection", "timeout", "reset", "garbled", "vanished"}]
  /\ sent \in [Handlers -> Seq(Statuses)]

Counted == inflight = Cardinality(Leased)

(* What the wires of a handler look like, by its place.                    *)
WiresOK(h) ==
  /\ h \in open => pc[h] \in Streaming
  /\ Len(sent[h]) <= 1
  /\ pc[h] \in Unanswered => sent[h] = <<>>
  /\ pc[h] \in {"read", "write", "close"} /\ h \in connected => sent[h] # <<>>
  /\ pc[h] \in {"release", "done"} /\ h \in connected /\ fault[h] # "garbled" => sent[h] # <<>>
  /\ pc[h] \in Unfailed => fault[h] = "none"

FInv == Types /\ Counted /\ \A h \in Handlers : WiresOK(h)

-----------------------------------------------------------------------------
(* The count follows the place of the handler that moves.                  *)
Holding == Places \ {"fast", "startup", "framing", "upload", "acquire", "done"}

Counts(l, m) ==
  inflight' = inflight + (IF m \in Holding THEN 1 ELSE 0) - (IF l \in Holding THEN 1 ELSE 0)

LEMMA CountStep ==
  ASSUME Types, Counted, NEW h \in Handlers, NEW l \in Places, NEW m \in Places,
         At(h, l, m), Counts(l, m)
  PROVE  Counted'
<1>1. /\ Leased = {g \in Handlers : pc[g] \in Holding}
      /\ Leased' = {g \in Handlers : pc'[g] \in Holding}
  <2>1. Holding = {"forward", "unavailable", "headers", "read", "write", "close", "release"}
    BY DEF Holding, Places
  <2> QED
    BY <2>1 DEF Leased
<1>2. IsFiniteSet(Leased) /\ Cardinality(Leased) \in Nat
  <2>1. Leased \subseteq Handlers
    BY DEF Leased
  <2> QED
    BY <2>1, FS_Subset, FS_CardinalityType, ForwardingAssumption
<1>3. (h \in Leased <=> l \in Holding) /\ (h \in Leased' <=> m \in Holding)
  BY <1>1 DEF At, Types
<1>4. Leased' = IF m \in Holding THEN Leased \cup {h} ELSE Leased \ {h}
  BY <1>1 DEF At, Types
<1>5. CASE m \in Holding
  <2>1. Leased' = Leased \cup {h}
    BY <1>4, <1>5
  <2>2. Cardinality(Leased \cup {h}) = IF h \in Leased THEN Cardinality(Leased)
                                       ELSE Cardinality(Leased) + 1
    BY <1>2, FS_AddElement
  <2>3. CASE l \in Holding
    BY <1>2, <1>3, <1>5, <2>1, <2>2, <2>3 DEF Counted, Counts
  <2>4. CASE l \notin Holding
    BY <1>2, <1>3, <1>5, <2>1, <2>2, <2>4 DEF Counted, Counts
  <2> QED
    BY <2>3, <2>4
<1>6. CASE m \notin Holding
  <2>1. Leased' = Leased \ {h}
    BY <1>4, <1>6
  <2>2. Cardinality(Leased \ {h}) = IF h \in Leased THEN Cardinality(Leased) - 1
                                    ELSE Cardinality(Leased)
    BY <1>2, FS_RemoveElement
  <2>3. CASE l \in Holding
    BY <1>2, <1>3, <1>6, <2>1, <2>2, <2>3 DEF Counted, Counts
  <2>4. CASE l \notin Holding
    BY <1>2, <1>3, <1>6, <2>1, <2>2, <2>4 DEF Counted, Counts
  <2> QED
    BY <2>3, <2>4
<1> QED
  BY <1>5, <1>6

(* Everybody else's wires stay as they are.                                *)
Apart(h) ==
  \A g \in Handlers \ {h} :
    /\ sent'[g] = sent[g] /\ fault'[g] = fault[g]
    /\ g \in open' => g \in open
    /\ g \in connected' => g \in connected

LEMMA HandlerStep ==
  ASSUME FInv, NEW h \in Handlers, NEW l \in Places, NEW m \in Places,
         At(h, l, m), Counts(l, m), Types', Apart(h), WiresOK(h)'
  PROVE  FInv'
<1>1. Counted'
  BY CountStep DEF FInv
<1>2. ASSUME NEW g \in Handlers \ {h}
      PROVE  WiresOK(g)'
  BY <1>2 DEF FInv, Types, At, Apart, WiresOK
<1> QED
  BY <1>1, <1>2 DEF FInv

(* A status line is the first for whoever has had none.                    *)
LEMMA SendMoves ==
  ASSUME Types, NEW h \in Handlers, NEW status \in Statuses, Send(h, status), sent[h] = <<>>
  PROVE  /\ sent' \in [Handlers -> Seq(Statuses)]
         /\ \A g \in Handlers \ {h} : sent'[g] = sent[g]
         /\ Len(sent'[h]) <= 1 /\ (h \in connected => sent'[h] # <<>>)
<1>1. CASE h \in connected
  <2>1. sent'[h] = Append(sent[h], status) /\ Append(sent[h], status) \in Seq(Statuses)
    BY <1>1 DEF Types, Send
  <2>2. Len(sent'[h]) = 1
    BY <2>1 DEF Types
  <2> QED
    BY <1>1, <2>1, <2>2 DEF Types, Send
<1>2. CASE h \notin connected
  BY <1>2 DEF Types, Send
<1> QED
  BY <1>1, <1>2

-----------------------------------------------------------------------------
(* A gate answers at once, or lets the request pass.                       *)
LEMMA DenyStep ==
  ASSUME FInv, NEW h \in Handlers, NEW l \in {"fast", "startup", "framing", "upload"},
         NEW status \in Statuses, Deny(h, l, status)
  PROVE  FInv'
<1> USE DEF FInv
<1>1. pc[h] = l /\ l \in Unanswered /\ sent[h] = <<>>
  BY DEF Deny, At, WiresOK, Unanswered
<1>2. /\ sent' \in [Handlers -> Seq(Statuses)]
      /\ \A g \in Handlers \ {h} : sent'[g] = sent[g]
      /\ Len(sent'[h]) <= 1 /\ (h \in connected => sent'[h] # <<>>)
  BY <1>1, SendMoves DEF Deny
<1>3. l \in Places /\ "done" \in Places /\ At(h, l, "done") /\ pc'[h] = "done"
  BY DEF Deny, At, Types, Places
<1>4. Types'
  BY <1>2, <1>3 DEF Deny, At, Types, hostVars, managerVars
<1>5. Apart(h)
  BY <1>2 DEF Deny, Apart
<1>6. Counts(l, "done")
  BY DEF Deny, Types, Counts, Holding, managerVars
<1>7. WiresOK(h)'
  BY <1>1, <1>2, <1>3 DEF Deny, WiresOK, Unanswered, Streaming, Unfailed
<1> QED
  BY <1>3, <1>4, <1>5, <1>6, <1>7, HandlerStep

Passages == {<<"fast", "startup">>, <<"startup", "framing">>, <<"framing", "upload">>,
             <<"upload", "acquire">>, <<"read", "write">>, <<"read", "close">>,
             <<"write", "read">>, <<"write", "close">>}

LEMMA PassStep ==
  ASSUME FInv, NEW h \in Handlers, NEW l, NEW m, <<l, m>> \in Passages, Pass(h, l, m)
  PROVE  FInv'
<1> USE DEF FInv
<1>1. l \in Places /\ m \in Places /\ At(h, l, m) /\ pc'[h] = m /\ pc[h] = l
  BY DEF Passages, Pass, At, Types, Places
<1>2. Types' /\ Apart(h)
  BY <1>1 DEF Pass, At, Types, Apart, hostVars, managerVars, wireVars
<1>3. l \in Holding <=> m \in Holding
  BY DEF Passages, Holding, Places
<1>4. Counts(l, m)
  BY <1>3 DEF Pass, Types, Counts, managerVars
<1>5. WiresOK(h)'
  BY <1>1 DEF Pass, WiresOK, Passages, wireVars, Unanswered, Streaming, Unfailed
<1> QED
  BY <1>1, <1>2, <1>4, <1>5, HandlerStep

LEMMA GateStep ==
  ASSUME FInv, NEW h \in Handlers, Gates(h) \/ Upload(h)
  PROVE  FInv'
<1>1. CASE CheckFast(h)
  <2>1. CASE Deny(h, "fast", "thermal")
    BY <2>1, DenyStep DEF Statuses, Denials
  <2>2. CASE Pass(h, "fast", "startup")
    BY <2>2, PassStep DEF Passages
  <2> QED
    BY <1>1, <2>1, <2>2 DEF CheckFast
<1>3. CASE CheckStartup(h)
  <2>1. CASE \E status \in Statuses : Deny(h, "startup", status)
    BY <2>1, DenyStep
  <2>2. CASE Pass(h, "startup", "framing")
    BY <2>2, PassStep DEF Passages
  <2> QED
    BY <1>3, <2>1, <2>2 DEF CheckStartup, Statuses
<1>4. CASE Upload(h)
  <2>1. CASE \E status \in Statuses : Deny(h, "upload", status)
    BY <2>1, DenyStep
  <2>2. CASE Pass(h, "upload", "acquire")
    BY <2>2, PassStep DEF Passages
  <2> QED
    BY <1>4, <2>1, <2>2 DEF Upload, Statuses
<1>2. CASE CheckFraming(h)
  <2>1. request[h].framing \in {"chunked", "unframed", "malformed", "big", "sound"}
    BY ForwardingAssumption DEF FInv, Types, Request
  <2>2. request[h].framing # "sound" => FramingDenial[request[h].framing] \in Statuses
    BY <2>1 DEF FramingDenial, Statuses
  <2>3. CASE \E status \in Statuses : Deny(h, "framing", status)
    BY <2>3, DenyStep
  <2>4. CASE Pass(h, "framing", "upload")
    BY <2>4, PassStep DEF Passages
  <2> QED
    BY <1>2, <2>2, <2>3, <2>4 DEF CheckFraming
<1> QED
  BY <1>1, <1>2, <1>3, <1>4 DEF Gates

-----------------------------------------------------------------------------
(* The lease: acquired with the first unit of the count, or refused.       *)
LEMMA AcquireStep ==
  ASSUME FInv, NEW h \in Handlers, Lease(h) \/ AcquireFails(h)
  PROVE  FInv'
<1> USE DEF FInv
<1>1. CASE Lease(h)
  <2>1. At(h, "acquire", "forward") /\ pc[h] = "acquire" /\ pc'[h] = "forward"
    BY <1>1 DEF Lease, At, Types
  <2>2. Types' /\ Apart(h)
    BY <1>1 DEF Lease, At, Types, Apart, Places, hostVars, wireVars
  <2>3. Counts("acquire", "forward")
    BY <1>1 DEF Lease, Types, Counts, Holding, Places
  <2>4. WiresOK(h)'
    BY <1>1, <2>1 DEF Lease, WiresOK, Unanswered, Streaming, Unfailed, wireVars
  <2> QED
    BY <2>1, <2>2, <2>3, <2>4, HandlerStep DEF Places
<1>2. CASE AcquireFails(h)
  <2>1. At(h, "acquire", "done") /\ pc[h] = "acquire" /\ pc'[h] = "done" /\ sent[h] = <<>>
    BY <1>2 DEF AcquireFails, At, Types, WiresOK, Unanswered
  <2>2. /\ sent' \in [Handlers -> Seq(Statuses)]
        /\ \A g \in Handlers \ {h} : sent'[g] = sent[g]
        /\ Len(sent'[h]) <= 1 /\ (h \in connected => sent'[h] # <<>>)
    <3>1. PICK d \in Statuses : Send(h, d)
      BY <1>2 DEF AcquireFails, Statuses
    <3> QED
      BY <2>1, <3>1, SendMoves
  <2>3. Types' /\ Apart(h)
    BY <1>2, <2>2 DEF AcquireFails, At, Types, Apart, Places, hostVars
  <2>4. Counts("acquire", "done")
    BY <1>2 DEF AcquireFails, Types, Counts, Holding
  <2>5. WiresOK(h)'
    BY <1>2, <2>1, <2>2 DEF AcquireFails, WiresOK, Unanswered, Streaming, Unfailed
  <2> QED
    BY <2>1, <2>3, <2>4, <2>5, HandlerStep DEF Places
<1> QED
  BY <1>1, <1>2

-----------------------------------------------------------------------------
(* Steps of a leased handler: the count stays, but for the release.        *)
LEMMA ServingStep ==
  ASSUME FInv, NEW h \in Handlers, NEW l \in Holding, NEW m \in Holding,
         At(h, l, m), UNCHANGED inflight, Types', Apart(h), WiresOK(h)'
  PROVE  FInv'
<1>1. Counts(l, m)
  BY DEF FInv, Types, Counts
<1>2. l \in Places /\ m \in Places
  BY DEF Holding
<1> QED
  BY <1>1, <1>2, HandlerStep

(* The engine's answer does not come: refused, silent or no HTTP.          *)
LEMMA OpenFailsStep ==
  ASSUME FInv, NEW h \in Handlers, OpenFails(h) \/ AnswerUnavailable(h) \/ OpenGarbled(h)
  PROVE  FInv'
<1> USE DEF FInv
<1>1. CASE OpenFails(h)
  <2>1. At(h, "forward", "unavailable") /\ pc[h] = "forward" /\ pc'[h] = "unavailable"
    BY <1>1 DEF OpenFails, At, Types
  <2>2. Types' /\ Apart(h)
    BY <1>1 DEF OpenFails, Fault, At, Types, Apart, Places, hostVars
  <2>3. WiresOK(h)'
    BY <1>1, <2>1 DEF OpenFails, WiresOK, Unanswered, Streaming, Unfailed
  <2> QED
    BY <1>1, <2>1, <2>2, <2>3, ServingStep DEF OpenFails, Holding, Places
<1>2. CASE AnswerUnavailable(h)
  <2>1. /\ At(h, "unavailable", "release") /\ pc[h] = "unavailable" /\ pc'[h] = "release"
        /\ sent[h] = <<>> /\ Send(h, "lifecycle_unavailable")
    BY <1>2 DEF AnswerUnavailable, At, Types, WiresOK, Unanswered
  <2>2. /\ sent' \in [Handlers -> Seq(Statuses)]
        /\ \A g \in Handlers \ {h} : sent'[g] = sent[g]
        /\ Len(sent'[h]) <= 1 /\ (h \in connected => sent'[h] # <<>>)
    <3>1. "lifecycle_unavailable" \in Statuses
      BY DEF Statuses, Denials
    <3> QED
      BY <2>1, <3>1, SendMoves
  <2>3. Types' /\ Apart(h)
    BY <1>2, <2>2 DEF AnswerUnavailable, At, Types, Apart, Places, hostVars, managerVars
  <2>4. WiresOK(h)'
    BY <1>2, <2>1, <2>2 DEF AnswerUnavailable, WiresOK, Unanswered, Streaming, Unfailed
  <2> QED
    BY <1>2, <2>1, <2>3, <2>4, ServingStep DEF AnswerUnavailable, Holding, Places, managerVars
<1>3. CASE OpenGarbled(h)
  <2>1. At(h, "forward", "release") /\ pc[h] = "forward" /\ pc'[h] = "release"
    BY <1>3 DEF OpenGarbled, At, Types
  <2>2. Types' /\ Apart(h)
    BY <1>3 DEF OpenGarbled, Fault, At, Types, Apart, Places, hostVars, managerVars
  <2>3. WiresOK(h)'
    BY <1>3, <2>1 DEF OpenGarbled, Fault, Types, WiresOK, Unanswered, Streaming, Unfailed
  <2> QED
    BY <1>3, <2>1, <2>2, <2>3, ServingStep DEF OpenGarbled, Holding, Places, managerVars
<1> QED
  BY <1>1, <1>2, <1>3

(* The answer, whole or begun; a stream is open from here on.              *)
LEMMA AnswerStep ==
  ASSUME FInv, NEW h \in Handlers, Buffered(h) \/ OpenStream(h) \/ SendHeaders(h)
  PROVE  FInv'
<1> USE DEF FInv
<1>1. ASSUME sent[h] = <<>>, Send(h, "response")
      PROVE  /\ sent' \in [Handlers -> Seq(Statuses)]
             /\ \A g \in Handlers \ {h} : sent'[g] = sent[g]
             /\ Len(sent'[h]) <= 1 /\ (h \in connected => sent'[h] # <<>>)
  <2>1. "response" \in Statuses
    BY DEF Statuses
  <2> QED
    BY <1>1, <2>1, SendMoves
<1>2. CASE Buffered(h)
  <2>1. /\ At(h, "forward", "release") /\ pc[h] = "forward" /\ pc'[h] = "release"
        /\ sent[h] = <<>> /\ Send(h, "response")
    BY <1>2 DEF Buffered, At, Types, WiresOK, Unanswered
  <2>2. Types' /\ Apart(h)
    BY <1>1, <1>2, <2>1 DEF Buffered, At, Types, Apart, Places, hostVars, managerVars
  <2>3. WiresOK(h)'
    BY <1>1, <1>2, <2>1 DEF Buffered, WiresOK, Unanswered, Streaming, Unfailed
  <2> QED
    BY <1>2, <2>1, <2>2, <2>3, ServingStep DEF Buffered, Holding, Places, managerVars
<1>3. CASE OpenStream(h)
  <2>1. At(h, "forward", "headers") /\ pc[h] = "forward" /\ pc'[h] = "headers"
    BY <1>3 DEF OpenStream, At, Types
  <2>2. Types' /\ Apart(h)
    BY <1>3 DEF OpenStream, At, Types, Apart, Places, hostVars, managerVars
  <2>3. WiresOK(h)'
    BY <1>3, <2>1 DEF OpenStream, WiresOK, Unanswered, Streaming, Unfailed
  <2> QED
    BY <1>3, <2>1, <2>2, <2>3, ServingStep DEF OpenStream, Holding, Places, managerVars
<1>4. CASE SendHeaders(h)
  <2>1. pc[h] = "headers" /\ sent[h] = <<>> /\ fault[h] = "none"
    BY <1>4 DEF SendHeaders, At, WiresOK, Unanswered, Unfailed
  <2>2. CASE At(h, "headers", "read") /\ Send(h, "response") /\ UNCHANGED <<ready, fault>>
    <3>1. Types' /\ Apart(h) /\ pc'[h] = "read"
      BY <1>1, <1>4, <2>1, <2>2 DEF SendHeaders, At, Types, Apart, Places, hostVars
    <3>2. WiresOK(h)'
      BY <1>1, <1>4, <2>1, <2>2, <3>1 DEF SendHeaders, WiresOK, Unanswered, Streaming, Unfailed
    <3> QED
      BY <1>4, <2>2, <3>1, <3>2, ServingStep DEF SendHeaders, Holding, Places
  <2>3. CASE At(h, "headers", "close") /\ ClientLost(h) /\ UNCHANGED sent
    <3>1. Types' /\ Apart(h) /\ pc'[h] = "close"
      BY <1>4, <2>3
         DEF SendHeaders, ClientLost, Fault, At, Types, Apart, Places, hostVars
    <3>2. WiresOK(h)'
      BY <1>4, <2>1, <2>3, <3>1
         DEF SendHeaders, ClientLost, WiresOK, Unanswered, Streaming, Unfailed
    <3> QED
      BY <1>4, <2>3, <3>1, <3>2, ServingStep DEF SendHeaders, Holding, Places
  <2> QED
    BY <1>4, <2>2, <2>3 DEF SendHeaders
<1> QED
  BY <1>2, <1>3, <1>4

(* The stream, to its end and its close.                                   *)
LEMMA StreamStep ==
  ASSUME FInv, NEW h \in Handlers,
         ReadChunk(h) \/ ReadFails(h) \/ WriteChunk(h) \/ WriteFails(h) \/ Close(h)
  PROVE  FInv'
<1> USE DEF FInv
<1>1. CASE ReadChunk(h) \/ WriteChunk(h)
  <2>1. PICK l, m : <<l, m>> \in Passages /\ Pass(h, l, m)
    BY <1>1 DEF ReadChunk, WriteChunk, Passages
  <2> QED
    BY <2>1, PassStep
<1>2. CASE ReadFails(h)
  <2>1. At(h, "read", "close") /\ pc[h] = "read" /\ pc'[h] = "close"
    BY <1>2 DEF ReadFails, At, Types
  <2>2. PICK kind \in {"reset", "timeout", "garbled"} : Fault(h, kind)
    BY <1>2, ForwardingAssumption DEF ReadFails
  <2>3. Types' /\ Apart(h)
    BY <1>2, <2>2 DEF ReadFails, Fault, At, Types, Apart, Places, hostVars
  <2>4. WiresOK(h)'
    BY <1>2, <2>1 DEF ReadFails, WiresOK, Unanswered, Streaming, Unfailed
  <2> QED
    BY <1>2, <2>1, <2>3, <2>4, ServingStep DEF ReadFails, Holding, Places
<1>3. CASE Close(h)
  <2>1. At(h, "close", "release") /\ pc[h] = "close" /\ pc'[h] = "release"
    BY <1>3 DEF Close, At, Types
  <2>2. Types' /\ Apart(h)
    BY <1>3 DEF Close, At, Types, Apart, Places, hostVars, managerVars
  <2>3. WiresOK(h)'
    BY <1>3, <2>1 DEF Close, WiresOK, Unanswered, Streaming, Unfailed
  <2> QED
    BY <1>3, <2>1, <2>2, <2>3, ServingStep DEF Close, Holding, Places, managerVars
<1>4. CASE WriteFails(h)
  <2>1. At(h, "write", "close") /\ pc[h] = "write" /\ pc'[h] = "close"
    BY <1>4 DEF WriteFails, At, Types
  <2>2. Types' /\ Apart(h)
    BY <1>4 DEF WriteFails, ClientLost, Fault, At, Types, Apart, Places, hostVars
  <2>3. WiresOK(h)'
    BY <1>4, <2>1 DEF WriteFails, ClientLost, WiresOK, Unanswered, Streaming, Unfailed
  <2> QED
    BY <1>4, <2>1, <2>2, <2>3, ServingStep DEF WriteFails, Holding, Places
<1> QED
  BY <1>1, <1>2, <1>3, <1>4

(* The lease is given back.                                                *)
LEMMA ReleaseStep ==
  ASSUME FInv, NEW h \in Handlers, Release(h)
  PROVE  FInv'
<1> USE DEF FInv
<1>1. At(h, "release", "done") /\ pc[h] = "release" /\ pc'[h] = "done"
  BY DEF Release, At, Types
<1>2. Types' /\ Apart(h)
  BY DEF Release, At, Types, Apart, Places, hostVars, wireVars
<1>3. Counts("release", "done")
  BY DEF Release, Types, Counts, Holding, Places
<1>4. WiresOK(h)'
  BY <1>1 DEF Release, WiresOK, Unanswered, Streaming, Unfailed, wireVars
<1> QED
  BY <1>1, <1>2, <1>3, <1>4, HandlerStep DEF Places

(* The host, the engine and the clients.                                   *)
LEMMA WorldStep ==
  ASSUME FInv,
         \/ Host \/ EngineDies \/ EngineReturns \/ UNCHANGED forwardVars
         \/ \E h \in Handlers : Leave(h)
  PROVE  FInv'
<1> USE DEF FInv
<1>1. /\ UNCHANGED <<inflight, pc, open, fault, sent>> /\ connected' \subseteq connected
      /\ UNCHANGED <<request, ready>> /\ broken' \subseteq broken \cup Forwarding
      /\ fenced' \in BOOLEAN /\ finalized' \in BOOLEAN /\ engineUp' \in BOOLEAN
  BY DEF Types, Host, EngineDies, EngineReturns, Leave, forwardVars, hostVars, managerVars,
         wireVars
<1>2. Types'
  BY <1>1 DEF Types, Forwarding
<1>3. Counted'
  BY <1>1 DEF Counted, Leased
<1>4. \A g \in Handlers : WiresOK(g)'
  BY <1>1 DEF WiresOK
<1> QED
  BY <1>2, <1>3, <1>4

-----------------------------------------------------------------------------
LEMMA Wires == Spec => []FInv
<1>1. Init => FInv
  <2> SUFFICES ASSUME Init PROVE FInv
    OBVIOUS
  <2>1. Types
    BY DEF Init, Types, Places
  <2>2. Counted
    <3>1. Leased = {}
      BY DEF Init, Leased
    <3> QED
      BY <3>1, FS_EmptySet DEF Init, Counted
  <2>3. \A h \in Handlers : WiresOK(h)
    BY DEF Init, WiresOK, Unanswered, Streaming, Unfailed
  <2> QED
    BY <2>1, <2>2, <2>3 DEF FInv
<1>2. FInv /\ [Next]_forwardVars => FInv'
  BY GateStep, AcquireStep, OpenFailsStep, AnswerStep, StreamStep, ReleaseStep, WorldStep
     DEF Next, Respond
<1> QED
  BY <1>1, <1>2, PTL DEF Spec

(* The count of requests in flight is the number of handlers that hold a   *)
(* lease, in every state.                                                  *)
THEOREM TypeCorrect == Spec => []TypeOK
<1>1. FInv => TypeOK
  BY DEF FInv, Types, Counted, WiresOK, TypeOK, Places
<1> QED
  BY <1>1, Wires, PTL

(* server.py:383-442: what a switch, a back-off and the watchdog take for  *)
(* drained is drained: no response of the engine is open when the count of *)
(* requests in flight is zero, however each request ended.                 *)
THEOREM DrainedIsClosed == Spec => []DrainedMeansClosed
<1>1. FInv => DrainedMeansClosed
  <2> SUFFICES ASSUME FInv, inflight = 0, NEW h \in open PROVE FALSE
    BY DEF DrainedMeansClosed, FInv, Types
  <2>1. h \in Leased
    BY DEF FInv, Types, WiresOK, Streaming, Leased
  <2>2. IsFiniteSet(Leased) /\ Cardinality(Leased) = 0
    <3>1. Leased \subseteq Handlers
      BY DEF Leased
    <3> QED
      BY <3>1, FS_Subset, ForwardingAssumption DEF FInv, Counted
  <2> QED
    BY <2>1, <2>2, FS_EmptySet
<1> QED
  BY <1>1, Wires, PTL

(* server.py:374-442: no second status line, and one for every client that *)
(* stays with an engine that speaks HTTP.                                  *)
THEOREM AnsweredOnce == Spec => []OneAnswer
<1>1. FInv => OneAnswer
  BY DEF FInv, WiresOK, OneAnswer
<1> QED
  BY <1>1, Wires, PTL

(* server.py:436-441: outside acquire a ready model is invalidated only by *)
(* a step in which its engine fails a request that had not failed, or the  *)
(* client of one vanishes under its response.                              *)
THEOREM HangingUpKeepsReady == Spec => HangUpKeepsReady
<1> DEFINE Blamed == ready /\ ~ready' => \E h \in Handlers :
              \/ fault'[h] # fault[h] /\ fault'[h] \in {"connection", "timeout", "vanished"}
              \/ pc[h] = "acquire" /\ pc'[h] = "done"
<1>1. ASSUME FInv, Next, ready, ~ready' PROVE Blamed
  <2>1. PICK h \in Handlers : \/ OpenFails(h) \/ ReadFails(h) \/ AcquireFails(h)
                              \/ SendHeaders(h) \/ WriteFails(h)
    BY <1>1 DEF Next, Gates, CheckFast, CheckStartup, CheckFraming, Upload, Lease, Respond,
         AnswerUnavailable, OpenGarbled, Buffered, OpenStream, ReadChunk, Close,
         Release, WriteChunk, Leave, Host, EngineDies, EngineReturns, Deny, Pass,
         managerVars
  <2>2. CASE AcquireFails(h)
    BY <1>1, <2>2 DEF AcquireFails, At, FInv, Types
  <2>3. CASE OpenFails(h) \/ ReadFails(h)
    <3>1. fault[h] = "none"
      BY <1>1, <2>3 DEF FInv, WiresOK, Unfailed, OpenFails, ReadFails, At
    <3>2. fault'[h] \in {"connection", "timeout"}
      BY <1>1, <2>3 DEF OpenFails, ReadFails, Fault, FInv, Types
    <3> QED
      BY <3>1, <3>2
  <2>4. CASE SendHeaders(h) \/ WriteFails(h)
    <3>1. fault[h] = "none" /\ fault'[h] = "vanished"
      BY <1>1, <2>4
         DEF SendHeaders, WriteFails, ClientLost, Fault, At, FInv, Types, WiresOK, Unfailed
    <3> QED
      BY <3>1
  <2> QED
    BY <2>1, <2>2, <2>3, <2>4
<1>2. FInv /\ [Next]_forwardVars => [Blamed]_forwardVars
  BY <1>1
<1> QED
  BY <1>2, Wires, PTL DEF Spec, HangUpKeepsReady
=============================================================================
