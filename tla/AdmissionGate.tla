--------------------------- MODULE AdmissionGate ---------------------------
(***************************************************************************)
(* The way of a request through the thermal guard, from do_POST's fast gate*)
(* to the count, against the host that writes the guard's two files and    *)
(* asks /healthz for a zero-inflight proof.  The request lock is modelled  *)
(* at its own grain, and a check reads one file in each step.  Switching   *)
(* and waking, the subject of Acquire, are one step that ends well or not. *)
(***************************************************************************)
EXTENDS Naturals, ThermalGuard

CONSTANTS
  Requests, Probes,  \* handler threads of inference POSTs and of GET /healthz
  First,             \* models[0]
  Actions,           \* the identifiers of the host's containment actions
  Contents,          \* what the projection's file may hold
  Unread,            \* the latch has not been read yet
  LatchFaults        \* a read of the latch may fail

ASSUME GateAssumption ==
  /\ First \in Models
  /\ Requests \cap Probes = {} /\ None \notin Requests \cup Probes
  /\ None \notin Actions /\ Unread \notin Actions \cup {None}
  /\ Contents \subseteq Projections
  /\ LatchFaults \in BOOLEAN

VARIABLES
  latch,        \* the containment file: the action that holds it, or None
  spent,        \* the actions raised so far: an identifier is not reused
  projection,   \* the projection's file
  condition,    \* holder of _condition
  requestLock,  \* holder of _request_lock
  inflight,     \* _inflight_requests
  pc, target,   \* per thread: where it is; the model it is for
  seen,         \* per thread: the latch as its current check has read it
  fenced,       \* per probe: the guard's answer for models[0]
  steady,       \* ghost, per probe: no file was written since it began
  fencedZero,   \* ghost: the last urgent_drain_snapshot that was not null
                \* showed a fence and a zero; since then no file was written
                \* and no stray counted
  blind,        \* ghost: the threads whose current check took the latch that
                \* stands for none, because they could not read it
  proof         \* ghost: the action that a snapshot showed with a zero, until
                \* a stray was counted: a request whose final check was blind

files == <<latch, spent, projection>>
ghost == <<steady, fencedZero, blind, proof>>
gateVars == <<files, condition, requestLock, inflight, pc, target, seen,
              fenced, ghost>>

Threads == Requests \cup Probes

(* Positive danger: the latch, or a projection that denies.                *)
Danger(l, p) == l # None \/ Denies(p)

Init ==
  /\ latch = None /\ spent = {} /\ projection \in Contents
  /\ condition = None /\ requestLock = None /\ inflight = 0
  /\ pc = [t \in Threads |-> "idle"]
  /\ target = [t \in Threads |-> None]
  /\ seen = [t \in Threads |-> Unread]
  /\ fenced = [h \in Probes |-> FALSE]
  /\ steady = [h \in Probes |-> FALSE] /\ fencedZero = FALSE
  /\ blind = {} /\ proof = None

-----------------------------------------------------------------------------
(* The host.                                                               *)
Written ==
  /\ steady' = [h \in Probes |-> FALSE]
  /\ fencedZero' = FALSE
  /\ UNCHANGED <<blind, proof>>

RaiseLatch ==
  /\ latch = None
  /\ \E a \in Actions \ spent : latch' = a /\ spent' = spent \cup {a}
  /\ Written
  /\ UNCHANGED <<projection, condition, requestLock, inflight, pc, target,
                 seen, fenced>>

ClearLatch ==
  /\ latch # None
  /\ latch' = None
  /\ Written
  /\ UNCHANGED <<spent, projection, condition, requestLock, inflight, pc,
                 target, seen, fenced>>

(* The projection is rewritten, damaged or grows old.                      *)
Publish ==
  /\ projection' \in Contents \ {projection}
  /\ Written
  /\ UNCHANGED <<latch, spent, condition, requestLock, inflight, pc, target,
                 seen, fenced>>

-----------------------------------------------------------------------------
(* The checks of a request, in order, each with what follows it: do_POST's *)
(* fast gate; acquire's before the condition, under it, and after the      *)
(* switch wait; the thermal part of admission_check; the final one under   *)
(* the request lock.                                                       *)
Checks == {"fast", "entry", "locked", "waited", "admission", "final"}
After(c) == CASE c = "fast"      -> "entry"
              [] c = "entry"     -> "queue"
              [] c = "locked"    -> "switch"
              [] c = "waited"    -> "admission"
              [] c = "admission" -> "activate"
              [] c = "final"     -> "served"

(* check_fast_admission has read no body yet and asks about models[0].     *)
Asked(r) == IF pc[r] = "fast" THEN First ELSE target[r]

Goto(t, l) == pc' = [pc EXCEPT ![t] = l]
Unsee(t)   == seen' = [seen EXCEPT ![t] = Unread] /\ blind' = blind \ {t}
Untarget(t) == target' = [target EXCEPT ![t] = None]

Arrive(r) ==
  /\ pc[r] = "idle"
  /\ \E m \in Models : target' = [target EXCEPT ![r] = m]
  /\ Goto(r, "fast")
  /\ UNCHANGED <<files, condition, requestLock, inflight, seen, fenced,
                 ghost>>

(* _containment_snapshot.  A latch that cannot be read or is not what it   *)
(* should be counts as none: the guard fails open.                         *)
SeeLatch(t) ==
  /\ \/ seen' = [seen EXCEPT ![t] = latch] /\ UNCHANGED blind
     \/ /\ LatchFaults /\ latch # None
        /\ seen' = [seen EXCEPT ![t] = None] /\ blind' = blind \cup {t}
  /\ UNCHANGED <<files, condition, requestLock, inflight, pc, target, fenced,
                 steady, fencedZero, proof>>

ReadLatch(r) == pc[r] \in Checks /\ seen[r] = Unread /\ SeeLatch(r)

(* The guard reads the projection and lets the request pass; the final     *)
(* check counts it.                                                        *)
Pass(r) ==
  /\ pc[r] \in Checks /\ seen[r] # Unread
  /\ ~Fenced(Asked(r), seen[r], projection)
  /\ Goto(r, After(pc[r]))
  /\ Unsee(r)
  /\ IF pc[r] = "final"
       THEN /\ inflight' = inflight + 1
            /\ requestLock' = None /\ condition' = None
            /\ fencedZero' = (fencedZero /\ r \notin blind)
            /\ proof' = IF r \in blind THEN None ELSE proof
       ELSE UNCHANGED <<inflight, requestLock, condition, fencedZero, proof>>
  /\ UNCHANGED <<files, target, fenced, steady>>

(* Whoever raises under a lock frees it.                                   *)
Leave(r, l) ==
  /\ Goto(r, l)
  /\ Unsee(r)
  /\ requestLock' = IF requestLock = r THEN None ELSE requestLock
  /\ condition' = IF condition = r THEN None ELSE condition
  /\ UNCHANGED <<files, inflight, target, fenced, steady, fencedZero,
                 proof>>

(* The guard reads the projection and raises ThermalCooldownError.         *)
Deny(r) ==
  /\ pc[r] \in Checks /\ seen[r] # Unread
  /\ Fenced(Asked(r), seen[r], projection)
  /\ Leave(r, "cooldown")

(* Deadlines, the resource guard and engines that fail end a request too.  *)
Fail(r) == pc[r] \in {"switch", "activate"} /\ Leave(r, "failed")

TakeCondition(r) ==
  /\ pc[r] \in {"queue", "waiting"} /\ condition = None
  /\ condition' = r
  /\ Goto(r, IF pc[r] = "queue" THEN "locked" ELSE "switch")
  /\ UNCHANGED <<files, requestLock, inflight, target, seen, fenced, ghost>>

SwitchWait(r) ==
  /\ pc[r] = "switch"
  /\ condition' = None
  /\ Goto(r, "waiting")
  /\ UNCHANGED <<files, requestLock, inflight, target, seen, fenced, ghost>>

(* The switch wait is over, or the target is awake.                        *)
Proceed(r) ==
  /\ \/ pc[r] = "switch" /\ Goto(r, "waited")
     \/ pc[r] = "activate" /\ Goto(r, "count")
  /\ UNCHANGED <<files, condition, requestLock, inflight, target, seen,
                 fenced, ghost>>

(* Mutant: the latch is not read again after the activation.               *)
TakeRequestLockChecked(r) ==
  /\ pc[r] = "count" /\ requestLock = None
  /\ requestLock' = r
  /\ Goto(r, "final")
  /\ seen' = [seen EXCEPT ![r] = None]
  /\ UNCHANGED <<files, condition, inflight, target, fenced, ghost>>

TakeRequestLock(r) ==
  /\ pc[r] = "count" /\ requestLock = None
  /\ requestLock' = r
  /\ Goto(r, "final")
  /\ UNCHANGED <<files, condition, inflight, target, seen, fenced, ghost>>

(* The response ends and release decrements under the request lock, without*)
(* the condition.  release raises where the count is already zero.         *)
Release(r) ==
  /\ pc[r] = "served" /\ requestLock = None /\ inflight > 0
  /\ inflight' = inflight - 1
  /\ Goto(r, "idle") /\ Untarget(r)
  /\ UNCHANGED <<files, condition, requestLock, seen, fenced, ghost>>

(* The 503 is sent and the thread ends.                                    *)
Answer(r) ==
  /\ pc[r] \in {"cooldown", "failed"}
  /\ Goto(r, "idle") /\ Untarget(r)
  /\ UNCHANGED <<files, condition, requestLock, inflight, seen, fenced,
                 ghost>>

-----------------------------------------------------------------------------
(* urgent_drain_snapshot: a try-lock, null where it fails, then the two    *)
(* files and the count, all under the request lock.                        *)
ProbeLock(h) ==
  /\ pc[h] = "idle" /\ requestLock = None
  /\ requestLock' = h
  /\ Goto(h, "probe")
  /\ steady' = [steady EXCEPT ![h] = TRUE]
  /\ UNCHANGED <<files, condition, inflight, target, seen, fenced,
                 fencedZero, blind, proof>>

ProbeLatch(h) == pc[h] = "probe" /\ seen[h] = Unread /\ SeeLatch(h)

(* Mutant: a fence beside a damaged projection is shown without its action.*)
ProbeProjectionAnonymous(h) ==
  /\ pc[h] = "probe" /\ seen[h] # Unread
  /\ fenced' = [fenced EXCEPT ![h] = Fenced(First, seen[h], projection)]
  /\ seen' = [seen EXCEPT ![h] = IF Valid(projection) THEN @ ELSE None]
  /\ Goto(h, "probed")
  /\ UNCHANGED <<files, condition, requestLock, inflight, target, ghost>>

ProbeProjection(h) ==
  /\ pc[h] = "probe" /\ seen[h] # Unread
  /\ fenced' = [fenced EXCEPT ![h] = Fenced(First, seen[h], projection)]
  /\ Goto(h, "probed")
  /\ UNCHANGED <<files, condition, requestLock, inflight, target, seen,
                 ghost>>

Report(h, n) ==
  /\ pc[h] = "probed"
  /\ fencedZero' = (steady[h] /\ fenced[h] /\ n = 0)
  /\ proof' = IF seen[h] # None /\ n = 0 THEN seen[h] ELSE proof
  /\ requestLock' = None
  /\ Goto(h, "idle")
  /\ Unsee(h)
  /\ fenced' = [fenced EXCEPT ![h] = FALSE]
  /\ steady' = [steady EXCEPT ![h] = FALSE]
  /\ UNCHANGED <<files, condition, inflight, target>>

(* Mutant: the lock is not kept to the count's read, which is another's.   *)
ProbeReportsEarlierCount(h) == \E n \in {inflight, 0} : Report(h, n)

ProbeCount(h) == Report(h, inflight)

(* The process dies and is restarted over the same files.                  *)
Crash ==
  /\ condition' = None /\ requestLock' = None /\ inflight' = 0
  /\ pc' = [t \in Threads |-> "idle"]
  /\ target' = [t \in Threads |-> None]
  /\ seen' = [t \in Threads |-> Unread]
  /\ fenced' = [h \in Probes |-> FALSE]
  /\ steady' = [h \in Probes |-> FALSE]
  /\ blind' = {}
  /\ UNCHANGED <<files, fencedZero, proof>>

-----------------------------------------------------------------------------
Host == RaiseLatch \/ ClearLatch \/ Publish
Request(r) ==
  \/ ReadLatch(r) \/ Pass(r) \/ Deny(r) \/ Fail(r) \/ TakeCondition(r)
  \/ SwitchWait(r) \/ Proceed(r) \/ TakeRequestLock(r) \/ Release(r) \/ Answer(r)
Probe(h) == ProbeLock(h) \/ ProbeLatch(h) \/ ProbeProjection(h) \/ ProbeCount(h)

Next == \/ Host \/ Crash
        \/ \E r \in Requests : Arrive(r) \/ Request(r)
        \/ \E h \in Probes : Probe(h)

Spec == Init /\ [][Next]_gateVars

(* The threads of the server run; a response ends; the host's watchdog asks*)
(* again and again, at intervals: a release that waits for the request lock*)
(* gets it between two of its probes.                                      *)
Fairness == /\ \A r \in Requests : WF_gateVars(Request(r)) /\ SF_gateVars(Release(r))
            /\ \A h \in Probes : WF_gateVars(Probe(h))

FairSpec == Spec /\ Fairness

-----------------------------------------------------------------------------
TypeOK ==
  /\ latch \in Actions \cup {None} /\ spent \subseteq Actions
  /\ projection \in Contents
  /\ condition \in Requests \cup {None} /\ requestLock \in Threads \cup {None}
  /\ inflight \in Nat
  /\ pc \in [Threads -> Checks \cup {"idle", "queue", "switch", "waiting",
                "activate", "count", "served", "cooldown", "failed", "probe",
                "probed"}]
  /\ target \in [Threads -> Models \cup {None}]
  /\ seen \in [Threads -> Actions \cup {None, Unread}]
  /\ fenced \in [Probes -> BOOLEAN]
  /\ steady \in [Probes -> BOOLEAN] /\ fencedZero \in BOOLEAN
  /\ blind \subseteq Threads /\ proof \in Actions \cup {None}

(* A zero has been proved under the action that still holds the latch.     *)
Proved == proof # None /\ latch = proof

(* manager.py:310-326 with 453-457: a same-action fenced zero is final.    *)
(* Whatever the projection says and whatever the proxy does, crashes       *)
(* included, no request that can read the latch is counted before the host *)
(* lifts it.  A stray is counted (admission.py:178-181), and then the proof*)
(* is worth nothing until the watchdog obtains another.                    *)
Promise == INSTANCE DrainPromise
             WITH fence <- latch, counted <- inflight, proved <- Proved
ZeroIsFinal == Promise!Spec

(* manager.py:453-455: a fenced zero, of any cause, wins over the requests *)
(* that are on their way to the count, as long as the host writes nothing  *)
(* and they can read the latch: the fence of models[0] that the snapshot   *)
(* showed denies them all, although each of their checks and the probe read*)
(* two files at two moments.                                               *)
FencedZeroWins == fencedZero => inflight = 0

(* SLP-LIFE-009 as the guard implements it (admission.py:183-302): a       *)
(* required model is refused for its heat only under the latch or on a     *)
(* projection that denies, be it old; never because the host's data is     *)
(* missing or damaged, or old or a warning while it allows, by any of the  *)
(* six checks and whatever was written between the reads of the two files. *)
RequiredRefusedOnlyInDanger ==
  [][\A r \in Requests :
       /\ pc[r] # "cooldown" /\ pc'[r] = "cooldown"
       /\ target[r] \in Required
       => Danger(seen[r], projection)]_gateVars

(* manager.py:310-326: a fence that stays up lets the watchdog obtain its  *)
(* proof: requests keep coming, but the fast gate keeps them off the       *)
(* request lock and those beyond it are denied or end.  The process is     *)
(* supposed to crash finitely often, and the latch to become readable.     *)
FenceDrains ==
  <>[](latch # None /\ blind = {}) /\ <>[][~Crash]_gateVars => <>Proved
=============================================================================
