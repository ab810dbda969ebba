# A verification of vllm-sleeper-proxy

`vllm-sleeper-proxy` puts several vLLM engines behind one endpoint on a host
whose memory holds only one of them. It wakes the engine a request needs, after
it has drained and put to sleep whichever engine was awake. This directory holds
TLA+ models of the proxy, the TLC runs that check them on small instances, and
proofs checked by TLAPS.

Paths like `manager.py:738` are relative to `vllm_sleeper_proxy/`.

## 1. Inventory

| Component | State | Operations | Talks to |
|---|---|---|---|
| Model manager, request path (`manager.py`) | `_condition`, `_request_lock`, the lease file, `_active_model_name`, `_active_model_ready`, `_lifecycle_state`, `_starting_model_name`, `_pending_switch_name`, `_quiescing`, `_inflight_requests` | `acquire` (switch wait, activation, admission), `release`, `mark_owner_unavailable` | engines by HTTP, the transition file |
| Resource back-off (`sleep_active_model`) | `_sleep_operation_lock`, `_quiescing` | `POST /sleep`: quiesce, drain, sleep the owner or prove the lineup asleep | engines, lease, transition file |
| Startup and recovery | `_startup_finalized`, `_starting_model_name` | `reconcile_startup_state`, `startup_sleep_model`, `finalize_startup`, `adopt_startup_state`, process crash | engines, lease, transition file |
| vLLM engines (external) | asleep or awake | `/is_sleeping`, `/sleep`, `/wake_up`, `/collective_rpc`, `/reset_mm_cache` | |
| HTTP front (`server.py`) | the listener, a thread, a client connection and an upstream response per request | the gates of `do_POST`, buffered and streaming forwarding, `/healthz` | manager, engines |
| Sleep deadline headers (`parse_sleep_bounds`, `sleep_active_model`) | the clock, two deadlines | four headers to two deadlines, and every read of the clock | `POST /sleep` |
| Urgent drain proof (`urgent_drain_snapshot`) | `_request_lock`, the count | one non-blocking look at the count and the thermal fence | host watchdog, by `/healthz` |
| Admission guards (`admission.py`) | status files written by the host | thermal projection and containment latch; resource guard with its retries | `acquire`, `do_POST` |
| Memory monitor (`memory_monitor.py`) | edge flag | `POST /sleep` when host memory reaches its ceiling | the proxy, by HTTP |
| HTTP client (`client.py`) | none | `request`, `stream`, `iter_chunks` | engines |
| Configuration, deployment files | none | | |

How they interact. Every inference request is a thread that runs `acquire`,
which waits on one condition variable for switches and drains, then holds the
condition, and inside it the startup lease, through the whole sleep and wake of
the engines; it is counted in flight until its response ends. `POST /sleep` sets
a flag under the condition, waits for the count to reach zero, and then *frees
the condition* while it holds the lease and talks to the engine: only the flag
keeps requests out. The startup operations take the lease first and the
condition inside it, the reverse of the request path. The host guard reads the
transition file, the health endpoint reads the fields without a lock.

What is hard:

- three mechanisms that exclude each other in different orders (condition, lease
  file, sleep-operation lock) and two flags (`_quiescing`,
  `_pending_switch_name`) that stand in for a lock while one is free;
- `release` that decrements without the condition and notifies with it;
- partial failure at each of some fifteen control calls, with a clean-up that
  itself makes calls that fail;
- deadlines read at several places of one loop;
- engines whose sleep or wake takes effect after the call that asked for it has
  been given up;
- a process that dies in any state over engines that survive it;
- two files that the host rewrites at any moment, read one after the other at six
  places of one request, and a proof of an empty proxy that must stay true;
- two connections, to the client and to the engine, that fail alike;
- clocks: relative and absolute deadlines, and time that passes between any two
  of their reads.

What makes each component correct:

- request path: at most one engine is woken and only when every other is asleep;
  no engine is put to sleep under a request; a request that joined a switch
  leaves no trace when it fails; what is cached about the owner is true when
  nobody is at work; every request is answered;
- back-off: nobody is admitted between the moment of zero and the end of the
  sleep; every exit ends the quiescence and frees the lock; every call is
  answered;
- startup: nothing is woken, no operation overlaps another, no engine is left
  awake unknown to the manager, and the announcement is withdrawn;
- drain proof: a fenced zero stays zero until the host lifts the fence, and a
  fence that stays up is eventually proved drained;
- admission: a required model is refused only in danger; each uncertainty fails
  in the declared direction; no retry loop runs for ever or out
  into an admission;
- deadlines: what the parser accepts the manager accepts, nothing is done after
  the caller's deadline, a bounded call ends if it gets the condition back;
- forwarding: one answer per request, an engine's response is closed before the
  count says so, a client that hangs up does not cost the engine its readiness;
- monitor: an answered back-off is asked once per crossing, and lasting pressure
  is not forgotten.

## 2. Modules

```
Engines            the engines as their control endpoints show them (external)
  ManagerState     the fields of one process, its threads, shared helpers
    Acquire        a request: acquire, activation, forwarding, release
    Backoff        POST /sleep
    Startup        reconciliation, /startup/*, crash
      SleeperProxy         the composition: Init, Next, Spec, fairness, properties
        MCProxy            small instances for TLC
        SleeperProxy_proofs  proofs: types, locks, gates and the count
          Lifecycle_proofs   proofs: ownership, lifecycle, transition file, pending switch
            Engines_proofs   proofs: the engines, and that the proxy implements Lineup
Lineup             what the proxy promises about its lineup (abstract)

ThermalGuard       the decision of the thermal guard on what it has read
  AdmissionGate    a request's six checks, the count and the watchdog's probe,
                   against the host that writes the guard's files
    MCGate         small instance for TLC
    AdmissionGate_proofs
DrainPromise       what a proved zero promises the host (abstract)

ResourceGuard      one call of the resource guard, its retries, an ageing file
  ResourceGuard_proofs

SleepBounds        one POST /sleep from its headers to every read of the clock
  MCSleep          small instance for TLC
  SleepBounds_proofs

Forwarding         handler threads between clients and engines
  MCForwarding     small instance for TLC
  Forwarding_proofs

MemoryMonitor      the monitor beside the proxy
  MemoryMonitor_proofs
```

The core (`SleeperProxy`) has all of the manager; the other components look at
one of its operations with a finer grain and take the rest of it as a step that
ends well or not. What one assumes of another is what the other shows:

| Module | takes | as | which is shown by |
|---|---|---|---|
| `SleeperProxy` | the admission guards | any denial (`Denials`) | it needs no property of them |
| `SleeperProxy` | the deadlines of `POST /sleep` | a flag that may be set at any moment (`expired`) | it needs no order of the two |
| `AdmissionGate` | switching and waking | a wait under the condition that ends well or in an error | `SleeperProxy`, `CallsAnswered` |
| `AdmissionGate` | the resource guard | one more way to fail (`Fail`) | `ResourceGuard`, `GuardEnds` |
| `Forwarding` | `acquire` | a step that leases or denies | `SleeperProxy`, `CallsAnswered` |
| `SleeperProxy` | a response | a request that ends or loses its engine at any moment | `Forwarding`, `OneAnswer`, `LeavingFrees` |
| `MemoryMonitor` | `POST /sleep` | a call that ends, with the engine asleep or an error | `SleeperProxy`, `CallsAnswered` |

**State.** Each variable of `ManagerState` is the field of `ModelManager` named
beside its declaration, or one of the locks. `published` is the last record in
the transition file (its phase and model). The variables `pc`, `target`, `todo`,
`probe`, `expired` and `op` are the stack of a thread: where it is, the model it
is for, the models its loop has still to visit, the model it is putting to
sleep, whether its drain deadline has passed, and which startup operation it runs.

**Grain.** One step is what a thread does between two points where it can block
or call an engine: taking the condition, the lease or the sleep-operation lock,
waiting on the condition, one HTTP call. What the code runs under the condition
between two such points is one step, trailing `finally` clauses and
publications included. A `_request_lock` section is a single read, decrement or
check-and-increment, and is one step as well. `release` is two
steps, because it decrements before it takes the condition. `notify_all` moves
every waiter from `waiting` to `resume`, from where it must take the condition
again.

**Loops over the lineup** visit it in any order; every configured order is one
of them.

**Deadlines.** A drain deadline is the flag `expired`, set at any moment while
the thread is blocked. `GiveUpInDrain` and `GiveUpInCount` are the two places of
`_wait_for_switch_safety` that can notice it, with their different effects. A
containment deadline may pass at each of the points where the code reads it
(`ContainmentExpires`). Poll budgets and HTTP timeouts are outcomes of the call
(`Faults`).

**Choices.** `Faults` lets a control call fail, time out with or without having
taken effect, answer with no Boolean, or raise an exception that no handler lists
(`http.client.HTTPException`, which `client.py` lets out: `UndoEscapes`,
`RevalidationEscapes`). `Denials` lets each admission check
deny, so that the guards are any guard. `AsyncSleep` makes an accepted `/sleep`
take effect later (`falling`), as the comment at `manager.py:938` says it does;
`LateWake` makes a wake that the proxy has given up on take effect later
(`rising`). `Repeat` lets a thread serve further calls.

**The transition file.** `DiskFaults` lets a write of it fail with `OSError` in
`POST /sleep`, at the announcement (`AnnounceFails`, before any `try`) and at the
commit or the abort (`EndUnpublished`, before `_quiescing` is reset). Elsewhere a
write succeeds (Observations lists what a failure would leave).

**Left out of the core**: denials before `acquire` takes the condition (they
change nothing), `ensure_awake` (not called by the server), the branch at
`manager.py:967` (unreachable: `_ensure_awake_startup_locked` never reaches it
with the target as owner), `always_wake = false` for that reason,
`startup_state` (it changes nothing).

**Abstract specification of the core.** `Lineup` has two variables, the resident
engines and the model each client is served by, and says: an engine becomes
resident only when none is, a client is served only by the engine that is
resident alone, and an engine that serves is not put to sleep. `SleeperProxy`
implements it with `resident <- {m : engine[m] # "asleep"}` and
`serving <- Served` (property `KeepsPromise`).

**AdmissionGate.** `latch` and `projection` are the two files; a check is two
steps, `ReadLatch` and `Pass` or `Deny`, the second of which reads the
projection. The six values of `Checks` are the six calls of the guard in
`do_POST` and `acquire`, in their order; `First` is `models[0]`, which the first
of them and `urgent_drain_snapshot` ask about. `requestLock` is modelled at its
own grain: the probe holds it over its three reads, the final check over its two
and the increment. Each read of the latch (`SeeLatch`) may take a latch that stands
for none, as the guard does with one it cannot read or parse (`LatchFaults`);
`blind` are the threads whose check has done so, and one that is counted is a
stray. `steady`, `fencedZero` and `proof` are the histories of the two proofs.
`DrainPromise` is the abstract specification the host relies on, with
`fence <- latch`, `counted <- inflight` and `proved` for a zero that was shown
with the action that still holds the latch; its `Stray` counts a request all the
same, and undoes the proof.

**ResourceGuard.** The file's age is relative to the file's own maximum and may
move on between the read and the judgement. The reasons are the one that is worth
another read, another uncertainty, and pressure.

**SleepBounds.** Time is in ticks of which a millisecond has `Ms`; `Tick` may
interleave anywhere. A header is how often it is given, whether it is written in
digits, and its number. `Wait` and `Take` are a timed lock acquisition, whose
timeout may be noticed late. `Regain` is the condition taken with no timeout: after
the drain's wait, notified or expired, for the commit and for the abort.

**Forwarding.** `fault` is what the engine did to the handler, as a history;
`sent` the status lines written. The `except` clauses of the source see only the
kind of an exception, not its origin, and so do the guards of the actions: a write
to a client that hung up ends in a broken pipe or a reset, one to a client that
vanished may time out or abort, which is taken for the engine's failure
(`ClientLost`, the fault `"vanished"`).

**MemoryMonitor.** `Pressed` is the comparison of `memory_monitor.py:47` solved
for the available memory. `orphans` counts the calls that the monitor has given
up on and the proxy still works on.

## 3. Runs

| Run | Instance | Shows | Distinct states |
|---|---|---|---|
| `deadlines` | 2 requests, a bounded and an unbounded sleeper; level-2 wakes, deadlines, denials, failing calls, late wakes, failing writes in `POST /sleep` | every exit leaves the count, the flags, the readiness and the lifecycle state as its property says; nobody is admitted past a gate; no response is cut off | 1 200 000 |
| `bootstrap` | 2 startup handlers, 1 request, 1 sleeper, one crash, failing calls | startup operations wake nothing and are serialized; no awake engine is forgotten, whatever order the operations are called in; the transition file is never ahead of the proxy | 1 590 000 |
| `answered` | 3 requests, 2 sleepers, deadlines, slow sleeps, fairness | with the clock every call is answered even if responses never end (`CallsAnswered`); without it, and with responses that end, no wake-up is lost (`NoWakeUpLost`); `KeepsPromise`: the proxy implements `Lineup`, over engines that finish their sleep late | 150 000 |
| `gate` | 2 requests, a probe, a required first and an optional model, a latch that may fail to be read, a host with one action, crashes, fairness | a fenced zero is final but for strays (`ZeroIsFinal`, `FencedZeroWins`); a required model is refused only under the latch or a denial; a fence that stays up is proved drained | 411 000 |
| `resource_guard` | one call with two refreshes, any file rewritten or ageing at any moment | which uncertainty denies which model, that the guard ends | 11 000 |
| `sleep_bounds` | every combination of absent, doubled, malformed, zero, in-range and out-of-range headers | parser and manager agree; drain and mutation are in time; a bounded call ends once it is given the condition back | 48 500 |
| `memory_monitor` | 20 units of memory, a ceiling of 95 %, two calls the proxy still works on, failures and restarts | no flapping, and no forgotten pressure | 900 |
| `forwarding` | 2 handlers, five kinds of requests, three kinds of losses | one answer, closed before it is uncounted, a client that hangs up does not invalidate an engine, leaving frees | 296 000 |
| `pending_timeout`, `lock_order`, `sleep_abandoned`, `stale_denial` | the smallest that show it | see Findings | |

**Bounds.** Two models in the core: a switch needs an old and a new one, a third
engine would only be one more peer that is asleep. Two requests race for
different models or share one; the third lets a request for the old model arrive
while a switch drains. `MaxCrashes` (0 or 1) is the core's only counter bound: one
crash at any point of any interleaving already puts a new process over every
state of the engines, and a second one would start from the same set. Threads
serve calls for ever (`Repeat`), except in `answered`, where each serves one, and
where `Assigned` fixes which request asks for which model, two for one and the
third for the other: requests and models are interchangeable, so that only three
requests for one model are left out. `CallsAnswered` supposes that calls cease to
come in, because Python's locks are not fair: a thread that calls again and again
may keep another from a lock for ever, which neither the code nor the model rules
out. With `Repeat` it holds as well in the same instance, in three and a half
minutes.

In `gate` the projection is missing, old, a warning, a denial, or an old denial:
fresh and healthy data would only let requests for the optional model behave like
those for the required one. One action suffices
for the run because an identifier is not used twice; the theorems hold for any
number, any contents and any host. In `sleep_bounds` the timeouts go up to 2 ms,
the configured one is 2.5 ms, so that caps bite on both sides, and an epoch of 1
has passed when the clock starts (`Latest` and the last deadline bound the
clock). In `memory_monitor` the ceiling is at one unit of memory, with samples on
both sides of it and exactly on it. `MaxCalls` bounds the abandoned calls.

Symmetry is used in safety runs only.

**Deadlock** is checked in `deadlines`, `gate`, `resource_guard`,
`memory_monitor` and `forwarding`. It is off in `answered` and `sleep_bounds`,
where calls end, and in bootstrap mode, where finding 2 is a deadlock that the
code really has; `bootstrap` checks the other properties up to it.

**Fairness.** In the core (`FairThreads`) it is weak and per thread: the server
runs a thread per connection, each HTTP call has a timeout and each poll a
budget, so that a thread that can step does. Nothing is assumed of a client that
calls. Deadlines pass (`Clocks`) only as a hypothesis of `CallsAnswered`, responses
end (`ResponsesEnd`) only as one of `NoWakeUpLost`,
which supposes that no deadline passes: otherwise a lost notification would be
hidden by the timeout behind it.

In `AdmissionGate` threads run, responses end, the watchdog asks again and
again, and `Release` is strongly fair: it waits for a lock that a probe holds
for three reads, and the watchdog's probes are seconds apart. Crashes are
supposed to stop, and the latch to become readable (hypotheses of `FenceDrains`). In `ResourceGuard` the thread
runs and its naps end. In `SleepBounds` time passes and the call's own steps are
taken; nothing is assumed of whoever holds the locks or is in flight, but that
`BoundedEnds` supposes that the condition is given back (`WF` of `Regain`). In
`Forwarding` threads run, a read from an engine ends by its timeout, and writes to
a client that has left fail at last (strong fairness of `WriteFails`: the first
writes may still go to a buffer); a client need not upload, read or leave. In
`MemoryMonitor` the loop runs, the proxy ends its calls (`CallsAnswered`), the
deployment restarts the monitor (nothing in the repository does), and `/proc/meminfo` can be read again and again.

Each property of a passing run has a mutant of the code's model that breaks it
(`mutants` in `PROJECT.json`); a mutant stands before the definition it mutates.

## 4. Findings

The runs that end in a violation exhibit behaviour the documents exclude:

1. `pending_timeout`: the drain deadline of a request that waits for a switch
   passes; `_exact_inflight_requests(deadline)` (`manager.py:752`) raises before
   `_wait_for_drain` can drop the pending switch. `_pending_switch_name` keeps
   naming a model nobody asks for, and requests for every other model wait for
   their own deadlines. SLP-LIFE-006 says a timeout must release it.
2. `lock_order`: after `/startup/finalize` has set `_startup_finalized` and
   before its `finally`, a request holds the condition and wants the lease, the
   operation the reverse (`manager.py:865` against `210`). Both wait for ever.
3. `sleep_abandoned`: a bounded `POST /sleep` that gives up after the engine has
   accepted the sleep ends the quiescence at once (`manager.py:710`); a request
   admitted meanwhile is cut off when the sleep completes.
4. `stale_denial`: a snapshot of the resource monitor that is too old to be
   believed still refuses a required model if it denies it for pressure
   (`admission.py:72-75`, as `tests/test_admission.py:339-342` expects).
   `README.md:108-111`, `docs/multimodal-chat.md:153-156` and SLP-LIFE-009 keep
   required models available under stale data.

### Observations without a run

Each names the model's switch that shows it, where there is one.

Request path and back-off:

- An admission check that denies after the switch wait (`manager.py:448`,
  `DenySwitch`) leaves the pending switch behind as in finding 1; the theorem
  `PendingIsPursued` supposes neither denials nor deadlines.
- A wake the proxy has given up on may complete after the owner was cleared: two
  engines are then resident until the next activation finds the first. `deadlines`
  shows that no request is cut off by it. `KeepsPromise` is checked, and proved,
  without it for this reason.
- A `/sleep` whose answer is lost (`Faults`) and which takes effect late
  (`AsyncSleep`) may end under a request: with both switches `KeepsPromise` fails.
- The undo of a failed start and the revalidation list their exceptions
  (`manager.py:912`, `830`, `845`, `854`); an `http.client.HTTPException`, which
  `client.py:84-98` lets out, is none of them. No demand is published, and after a
  start `lifecycle` rests at `"starting"` with the owner remembered and not ready;
  the caller's connection is dropped without an answer. SLP-LIFE-005 wants an
  explicit state. `LifecycleExplicit` admits exactly this.
- A `POST /sleep` takes the condition with no timeout after its drain wait
  (`602`) and for its commit or abort (`644`, `655`, `706`, `714`): a request that
  holds it through a wake of minutes keeps a bounded call beyond its deadlines.
  `BoundedEnds` promises an end, not a time.
- In a switch the transition file reads `idle` from the moment the old engine
  sleeps (`941`) to the end of the new one's wake (`981` does not publish).
- A write of the transition file that fails where `POST /sleep` commits or aborts
  (`707`, `715`) raises before `_quiescing` is reset and before the waiters are
  notified: every request waits out its drain deadline until some later
  `POST /sleep` succeeds, although `manager.py:331` calls the file advisory.
  `NoResidue` says of it only that the readiness is withdrawn as well. The publications
  that stand before their `try` (`162`, `196`, `222`, `360`, `882`) would leave
  `_starting_model_name` set in the same way; these are not modelled.

Startup:

- A second `/startup/finalize` does not look at the requests in flight, as
  `/startup/sleep` does (`158`), and puts the engine of one to sleep
  (`bootstrap` with the invariant `NeverEvicted`).
- `finalize_startup` that fails midway leaves a ready owner whose engine sleeps;
  the next request revalidates it, so that nothing is forwarded to it.
  `ReadyIsAwake` is therefore not claimed in bootstrap mode.
- A `POST /sleep` that drained before an adoption has no owner to put to sleep: it
  validates the lineup and commits (`656`) with the adopted owner left: after a
  `/startup/sleep` of that owner which failed once its engine slept, `lifecycle` is
  `"sleeping"` beside an active model. `LifecycleExplicit` is therefore not claimed in bootstrap mode
  (`bootstrap` with that invariant).
- `adopt_startup_state` publishes `idle` while the owner it adopted is ready.
- The handlers of the startup endpoints catch `WakeError` only: a control call
  that raises `ConnectionError` drops the client's connection without an answer.

Admission:

- `check_fast_admission` and `urgent_drain_snapshot` ask about `models[0]`. With
  an optional first model (`First = o` in `gate`, and a projection that goes from
  healthy to warning as its `Contents`) a warning refuses requests for a
  required one (`RequiredRefusedOnlyInDanger` fails, against SLP-LIFE-009), and a
  fenced zero shown on a warning is followed by the admission of a required model
  (`FencedZeroWins` fails, against the comment at `manager.py:453-455`).
- A stale thermal projection that denies refuses a required model
  (`admission.py:283-298`, as `tests/test_admission.py:163-170` expects), like the
  resource snapshot of finding 4; SLP-LIFE-009 reserves that for fresh ones.
  `RequiredRefusedOnlyInDanger` counts such a denial as danger.
- A latch that cannot be read or parsed counts as none (`admission.py:178-181`): a
  request may be counted under a raised latch, even after the watchdog was shown a
  zero. With `LatchFaults` the drain promise holds but for these strays.

Forwarding:

- The `except` clause for the client's `ConnectionResetError` (`server.py:438`)
  also sees the engine's: an engine that dies in mid-stream with a reset stays
  ready until the next request revalidates it. SLP-LIFE-011 wants it invalidated.
- A response of the engine that is not HTTP, or ends short of its length, raises
  `http.client.HTTPException`, which nobody catches: the lease is released and
  the connection dropped, without an answer and without invalidating the owner.
- A client that vanishes without closing its connection may make a write end in
  `TimeoutError` or `ConnectionAbortedError`, which the next clause
  (`server.py:440`) takes for the engine's: a healthy owner is invalidated, until
  the next request revalidates it.
- A buffered answer that takes longer than the request timeout marks a healthy
  engine unavailable.
- A connection failure before response headers is answered 503
  `lifecycle_unavailable` (as `tests/test_server.py:1148` expects);
  `docs/multimodal-chat.md:158-159` says 502 `upstream_unavailable`.
- A client that reads slowly holds its lease, and so a drain, for as long as it
  stays connected.

Monitor:

- The monitor asks once per crossing. An engine that traffic wakes after the one
  answered call runs on at the ceiling until a sample below it, and a fall and
  rise between two samples is not seen; `README.md:164-165` reads as if the
  ceiling itself triggered the call.

## 5. Proofs

TLAPS checks, for any set of models, any finite set of requests, any sleepers
and controllers, any deadlines, clocks and host files, and every setting of the
switches:

| Module | Theorem | Statement |
|---|---|---|
| `SleeperProxy_proofs` | `Invariance` | `Spec => []IInv` |
| | `TypeCorrect` | `Spec => []TypeOK`, with `inflight \in Nat` |
| | `CountIsExact` | `Spec => []InflightCounts` |
| | `LeaseSerializesTransitions` | `Spec => []LeaseSerializes` |
| | `QuiescenceHolds` | `Spec => QuiesceHolds` |
| | `PendingSwitchBlocksOthers` | `Spec => PendingBlocksOthers` |
| `Lifecycle_proofs` | `Holding`, `Ownership` | `Spec => [](IInv /\ HoldInv)`, `Spec => []LIInv` |
| | `NothingIsLeft` | `Spec => []NoResidue` |
| | `LifecycleIsExplicit` | `~Bootstrap` implies `Spec => []LifecycleExplicit` |
| | `OrdersNeverMeet` | `~Bootstrap` implies `Spec => []NoLockCycle`: finding 2 needs the startup endpoints |
| | `RecordIsTruthful` | `~DiskFaults` implies `Spec => []RecordTruthful` |
| | `PendingIsPursued` | `~Timeouts`, `~Denials` imply `Spec => []PendingHasRequester` |
| `Engines_proofs` | `BootstrapIsQuiet` | `Spec => BootstrapWakesNothing` |
| | `AwakeEngineIsOwned` | `Punctual` implies `Spec => []AwakeIsOwned` |
| | `NobodyIsEvicted` | `~Bootstrap`, `Settled` imply `Spec => []NeverEvicted` |
| | `ReadyOwnerIsAwake` | `~Bootstrap`, `Settled` imply `Spec => []ReadyIsAwake` |
| | `PromiseIsKept` | `~Bootstrap`, `Punctual`, `Settled` imply `Spec => KeepsPromise`: the proxy implements `Lineup` |
| | `ClientsServedAlone` | the same imply `Spec => []Promise!ServedAlone` |
| `AdmissionGate_proofs` | `GateTypeCorrect` | `Spec => []TypeOK` |
| | `SameActionZeroIsFinal` | `Spec => ZeroIsFinal`: the gate implements `DrainPromise` |
| | `FencedZeroIsFinal` | a required first model implies `Spec => []FencedZeroWins` |
| | `RequiredStaysAvailable` | a required first model implies `Spec => RequiredRefusedOnlyInDanger` |
| `ResourceGuard_proofs` | `GuardTypeCorrect` | `Spec => []TypeOK` |
| | `RequiredStays` | `Spec => []RequiredSuffersPressureOnly` |
| | `FailsClosed` | `Spec => OptionalFailsClosed` |
| `SleepBounds_proofs` | `BoundsTypeCorrect` | `Spec => []TypeOK` |
| | `ManagerNeverRefuses` | `Spec => []ParserMatchesManager` |
| | `DeadlinesInOrder` | `Spec => []ContainmentLast` |
| | `DrainIsInTime`, `MutationIsInTime` | `Spec => DrainsInTime`, `Spec => MutatesInTime` |
| `Forwarding_proofs` | `TypeCorrect` | `Spec => []TypeOK`, the count being that of the leases |
| | `DrainedIsClosed` | `Spec => []DrainedMeansClosed` |
| | `AnsweredOnce` | `Spec => []OneAnswer` |
| | `HangingUpKeepsReady` | `Spec => HangUpKeepsReady` |
| `MemoryMonitor_proofs` | `MonitorDoesNotFlap` | `Spec => OneBackoffPerCrossing` |

So every safety and action property of the passing runs is a theorem, and the
refinement of `Lineup` too; what the runs add is everything under fairness.

The assumptions are those the modules name. `ManagerAssumption`: the kinds of
threads are disjoint, `None` and `System` are not models, the requests are
finitely many, the switches are Booleans; `EnginesAssumption`: so are those of
the engines; `GateAssumption` and `ThermalAssumption`: `models[0]` is a model,
identifiers are not `None`; `BoundsAssumption`: headers hold natural numbers, a
millisecond is at least a tick; `RefreshesAssumption`: a natural number;
`ForwardingAssumption`: finitely many handlers, requests and losses of the kinds
named; `MonitorAssumption`: a host has memory, the ceiling is a percentage the
monitor accepts.

**The hypotheses** of the core's theorems are settings of the model's switches. A
setting it excludes is one in which TLC finds the property violated, so that none
is there for the proof's sake:

| Hypothesis | of | Without it |
|---|---|---|
| `~DiskFaults` | `RecordIsTruthful` | a write that fails in `POST /sleep` leaves the record it did not replace (Observations) |
| `~Bootstrap` | `LifecycleIsExplicit`, `OrdersNeverMeet` | finding 2; the `POST /sleep` that drained before an adoption (Observations) |
| `~Timeouts`, `~Denials` | `PendingIsPursued` | finding 1; the denial after the switch wait (Observations) |
| `Punctual`: `LateWake => ~Faults` | `AwakeEngineIsOwned`, `PromiseIsKept` | a wake that was given up on leaves two engines resident. `LateWake` alone does nothing: a wake comes late only if its call may fail |
| `Settled`: `AsyncSleep => ~Faults /\ (~Timeouts \/ Bounded = {})` | `NobodyIsEvicted`, `ReadyOwnerIsAwake`, `PromiseIsKept` | finding 3; and a failed wake whose clean-up call is accepted but seen to fail leaves an engine on its way to sleep: the next request for it may find it awake still, be admitted, and lose it |
| `~Bootstrap` | `NobodyIsEvicted`, `ReadyOwnerIsAwake`, `PromiseIsKept` | the second `finalize` and the `finalize` that fails midway (Observations) |

**The core.** None of the safety properties is inductive. That nobody is
admitted while a sleeper quiesces depends on a request in `acquire` holding the
condition from its switch wait to its admission, so that no sleeper can have set
the flag in between; this in turn depends on nobody else freeing the condition,
hence on where each thread holds it. `IInv` therefore adds to `TypeOK`:

- `LocksHeld`: the program counters at which a request holds the condition, the
  reconciliation does, and any thread holds the lease;
- `GatesHold`: a request between its switch wait and its admission meets neither
  a quiescing sleeper nor a pending switch to another model;
- `InflightCounts`, without which `release` could take the count below zero;
- `OpTargets`: an operation `/startup/sleep` knows its model.

`Orderly(t)` abstracts what a step of thread `t` may do to the locks, the gates
and the count. One group of lemmas shows that every action of every thread is
orderly, one that an orderly step keeps each conjunct; type correctness is shown
action by action before that. The count uses the library's facts about
the cardinality of finite sets.

**The lifecycle.** `Lifecycle_proofs` first sums up every action as a row of a
table: `RTable`, `STable` and `CTable` say, for a request, a sleeper and a startup
handler, from which place to which it may go and what it then reads and leaves
behind (`RequestTable`, `SleeperTable`, `ControllerTable`; `StepInTable` for the
whole of `Next`). The invariants are shown against these rows, never against the actions:

- `HoldInv` is the converse of `LocksHeld`. A lock that is taken has a holder at
  one of the places that free it (`LocksOwned`), a quiescence a sleeper that will
  end it, unless a failed write has left it (`QuiescenceOwned`), and a sleeper past
  its drain sees a count of zero (`Quiesced`). When all threads rest, nothing else
  can be held: `NoResidue`.
- `OwnerInv` gives the cached owner at every place: it is the target of a
  request that validates, wakes or cleans up, and of one about to be admitted; it
  is nobody while the peers are put to sleep. What is announced as starting has
  its thread, or is a start whose undo an exception cut short, with its owner
  remembered. At rest `LifecycleExplicit` remains.
- `RecordInv` relates the transition file to these fields. It holds while the
  proxy serves and while a startup operation is past its announcement; in between
  the file may be a dead process's, and `Truth` is not claimed.
- `PendingInv` needs `AdmitClear`: a request that reaches its admission has
  dropped its pending switch, so that it leaves none behind.

**The engines.** `BootstrapIsQuiet` needs no invariant beyond these: an engine
leaves its sleep only by a request at `weights` (`AsleepStays`), a request at work is
past the finalize gate (`AtWork`), and a crash that closes the gate ends it. An
engine that a late wake still raises was woken by a request that had passed it.

`AloneInv` says that only the cached owner is awake. Its parts are what the loops
over the lineup have behind them: an operation that has visited a model has found
it asleep (`LoopDone`), a sleeper that found an owner has found it alone
(`SleepDone`), and the condition or the lease keeps everybody else from waking
one meanwhile. `ServedInv` says that whoever is served has an engine awake and owned
(`AwakePlaces`, `ServedActive`), that no transition is under way with somebody
served (`StartsIdle`, which needs `InflightCounts`), and that an engine falling
asleep is waited for (`Falling`). Under slow sleeps the two depend on each other:
`Falling` needs that a request which finds its engine alone finds no other falling.

The refinement maps the initial state, and each row to a step of `Lineup` or a
stutter: an admission to the service of a client, the accepted wake to an engine
that becomes resident when none is, the end of a sleep to one that is no longer, a
release or a crash to the end of services.

**The gate.** `GInv` relates what a thread has read to the files. `ProofStands` is
the heart of `SameActionZeroIsFinal`: under a proved zero, whoever holds the
request lock and has read the latch has read the one that stands, or is blind and
will undo the proof, because an identifier is never raised twice (`AllSpent`).
`SteadyReads` and `FencedStands` do the same for `FencedZeroWins`, with the lemma
that a fence of a required model is a fence of all. The probe and the final check exclude each other by `LockHeld`.

**The bounds.** `SInv` says that once the deadlines are set they are never later
than the caller's words (`NeverLater`) nor than the configured timeout, and in
order; every later step leaves them alone (`LaterSteps`), so that each look at the
clock bounds the step that follows it. **The resource guard** needs two facts more
than its properties: a nap is only taken before the last attempt, and only what
was readable is judged.

**Forwarding.** `WiresOK` says of each handler, by its place, whether a status line
has been sent, whether a response of its engine may be open and whether the engine
may have failed it; a handler's step disturbs its own wires only (`Apart`). `Counted`
moves with the handler (`CountStep`, by the cardinality of the leased): an open
response belongs to a leased handler, so that a count of zero leaves none.
`HangUpKeepsReady` needs that nothing has failed the request before the step
that withdraws the readiness: a second failure would leave `fault` as it was.

**The monitor.** `Remembered`: whoever has been answered has the flag set, memory at
the ceiling, and is not dead.

Model-checked only: what is claimed under fairness, which is out of the prover's
reach (`CallsAnswered`, `NoWakeUpLost`, `FenceDrains`,
`GuardEnds`, `BoundedEnds`, `LeavingFrees`, `PersistentPressureIsReported`), and the
findings, of which the second is confined to bootstrap mode by a theorem.

## 6. Plan

Done: every component that keeps state, all safety properties of the runs as
theorems, and the refinement of the core. Next:

1. That the core's requests implement what `Forwarding` takes of them: its `Lease`,
   `AcquireFails` and `Release` against `Acquire`, as a second refinement of
   `SleeperProxy` beside `Lineup`.
2. The same for `POST /sleep` as `MemoryMonitor` takes it.
3. How far ownership holds in bootstrap mode when inference has started and no
   startup endpoint is called again: `NobodyIsEvicted` under that condition.

### Not modelled

- A second proxy that shares the lease file: SLP-LIFE-001 forbids it, and the
  code keeps no bookkeeping in common.
- Publication failures outside `POST /sleep` (see Observations).
- The parsing of `SLEEPER_MODELS` (`config.py`): no state, done once at start; an
  error ends the process before it serves. `find_model` takes the first match.
- Header forwarding, the JSON of answers, the model lists: formatting.
- Packaging and smoke scripts (`Dockerfile`, `services/`, `scripts/`).
