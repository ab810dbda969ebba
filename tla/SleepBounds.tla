----------------------------- MODULE SleepBounds -----------------------------
(***************************************************************************)
(* The bounds of one POST /sleep: from its four headers, through the       *)
(* parser (server.py:69-173), to the deadlines of sleep_active_model and   *)
(* the places that read the clock (manager.py:479-604, 663-704, 1007).     *)
(* Time is the monotonic clock in ticks, of which a millisecond has Ms, so *)
(* that a deadline may be off by less than a millisecond.  It may pass     *)
(* between any two steps.                                                  *)
(***************************************************************************)
EXTENDS Integers

CONSTANTS
  Requests,    \* what the four headers of a request may hold
  MaxTimeout,  \* the greatest timeout the parser accepts, in milliseconds
  Ms,          \* ticks of a millisecond
  Configured,  \* drain_timeout_s, in ticks
  Offset,      \* the wall clock's lead on the monotonic clock, in ticks
  Latest,      \* bound: the manager is entered by then
  None         \* no deadline

(* A header as get_all returns it: how often it is given, whether its value*)
(* is made of at most twenty ASCII digits, and the number they write.      *)
Header == [count : Nat, digits : BOOLEAN, value : Nat]
Names == {"drainTimeout", "containmentTimeout", "drainDeadline",
          "containmentDeadline"}

ASSUME BoundsAssumption ==
  /\ Requests \subseteq [Names -> Header]
  /\ MaxTimeout \in Nat /\ Ms \in Nat \ {0} /\ Configured \in Nat
  /\ Offset \in Int /\ Latest \in Nat
  /\ None \notin Int

VARIABLES
  now,          \* the monotonic clock
  headers,      \* the request's
  startedAt,    \* started_at
  drainBy,      \* drain_deadline
  containBy,    \* lifecycle_deadline
  pc

boundsVars == <<now, headers, startedAt, drainBy, containBy, pc>>

-----------------------------------------------------------------------------
(* The parser.                                                             *)
Given(n) == headers[n].count > 0
Value(n) == headers[n].value

(* _parse_sleep_integer_header raises.                                     *)
Malformed(n) == /\ Given(n)
                /\ \/ headers[n].count > 1
                   \/ ~headers[n].digits
                   \/ Value(n) = 0

TooLarge(n) == Given(n) /\ Value(n) > MaxTimeout

(* Mutant: a lone deadline passes.                                         *)
RejectedUnpaired ==
  \/ \E n \in Names : Malformed(n)
  \/ TooLarge("drainTimeout") \/ TooLarge("containmentTimeout")
  \/ /\ Given("containmentTimeout")
     /\ ~Given("drainTimeout") \/ Value("containmentTimeout") < Value("drainTimeout")
  \/ /\ Given("drainDeadline") /\ Given("containmentDeadline")
     /\ Value("containmentDeadline") < Value("drainDeadline")
  \/ Given("drainTimeout") /\ Given("drainDeadline")

(* parse_sleep_bounds raises, and the answer is 400.                       *)
Rejected ==
  \/ \E n \in Names : Malformed(n)
  \/ TooLarge("drainTimeout") \/ TooLarge("containmentTimeout")
  \/ /\ Given("containmentTimeout")
     /\ ~Given("drainTimeout") \/ Value("containmentTimeout") < Value("drainTimeout")
  \/ Given("drainDeadline") # Given("containmentDeadline")
  \/ /\ Given("drainDeadline") /\ Given("containmentDeadline")
     /\ Value("containmentDeadline") < Value("drainDeadline")
  \/ Given("drainTimeout") /\ Given("drainDeadline")

-----------------------------------------------------------------------------
(* The manager.                                                            *)
Relative == Given("drainTimeout") \/ Given("containmentTimeout")
Absolute == Given("drainDeadline") \/ Given("containmentDeadline")
Bounded  == Relative \/ Absolute

(* sleep_active_model raises a ValueError, which do_POST does not catch.   *)
Refused ==
  \/ Relative /\ Absolute
  \/ Given("containmentTimeout") /\ ~Given("drainTimeout")
  \/ Given("drainDeadline") # Given("containmentDeadline")
  \/ \E n \in Names : Given(n) /\ Value(n) = 0
  \/ /\ Given("containmentTimeout")
     /\ Value("containmentTimeout") < Value("drainTimeout")
  \/ Absolute /\ Value("containmentDeadline") < Value("drainDeadline")

Least(a, b) == IF a <= b THEN a ELSE b

(* Mutant: the configured timeout does not cap.                            *)
Uncapped(d) == d

(* Every caller's deadline is capped by the configured timeout.            *)
Capped(d) == Least(d, startedAt + Configured)

(* Mutant: the wall clock is sampled first, and the monotonic one, which   *)
(* should be the anchor, when time may have passed.                        *)
WallFirst == (startedAt + Offset) - (now - startedAt)

(* time.time_ns                                                            *)
Wall == now + Offset

(* An epoch in milliseconds on the monotonic clock, anchored at started_at.*)
Mapped(epoch) == startedAt + (epoch * Ms - Wall)

Containment == IF Given("containmentTimeout") THEN Value("containmentTimeout")
               ELSE Value("drainTimeout")

Init ==
  /\ now = 0 /\ headers \in Requests
  /\ startedAt = 0 /\ drainBy = 0 /\ containBy = None
  /\ pc = "parse"

(* Bound: the clock stops once every deadline has passed.                  *)
Tick == /\ now < IF pc = "parse" THEN Latest ELSE startedAt + Configured + 1
        /\ now' = now + 1
        /\ UNCHANGED <<headers, startedAt, drainBy, containBy, pc>>

At(l, m) == /\ pc = l /\ pc' = m
            /\ UNCHANGED <<now, headers>>
deadlines == <<startedAt, drainBy, containBy>>

Reject == Rejected /\ At("parse", "rejected") /\ UNCHANGED deadlines

Enter == /\ ~Rejected /\ At("parse", "entered")
         /\ startedAt' = now
         /\ UNCHANGED <<drainBy, containBy>>

SetDeadlines ==
  /\ At("entered", "serialize")
  /\ \/ /\ Relative
        /\ drainBy' = Capped(startedAt + Value("drainTimeout") * Ms)
        /\ containBy' = Capped(startedAt + Containment * Ms)
     \/ /\ ~Relative /\ Absolute
        /\ drainBy' = Capped(Mapped(Value("drainDeadline")))
        /\ containBy' = Capped(Mapped(Value("containmentDeadline")))
     \/ /\ ~Bounded
        /\ drainBy' = startedAt + Configured
        /\ containBy' = None
  /\ UNCHANGED startedAt

-----------------------------------------------------------------------------
(* The wait for the operation lock, then the condition.  A timed wait may  *)
(* end well after the deadline it was computed from: what it protects must *)
(* look at the clock again.                                                *)
TimeLeft(by) == now < by
Waits == {"operationLock", "condition"}
Before(l) == IF l = "operationLock" THEN "serialize" ELSE "operation"
Beyond(l) == IF l = "operationLock" THEN "operation" ELSE "drain"

Wait(l) == /\ Bounded => TimeLeft(drainBy)
           /\ At(Before(l), l)
           /\ UNCHANGED deadlines

Take(l) == At(l, Beyond(l)) /\ UNCHANGED deadlines

(* Mutant: the wait is not timed.                                          *)
GiveUpBefore(l) == /\ Bounded /\ ~TimeLeft(drainBy)
                   /\ At(Before(l), "failed")
                   /\ UNCHANGED deadlines

GiveUpWait(l) == /\ Bounded /\ ~TimeLeft(drainBy)
                 /\ At(Before(l), "failed") \/ At(l, "failed")
                 /\ UNCHANGED deadlines

(* Each turn of the drain reads the count before the drain deadline, of an *)
(* unbounded caller too, or raises; then it waits, or has found zero.  The *)
(* wait is timed, but it has let the condition go, and whether notified or *)
(* timed out it goes on only once it holds it again.                       *)
ReadCount == /\ TimeLeft(drainBy)
             /\ At("drain", "drainWait") \/ At("drain", "zero")
             /\ UNCHANGED deadlines
Notified == At("drainWait", "retake") /\ UNCHANGED deadlines
WaitExpires == ~TimeLeft(drainBy) /\ At("drainWait", "retake") /\ UNCHANGED deadlines
GiveUpDrain == /\ ~TimeLeft(drainBy)
               /\ \/ At("drain", "failed")
                  \/ Bounded /\ At("zero", "failed")
               /\ UNCHANGED deadlines

Drained == /\ Bounded => TimeLeft(drainBy)
           /\ At("zero", "lease")
           /\ UNCHANGED deadlines

-----------------------------------------------------------------------------
(* The startup lease, the validation, the mutation and the convergence, for*)
(* an engine the proxy owns.  Each computes its time from what is left.    *)
(* The commit and the abort that end it take the condition untimed.        *)
Contained == containBy # None => TimeLeft(containBy)

AskLease  == Contained /\ At("lease", "leaseWait") /\ UNCHANGED deadlines
TakeLease == At("leaseWait", "validate") /\ UNCHANGED deadlines

(* is_sleeping: the engine sleeps already, must be put to sleep, or fails. *)
Validate == /\ Contained
            /\ \/ At("validate", "commit") \/ At("validate", "mutate")
               \/ At("validate", "abort")
            /\ UNCHANGED deadlines

Prepare == Contained /\ At("mutate", "post") /\ UNCHANGED deadlines

(* Mutant: _sleep does not look at the deadline.                           *)
PostUnchecked == At("post", "posted") /\ UNCHANGED deadlines

(* _sleep looks at the clock last, and posts.                              *)
Post == Contained /\ At("post", "posted") /\ UNCHANGED deadlines

Converge == /\ At("posted", "commit") \/ At("posted", "abort")
            /\ UNCHANGED deadlines

GiveUpContained == /\ ~Contained
                   /\ \E l \in {"lease", "leaseWait", "validate", "mutate", "post"} :
                        At(l, "abort")
                   /\ UNCHANGED deadlines

(* The condition, taken again with no deadline: after the wait, to commit, *)
(* to abort.                                                               *)
Regain == /\ At("retake", "drain") \/ At("commit", "slept") \/ At("abort", "failed")
          /\ UNCHANGED deadlines

-----------------------------------------------------------------------------
(* What the call does itself; the rest waits for others.                   *)
Own == \/ Reject \/ Enter \/ SetDeadlines
       \/ \E l \in Waits : Wait(l) \/ GiveUpWait(l)
       \/ ReadCount \/ WaitExpires \/ GiveUpDrain \/ Drained
       \/ AskLease \/ Validate \/ Prepare \/ Post \/ Converge \/ GiveUpContained

Others == (\E l \in Waits : Take(l)) \/ Notified \/ TakeLease \/ Regain

Next == Tick \/ Own \/ Others

Spec == Init /\ [][Next]_boundsVars

(* Time passes, the thread runs, calls to an engine end; whoever holds a   *)
(* lock or is in flight may stay for ever.                                 *)
FairSpec == Spec /\ WF_boundsVars(Tick) /\ WF_boundsVars(Own)

-----------------------------------------------------------------------------
Ended == {"rejected", "slept", "failed"}
Deciding == {"parse", "entered"}

TypeOK ==
  /\ now \in Nat /\ headers \in Requests
  /\ startedAt \in Nat /\ drainBy \in Int /\ containBy \in Int \cup {None}
  /\ pc \in Deciding \cup Waits \cup Ended
           \cup {"serialize", "operation", "drain", "drainWait", "retake", "zero",
                 "lease", "leaseWait", "validate", "mutate", "post", "posted",
                 "commit", "abort"}
  /\ pc \notin Deciding \cup {"rejected"} => (containBy = None <=> ~Bounded)

(* SLP-LIFE-013, server.py:160-173 against manager.py:484-539: whatever the*)
(* parser lets through the manager accepts.  The manager's ValueError would*)
(* end the connection without an answer, since do_POST does not catch it.  *)
ParserMatchesManager == pc = "entered" => ~Refused

(* manager.py:524-558: the containment deadline is never before the drain  *)
(* deadline, and neither is beyond the configured whole-operation timeout. *)
ContainmentLast ==
  pc \notin Deciding \cup {"rejected"} /\ Bounded
    => drainBy <= containBy /\ containBy <= startedAt + Configured

(* The caller's own words: a moment is in time for the drain, or for the   *)
(* containment, by the headers and the two clocks.                         *)
InTime(timeout, deadline) ==
  /\ Absolute => now + Offset < Value(deadline) * Ms
  /\ Relative => now < startedAt + timeout * Ms
  /\ Bounded => now < startedAt + Configured

(* SLP-LIFE-013, manager.py:540-604: a bounded drain is declared complete  *)
(* only in time, whatever was waited for and wherever time has passed.     *)
DrainsInTime ==
  [][pc = "zero" /\ pc' = "lease"
       => InTime(Value("drainTimeout"), "drainDeadline")]_boundsVars

(* SLP-LIFE-013, manager.py:540-558 and 999-1013: _sleep goes on to issue  *)
(* the mutation only before the caller's containment deadline, to the tick *)
(* (how long the request then travels is the network's affair).            *)
MutatesInTime ==
  [][pc = "post" /\ pc' = "posted"
       => InTime(Containment, "containmentDeadline")]_boundsVars

(* manager.py:563-714: a bounded call ends although the operation lock, the*)
(* lease and the requests in flight are never given up, and the condition  *)
(* not before its first turn with it.  Once it has had that turn it is at  *)
(* the mercy of whoever holds the condition, since it takes it back with no*)
(* deadline (602, 644, 655, 706, 714): it ends if they let it have it.     *)
BoundedEnds ==
  WF_boundsVars(Regain) => (pc = "entered" /\ Bounded ~> pc \in Ended)
=============================================================================
