----------------------------- MODULE Politeness -----------------------------
(***************************************************************************)
(* The shared politeness state of ji_engine/providers/retry.py and the     *)
(* three fetch_*_with_retry loops that use it: the circuit breaker of a    *)
(* provider, the spacing of its requests, the limit on requests in flight  *)
(* to a host, and the retries of one call.                                 *)
(*                                                                         *)
(* Threads call it concurrently: scripts/enrich_jobs.py fetches postings   *)
(* from a pool (fetch_job_posting, fetch_json_with_retry).  All requests   *)
(* of the model go to one host; a thread fetches for one provider.  Time   *)
(* is a number of ticks, read by time.time() and waited for by time.sleep. *)
(***************************************************************************)
EXTENDS Naturals, FiniteSets

CONSTANTS
    Threads,      \* workers of the pool
    Providers,    \* values of provider_id
    ProviderOf,   \* the provider each thread fetches for
    MinDelay,     \* JOBINTEL_PROVIDER_MIN_DELAY_S
    Jitter,       \* JOBINTEL_PROVIDER_RATE_JITTER_S
    MaxInflight,  \* JOBINTEL_PROVIDER_MAX_INFLIGHT_PER_HOST, 0 for no limit
    Attempts,     \* JOBINTEL_PROVIDER_MAX_ATTEMPTS
    BackoffBase,  \* JOBINTEL_PROVIDER_BACKOFF_BASE
    BackoffMax,   \* JOBINTEL_PROVIDER_BACKOFF_MAX
    Threshold,    \* JOBINTEL_PROVIDER_MAX_CONSEC_FAILS, 0 for no breaker
    Cooldown,     \* JOBINTEL_PROVIDER_COOLDOWN_S
    Outcomes,     \* the answers the host gives in this model
    UrlOpen,      \* the threads that call fetch_urlopen_with_retry, whose
                  \* "with" covers the handling of the answer; the others call
                  \* one of the other two
    Calls,        \* calls of each thread (bound of the model)
    MaxLatency,   \* ticks an answer may take (bound of the model)
    Prompt,       \* threads that are never late: the clock moves only when each
                  \* of them waits for it or for an answer
    NoTime        \* the missing key of a dict of timestamps

VARIABLES
    now,          \* time.time()
    last,         \* _LAST_REQUEST_TS, by provider
    inflight,     \* _INFLIGHT_BY_HOST[host]
    failures,     \* _FAILURES_BY_PROVIDER
    openUntil,    \* _CIRCUIT_OPEN_UNTIL, by provider
    pc,           \* the step of each thread
    left,         \* calls each thread has still to make
    attempt,      \* the attempt of each thread's call
    clock,        \* the local variable now of _check_circuit and _rate_limit
    wake,         \* the end of the thread's time.sleep, or of the latency
    result,       \* last_reason of each thread, "ok" for a good answer
    inside,       \* threads between __enter__ and __exit__ of _InflightGuard
    sent,         \* observation: requests sent for each provider
    openSends     \* observation: requests sent for a provider since its
                  \* circuit opened

state == <<last, inflight, failures, openUntil>>
local == <<left, attempt, clock, wake, result, inside>>
observed == <<sent, openSends>>
vars == <<now, state, pc, local, observed>>

\* "transient" is network_error, timeout or rate_limited; "blocked" a page
\* with the marks of a block; "permanent" auth_error or unavailable (a status);
\* "invalid" parse_error or invalid_response (a page); "odd" a 2xx status other
\* than 200, which is classified network_error; "uncaught" an exception that no
\* except clause names (a body that is not UTF-8, a read that times out).
Answers == {"ok", "transient", "blocked", "permanent", "invalid", "odd", "uncaught"}

Steps == {"idle", "asking", "limiting", "reserving", "pausing", "queued",
          "flying", "deciding", "backing", "leaving"}

ASSUME PolitenessAssumption ==
    /\ IsFiniteSet(Threads)
    /\ ProviderOf \in [Threads -> Providers]
    /\ MinDelay \in Nat /\ Jitter \in Nat /\ MaxInflight \in Nat
    /\ Attempts \in Nat \ {0} /\ BackoffBase \in Nat /\ BackoffMax \in Nat
    /\ Threshold \in Nat /\ Cooldown \in Nat
    /\ Calls \in [Threads -> Nat] /\ MaxLatency \in Nat
    /\ Outcomes \subseteq Answers
    /\ UrlOpen \subseteq Threads
    /\ Prompt \subseteq Threads
    /\ NoTime \notin Nat

TypeOK ==
    /\ now \in Nat
    /\ last \in [Providers -> Nat \cup {NoTime}]
    /\ inflight \in Nat
    /\ failures \in [Providers -> Nat]
    /\ openUntil \in [Providers -> Nat \cup {NoTime}]
    /\ pc \in [Threads -> Steps]
    /\ left \in [Threads -> Nat]
    /\ attempt \in [Threads -> 1 .. Attempts]
    /\ clock \in [Threads -> Nat]
    /\ wake \in [Threads -> Nat]
    /\ result \in [Threads -> Answers]
    /\ inside \in SUBSET Threads
    /\ sent \in [Providers -> Nat]
    /\ openSends \in [Providers -> Nat]

Init ==
    /\ now = 0
    /\ last = [p \in Providers |-> NoTime]
    /\ inflight = 0
    /\ failures = [p \in Providers |-> 0]
    /\ openUntil = [p \in Providers |-> NoTime]
    /\ pc = [t \in Threads |-> "idle"]
    /\ left = Calls
    /\ attempt = [t \in Threads |-> 1]
    /\ clock = [t \in Threads |-> 0]
    /\ wake = [t \in Threads |-> 0]
    /\ result = [t \in Threads |-> "ok"]
    /\ inside = {}
    /\ sent = [p \in Providers |-> 0]
    /\ openSends = [p \in Providers |-> 0]

-----------------------------------------------------------------------------
Goto(t, step) == pc' = [pc EXCEPT ![t] = step]
ReadsClock(t) == clock' = [clock EXCEPT ![t] = now]
SleepsUntil(t, end) == wake' = [wake EXCEPT ![t] = end]

\* A call of fetch_*_with_retry begins: _check_circuit reads the clock.
Call(t) ==
    /\ pc[t] = "idle"
    /\ left[t] > 0
    /\ left' = [left EXCEPT ![t] = @ - 1]
    /\ ReadsClock(t)
    /\ Goto(t, "asking")
    /\ UNCHANGED <<now, state, attempt, wake, result, inside, observed>>

\* Both dicts lose their entry of the provider.
ResetCircuit(p) ==
    /\ openUntil' = [openUntil EXCEPT ![p] = NoTime]
    /\ failures' = [failures EXCEPT ![p] = 0]

\* The circuit of p holds at the time c some thread has read.
OpenAt(p, c) == Threshold > 0 /\ openUntil[p] # NoTime /\ c < openUntil[p]

\* _check_circuit, under the lock, with the clock read before it.
Refuse(t) ==
    /\ pc[t] = "asking"
    /\ OpenAt(ProviderOf[t], clock[t])
    /\ Goto(t, "idle")
    /\ UNCHANGED <<now, state, local, observed>>

\* Mutant: the circuit is not asked.
AdmitAlways(t) ==
    /\ pc[t] = "asking"
    /\ attempt' = [attempt EXCEPT ![t] = 1]
    /\ Goto(t, "limiting")
    /\ UNCHANGED <<now, last, inflight, failures, openUntil, left, clock, wake,
                   result, inside, observed>>

Admit(t) ==
    LET p == ProviderOf[t] IN
    /\ pc[t] = "asking"
    /\ ~OpenAt(p, clock[t])
    /\ IF Threshold > 0 /\ openUntil[p] # NoTime
       THEN ResetCircuit(p)
       ELSE UNCHANGED <<failures, openUntil>>
    /\ attempt' = [attempt EXCEPT ![t] = 1]
    /\ Goto(t, "limiting")
    /\ UNCHANGED <<now, last, inflight, left, clock, wake, result, inside, observed>>

\* _rate_limit reads the clock before it takes the lock.
ReadClock(t) ==
    /\ pc[t] = "limiting"
    /\ ReadsClock(t)
    /\ Goto(t, IF MinDelay = 0 THEN "queued" ELSE "reserving")
    /\ UNCHANGED <<now, state, left, attempt, wake, result, inside, observed>>

\* The time _rate_limit gives to the request of a thread that read c.
Slot(lst, c) ==
    IF lst = NoTime \/ c >= lst + MinDelay THEN c ELSE lst + MinDelay + Jitter

\* Mutant: a reservation in the future of c counts as none.
PauseForPastOnly(lst, c) ==
    IF lst = NoTime \/ c >= lst + MinDelay \/ c < lst THEN 0 ELSE lst + MinDelay - c + Jitter

\* The sleep of that thread; lst is later than c when another one has reserved.
Pause(lst, c) ==
    IF lst = NoTime \/ c >= lst + MinDelay THEN 0 ELSE lst + MinDelay - c + Jitter

\* The critical section of _rate_limit.
Reserve(t) ==
    LET p == ProviderOf[t] IN
    /\ pc[t] = "reserving"
    /\ last' = [last EXCEPT ![p] = Slot(last[p], clock[t])]
    /\ SleepsUntil(t, now + Pause(last[p], clock[t]))
    /\ Goto(t, "pausing")
    /\ UNCHANGED <<now, inflight, failures, openUntil, left, attempt, clock,
                   result, inside, observed>>

WakeUp(t) ==
    /\ pc[t] = "pausing"
    /\ now >= wake[t]
    /\ Goto(t, "queued")
    /\ UNCHANGED <<now, state, local, observed>>

\* Mutant: one request too many.
HasRoomOffByOne(n) == MaxInflight = 0 \/ n <= MaxInflight

HasRoom(n) == MaxInflight = 0 \/ n < MaxInflight

\* __enter__ finds room, and the request goes out.
Send(t) ==
    LET p == ProviderOf[t] IN
    /\ pc[t] = "queued"
    /\ HasRoom(inflight)
    /\ inflight' = IF MaxInflight = 0 THEN inflight ELSE inflight + 1
    /\ inside' = inside \cup {t}
    /\ SleepsUntil(t, now + MaxLatency)
    /\ Goto(t, "flying")
    /\ sent' = [sent EXCEPT ![p] = @ + 1]
    /\ openSends' = [openSends EXCEPT ![p] = @ + (IF openUntil[p] = NoTime THEN 0 ELSE 1)]
    /\ UNCHANGED <<now, last, failures, openUntil, left, attempt, clock, result>>

\* __exit__ of the guard.
LeaveGuard(t) ==
    /\ inside' = inside \ {t}
    /\ inflight' = IF MaxInflight = 0 \/ t \notin inside \/ inflight = 0
                   THEN inflight ELSE inflight - 1

\* The answers that the body of the "with" handles, slot in hand.
HandledInside(t, o) == t \in UrlOpen /\ o \in {"ok", "blocked", "invalid", "odd"}

\* The answer arrives, or requests.get raises.
Respond(t, o) ==
    /\ pc[t] = "flying"
    /\ result' = [result EXCEPT ![t] = o]
    /\ IF HandledInside(t, o) THEN UNCHANGED <<inside, inflight>> ELSE LeaveGuard(t)
    /\ Goto(t, "deciding")
    /\ UNCHANGED <<now, last, failures, openUntil, left, attempt, clock, wake, observed>>

\* _should_retry, for the outcomes it is asked about.
ShouldRetry(t) == attempt[t] < Attempts /\ result[t] \in {"transient", "odd"}

\* min(max_s, base_s * 2 ** (attempt - 1)), of _sleep_backoff.
Backoff(n) ==
    LET delay == BackoffBase * 2 ^ (n - 1)
    IN  IF delay > BackoffMax THEN BackoffMax ELSE delay

Retry(t) ==
    /\ pc[t] = "deciding"
    /\ ShouldRetry(t)
    /\ SleepsUntil(t, now + Backoff(attempt[t]))
    /\ Goto(t, "backing")
    /\ UNCHANGED <<now, state, left, attempt, clock, result, inside, observed>>

\* Mutant: a "continue" inside the "with" goes on with the slot in hand.
NextAttemptInside(t) ==
    /\ pc[t] = "backing"
    /\ now >= wake[t]
    /\ attempt' = [attempt EXCEPT ![t] = @ + 1]
    /\ Goto(t, "limiting")
    /\ UNCHANGED <<now, state, left, clock, wake, result, inside, observed>>

\* The next round of the loop; "continue" leaves the "with" if it is inside.
NextAttempt(t) ==
    /\ pc[t] = "backing"
    /\ now >= wake[t]
    /\ attempt' = [attempt EXCEPT ![t] = @ + 1]
    /\ LeaveGuard(t)
    /\ Goto(t, "limiting")
    /\ UNCHANGED <<now, last, failures, openUntil, left, clock, wake, result, observed>>

\* _record_failure for a reason that counts: one more, and at the threshold
\* the circuit opens, or stays open for longer.
CountFailure(p) ==
    LET count == failures[p] + 1
        opens == Threshold > 0 /\ count >= Threshold /\ Cooldown > 0
    IN  /\ failures' = IF Threshold > 0 THEN [failures EXCEPT ![p] = count] ELSE failures
        /\ openUntil' = IF opens THEN [openUntil EXCEPT ![p] = now + Cooldown] ELSE openUntil
        /\ openSends' = IF opens /\ openUntil[p] = NoTime
                        THEN [openSends EXCEPT ![p] = 0] ELSE openSends

\* _record_success, or _record_failure, which counts only some reasons.
Record(p, o) ==
    \/ o = "ok" /\ ResetCircuit(p) /\ UNCHANGED openSends
    \/ o \in {"transient", "blocked", "odd"} /\ CountFailure(p)
    \/ o \in {"permanent", "invalid", "uncaught"}
       /\ UNCHANGED <<failures, openUntil, openSends>>

\* The call returns, or raises ProviderFetchError.
Finish(t) ==
    /\ pc[t] = "deciding"
    /\ ~ShouldRetry(t)
    /\ Record(ProviderOf[t], result[t])
    /\ Goto(t, IF t \in inside THEN "leaving" ELSE "idle")
    /\ UNCHANGED <<now, last, inflight, local, sent>>

\* ... and leaves the "with" after it has recorded the result.
Leave(t) ==
    /\ pc[t] = "leaving"
    /\ LeaveGuard(t)
    /\ Goto(t, "idle")
    /\ UNCHANGED <<now, last, failures, openUntil, left, attempt, clock, wake,
                   result, observed>>

\* Instead of a call: evaluate_robots_policy denies, record_policy_block.
PolicyBlock(t) ==
    /\ pc[t] = "idle"
    /\ left[t] > 0
    /\ left' = [left EXCEPT ![t] = @ - 1]
    /\ CountFailure(ProviderOf[t])
    /\ UNCHANGED <<now, last, inflight, pc, attempt, clock, wake, result, inside,
                   sent>>

\* A thread that waits for the clock, for an answer or for a call to make.
Waits(t) ==
    \/ pc[t] \in {"pausing", "backing"} /\ now < wake[t]
    \/ pc[t] = "flying"
    \/ pc[t] = "queued" /\ ~HasRoom(inflight)
    \/ pc[t] = "idle"

\* The times at which something may change by itself.  When all of them are
\* past, a later clock reads the same to every guard, so it need not move.
Deadlines ==
    {wake[t] : t \in {u \in Threads : pc[u] \in {"pausing", "backing", "flying"}}}
        \cup {openUntil[p] : p \in {q \in Providers : openUntil[q] # NoTime}}
        \cup {last[p] + MinDelay : p \in {q \in Providers : last[q] # NoTime}}

\* The clock.  An answer takes at most MaxLatency.
Tick ==
    /\ \E d \in Deadlines : now < d
    /\ \A t \in Threads : pc[t] = "flying" => now < wake[t]
    /\ \A t \in Prompt : Waits(t)
    /\ now' = now + 1
    /\ UNCHANGED <<state, pc, local, observed>>

Step(t) ==
    \/ Refuse(t) \/ Admit(t)
    \/ ReadClock(t) \/ Reserve(t) \/ WakeUp(t) \/ Send(t)
    \/ \E o \in Outcomes : Respond(t, o)
    \/ Retry(t) \/ NextAttempt(t) \/ Finish(t) \/ Leave(t)

Next == Tick \/ \E t \in Threads : Call(t) \/ PolicyBlock(t) \/ Step(t)

Spec == Init /\ [][Next]_vars

\* The clock moves on, and the operating system runs every thread that can run.
FairSpec == Spec /\ WF_vars(Tick) /\ \A t \in Threads : WF_vars(Step(t))

-----------------------------------------------------------------------------
\* The counter is the number of threads inside a guard, and no more than the
\* limit: slots are neither lost nor handed out twice.
InflightBound ==
    MaxInflight > 0 => inflight = Cardinality(inside) /\ inflight <= MaxInflight

\* A thread keeps its slot only while it needs it: through the flight, and for
\* fetch_urlopen_with_retry through the handling of the answer and its backoff.
SlotsAreHeldByRequests ==
    \A t \in inside :
        \/ pc[t] = "flying"
        \/ t \in UrlOpen /\ pc[t] \in {"deciding", "backing", "leaving"}

\* No slot is leaked, lost or handed out twice, however a call ends.
SlotInv == SlotsAreHeldByRequests /\ InflightBound

\* The two dicts of the circuit agree, in every interleaving of checks,
\* failures and successes: it is open exactly when the failures in a row have
\* reached the threshold.
CircuitMatchesFailures ==
    Threshold > 0 /\ Cooldown > 0 =>
        \A p \in Providers : openUntil[p] # NoTime <=> failures[p] >= Threshold

\* An open circuit stops a provider's traffic, though not at once: calls that
\* were admitted before it opened may still send all their attempts.
SendsEndAfterTrip ==
    \A p \in Providers :
        OpenAt(p, now) =>
            openSends[p] <= (Cardinality({t \in Threads : ProviderOf[t] = p}) - 1) * Attempts

\* What the reservations guarantee for a provider: the requests sent by any
\* time are at most one per MinDelay, however the threads interleave.
RateBound ==
    MinDelay > 0 => \A p \in Providers : sent[p] <= 1 + now \div MinDelay

\* Two reservations of one provider are at least MinDelay apart, although the
\* clock is read before the lock is taken.
ReservationSpacing ==
    [][\A p \in Providers :
         last[p] # NoTime /\ last'[p] # last[p] => last'[p] >= last[p] + MinDelay]_last

\* Every call ends: no thread waits for ever for a slot or for the clock.
CallsEnd == \A t \in Threads : pc[t] # "idle" ~> pc[t] = "idle"
=============================================================================
