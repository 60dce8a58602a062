-------------------------- MODULE PolitenessProofs --------------------------
(***************************************************************************)
(* What the lock of retry.py keeps, for any number of threads, providers   *)
(* and calls, any delays and limits: types, slots, circuits, reservations. *)
(***************************************************************************)
EXTENDS Politeness, FiniteSetTheorems, TLAPS

\* The two formulas of _rate_limit give times, whatever clock was read.
LEMMA SlotTimes ==
  ASSUME NEW lst \in Nat \cup {NoTime}, NEW c \in Nat
  PROVE  /\ Slot(lst, c) \in Nat
         /\ Pause(lst, c) \in Nat
         /\ lst # NoTime => Slot(lst, c) >= lst + MinDelay
  BY PolitenessAssumption DEF PolitenessAssumption, Slot, Pause

LEMMA PowerOfTwo == ASSUME NEW n \in Nat PROVE 2 ^ n \in Nat
<1>1. IsFiniteSet(1 .. n) /\ Cardinality(1 .. n) = n
  BY FS_Interval
<1>2. IsFiniteSet(SUBSET (1 .. n)) /\ Cardinality(SUBSET (1 .. n)) = 2 ^ Cardinality(1 .. n)
  BY <1>1, FS_SUBSET
<1>3. Cardinality(SUBSET (1 .. n)) \in Nat
  BY <1>2, FS_CardinalityType
<1> QED
  BY <1>1, <1>2, <1>3

LEMMA BackoffTimes == ASSUME NEW n \in Nat \ {0} PROVE Backoff(n) \in Nat
<1> DEFINE power == 2 ^ (n - 1)
<1>1. power \in Nat
  BY PowerOfTwo
<1>2. BackoffBase * power \in Nat /\ BackoffMax \in Nat
  BY <1>1, PolitenessAssumption DEF PolitenessAssumption
<1> QED
  BY <1>2 DEF Backoff

-----------------------------------------------------------------------------
\* A thread that backs off has an attempt left: what keeps attempt in range.
BackoffHasNext == \A t \in Threads : pc[t] = "backing" => attempt[t] < Attempts

TypeInv == TypeOK /\ BackoffHasNext

LEMMA InitTypes == ASSUME Init PROVE TypeInv
<1> USE PolitenessAssumption DEF PolitenessAssumption, Init
<1>1. /\ last \in [Providers -> Nat \cup {NoTime}] /\ failures \in [Providers -> Nat]
      /\ openUntil \in [Providers -> Nat \cup {NoTime}] /\ sent \in [Providers -> Nat]
      /\ openSends \in [Providers -> Nat]
  OBVIOUS
<1>2. /\ pc \in [Threads -> Steps] /\ result \in [Threads -> Answers]
      /\ left \in [Threads -> Nat] /\ attempt \in [Threads -> 1 .. Attempts]
  BY DEF Steps, Answers
<1>3. clock \in [Threads -> Nat] /\ wake \in [Threads -> Nat]
  OBVIOUS
<1>4. now \in Nat /\ inflight \in Nat /\ inside \in SUBSET Threads
  OBVIOUS
<1>5. BackoffHasNext
  BY DEF BackoffHasNext
<1> QED
  BY <1>1, <1>2, <1>3, <1>4, <1>5 DEF TypeInv, TypeOK

LEMMA TypeStep == TypeInv /\ [Next]_vars => TypeInv'
<1> SUFFICES ASSUME TypeInv, [Next]_vars PROVE TypeInv'
  OBVIOUS
<1> USE PolitenessAssumption
    DEF PolitenessAssumption, TypeInv, TypeOK, BackoffHasNext, Steps, Answers, Goto, ReadsClock,
        SleepsUntil, ResetCircuit, state, local, observed
<1>1. CASE UNCHANGED vars
  BY <1>1 DEF vars
<1>2. CASE Tick
  BY <1>2 DEF Tick
<1>3. ASSUME NEW t \in Threads, Call(t) \/ Refuse(t) \/ WakeUp(t) \/ ReadClock(t) PROVE TypeInv'
  BY <1>3 DEF Call, Refuse, WakeUp, ReadClock
<1>4. ASSUME NEW t \in Threads, Admit(t) PROVE TypeInv'
  BY <1>4 DEF Admit
<1>5. ASSUME NEW t \in Threads, Reserve(t) PROVE TypeInv'
  <2>1. /\ ProviderOf[t] \in Providers
        /\ last[ProviderOf[t]] \in Nat \cup {NoTime}
        /\ clock[t] \in Nat
    OBVIOUS
  <2>2. /\ Slot(last[ProviderOf[t]], clock[t]) \in Nat
        /\ Pause(last[ProviderOf[t]], clock[t]) \in Nat
    BY <2>1, SlotTimes
  <2> QED
    BY <1>5, <2>1, <2>2 DEF Reserve
<1>6. ASSUME NEW t \in Threads, Send(t) PROVE TypeInv'
  <2>1. sent' \in [Providers -> Nat] /\ openSends' \in [Providers -> Nat]
    BY <1>6 DEF Send
  <2>2. inflight' \in Nat /\ inside' \in SUBSET Threads
    BY <1>6 DEF Send
  <2> QED
    BY <1>6, <2>1, <2>2 DEF Send
<1>7. ASSUME NEW t \in Threads, NEW o \in Outcomes, Respond(t, o) PROVE TypeInv'
  BY <1>7 DEF Respond, LeaveGuard
<1>8. ASSUME NEW t \in Threads, Retry(t) PROVE TypeInv'
  <2>1. Backoff(attempt[t]) \in Nat
    BY BackoffTimes
  <2> QED
    BY <1>8, <2>1 DEF Retry, ShouldRetry
<1>9. ASSUME NEW t \in Threads, NextAttempt(t) \/ Leave(t) PROVE TypeInv'
  BY <1>9 DEF NextAttempt, Leave, LeaveGuard
<1>10. ASSUME NEW t \in Threads, Finish(t) PROVE TypeInv'
  BY <1>10 DEF Finish, Record, CountFailure
<1>11. ASSUME NEW t \in Threads, PolicyBlock(t) PROVE TypeInv'
  BY <1>11 DEF PolicyBlock, CountFailure
<1> QED
  BY <1>1, <1>2, <1>3, <1>4, <1>5, <1>6, <1>7, <1>8, <1>9, <1>10, <1>11 DEF Next, Step

\* Every variable of retry.py's state and of its callers stays in its type; in
\* particular no call makes more than Attempts attempts.
THEOREM TypeCorrect == Spec => []TypeOK
<1>1. Spec => []TypeInv
  BY InitTypes, TypeStep, PTL DEF Spec
<1> QED
  BY <1>1, PTL DEF TypeInv

LEMMA TypeInvAlways == Spec => []TypeInv
  BY InitTypes, TypeStep, PTL DEF Spec

-----------------------------------------------------------------------------
(* A thread takes a slot only when it has none and gives back only its own, *)
(* so the counter follows the set.                                          *)

LEMMA CountedSlots == ASSUME TypeOK PROVE IsFiniteSet(inside) /\ Cardinality(inside) \in Nat
  BY FS_Subset, FS_CardinalityType, PolitenessAssumption DEF TypeOK, PolitenessAssumption

LEMMA LeavingKeepsBound ==
  ASSUME TypeOK, InflightBound, NEW t \in Threads, LeaveGuard(t) PROVE InflightBound'
<1> USE DEF InflightBound, LeaveGuard, TypeOK
<1> SUFFICES ASSUME MaxInflight > 0
             PROVE inflight' = Cardinality(inside') /\ inflight' <= MaxInflight
  OBVIOUS
<1>1. Cardinality(inside \ {t}) = IF t \in inside THEN Cardinality(inside) - 1
                                                  ELSE Cardinality(inside)
  BY CountedSlots, FS_RemoveElement
<1>2. t \in inside => inflight # 0
  BY CountedSlots, FS_EmptySet
<1> QED
  BY <1>1, <1>2, PolitenessAssumption DEF PolitenessAssumption

LEMMA SlotStep == TypeInv /\ SlotInv /\ [Next]_vars => SlotInv'
<1> SUFFICES ASSUME TypeInv, SlotInv, [Next]_vars PROVE SlotInv'
  OBVIOUS
<1> USE PolitenessAssumption
    DEF PolitenessAssumption, TypeInv, TypeOK, SlotInv, SlotsAreHeldByRequests, Steps, Goto,
        state, local, observed
<1>1. CASE UNCHANGED vars \/ Tick
  BY <1>1 DEF vars, Tick, InflightBound
<1>2. ASSUME NEW t \in Threads, Call(t) \/ Refuse(t) \/ WakeUp(t) \/ ReadClock(t) PROVE SlotInv'
  BY <1>2 DEF Call, Refuse, WakeUp, ReadClock, InflightBound
<1>3. ASSUME NEW t \in Threads, Admit(t) \/ Reserve(t) \/ PolicyBlock(t) PROVE SlotInv'
  BY <1>3 DEF Admit, Reserve, PolicyBlock, InflightBound
<1>4. ASSUME NEW t \in Threads, Send(t) PROVE SlotInv'
  <2>1. t \notin inside
    BY <1>4 DEF Send
  <2>2. Cardinality(inside \cup {t}) = Cardinality(inside) + 1
    BY <2>1, CountedSlots, FS_AddElement
  <2>3. InflightBound'
    BY <1>4, <2>2, CountedSlots DEF Send, HasRoom, InflightBound
  <2> QED
    BY <1>4, <2>3 DEF Send
<1>5. ASSUME NEW t \in Threads, NEW o \in Outcomes, Respond(t, o) PROVE SlotInv'
  <2>1. CASE HandledInside(t, o)
    BY <1>5, <2>1 DEF Respond, HandledInside, InflightBound
  <2>2. CASE ~HandledInside(t, o)
    <3>1. LeaveGuard(t) /\ InflightBound'
      BY <1>5, <2>2, LeavingKeepsBound DEF Respond
    <3> QED
      BY <1>5, <3>1 DEF Respond, LeaveGuard
  <2> QED
    BY <2>1, <2>2
<1>6. ASSUME NEW t \in Threads, Retry(t) \/ Finish(t) PROVE SlotInv'
  BY <1>6 DEF Retry, Finish, InflightBound
<1>7. ASSUME NEW t \in Threads, NextAttempt(t) \/ Leave(t) PROVE SlotInv'
  <2>1. LeaveGuard(t) /\ InflightBound'
    BY <1>7, LeavingKeepsBound DEF NextAttempt, Leave
  <2> QED
    BY <1>7, <2>1 DEF NextAttempt, Leave, LeaveGuard
<1> QED
  BY <1>1, <1>2, <1>3, <1>4, <1>5, <1>6, <1>7 DEF Next, Step

\* _InflightGuard neither loses a slot nor hands one out twice, and never lets
\* more than MaxInflight requests out, for any number of threads; a thread holds
\* its slot only as long as it needs it.
THEOREM SlotsAreBounded == Spec => []SlotInv
<1>1. Init => SlotInv
  BY FS_EmptySet, PolitenessAssumption
  DEF PolitenessAssumption, Init, SlotInv, SlotsAreHeldByRequests, InflightBound
<1> QED
  BY <1>1, SlotStep, TypeInvAlways, PTL DEF Spec

-----------------------------------------------------------------------------
LEMMA CountingMatches ==
  ASSUME TypeOK, CircuitMatchesFailures, NEW p \in Providers, CountFailure(p)
  PROVE  CircuitMatchesFailures'
  BY PolitenessAssumption
  DEF PolitenessAssumption, TypeOK, CircuitMatchesFailures, CountFailure

LEMMA ResettingMatches ==
  ASSUME TypeOK, CircuitMatchesFailures, NEW p \in Providers, ResetCircuit(p)
  PROVE  CircuitMatchesFailures'
  BY PolitenessAssumption
  DEF PolitenessAssumption, TypeOK, CircuitMatchesFailures, ResetCircuit

\* _FAILURES_BY_PROVIDER and _CIRCUIT_OPEN_UNTIL never disagree, whatever the
\* order of checks, failures and successes of the threads.
THEOREM CircuitAgrees == Spec => []CircuitMatchesFailures
<1>1. Init => CircuitMatchesFailures
  BY PolitenessAssumption DEF PolitenessAssumption, Init, CircuitMatchesFailures
<1>2. TypeInv /\ CircuitMatchesFailures /\ [Next]_vars => CircuitMatchesFailures'
  <2> SUFFICES ASSUME TypeInv, CircuitMatchesFailures, [Next]_vars
               PROVE  CircuitMatchesFailures'
    OBVIOUS
  <2>1. TypeOK /\ \A t \in Threads : ProviderOf[t] \in Providers
    BY PolitenessAssumption DEF TypeInv, PolitenessAssumption
  <2>2. CASE UNCHANGED <<failures, openUntil>>
    BY <2>2 DEF CircuitMatchesFailures
  <2>3. ASSUME NEW t \in Threads, Admit(t) PROVE CircuitMatchesFailures'
    BY <2>1, <2>2, <2>3, ResettingMatches DEF Admit
  <2>4. ASSUME NEW t \in Threads, Finish(t) PROVE CircuitMatchesFailures'
    BY <2>1, <2>2, <2>4, ResettingMatches, CountingMatches DEF Finish, Record
  <2>5. ASSUME NEW t \in Threads, PolicyBlock(t) PROVE CircuitMatchesFailures'
    BY <2>1, <2>5, CountingMatches DEF PolicyBlock
  <2>6. \/ UNCHANGED <<failures, openUntil>>
        \/ \E t \in Threads : Admit(t) \/ Finish(t) \/ PolicyBlock(t)
    BY DEF Next, Step, vars, state, Tick, Call, Refuse, ReadClock, Reserve, WakeUp, Send,
           Respond, Retry, NextAttempt, Leave
  <2> QED
    BY <2>2, <2>3, <2>4, <2>5, <2>6
<1> QED
  BY <1>1, <1>2, TypeInvAlways, PTL DEF Spec

-----------------------------------------------------------------------------
\* Reservations of a provider are MinDelay apart for every order in which the
\* threads read the clock and enter the critical section of _rate_limit.
THEOREM ReservationsAreSpaced == Spec => ReservationSpacing
<1> DEFINE Spaced == \A p \in Providers :
                       last[p] # NoTime /\ last'[p] # last[p] => last'[p] >= last[p] + MinDelay
<1>1. TypeInv /\ [Next]_vars => [Spaced]_last
  <2> SUFFICES ASSUME TypeInv, [Next]_vars, last' # last PROVE Spaced
    OBVIOUS
  <2>1. PICK t \in Threads : Reserve(t)
    BY DEF Next, Step, vars, state, Tick, Call, Refuse, Admit, ReadClock, WakeUp, Send, Respond,
           Retry, NextAttempt, Finish, Leave, PolicyBlock
  <2>2. /\ ProviderOf[t] \in Providers
        /\ last[ProviderOf[t]] # NoTime =>
             Slot(last[ProviderOf[t]], clock[t]) >= last[ProviderOf[t]] + MinDelay
    BY SlotTimes, PolitenessAssumption DEF TypeInv, TypeOK, PolitenessAssumption
  <2> QED
    BY <2>1, <2>2 DEF Reserve, TypeInv, TypeOK
<1> QED
  BY <1>1, TypeInvAlways, PTL DEF Spec, ReservationSpacing

-----------------------------------------------------------------------------
(* The rate.  A reservation is a time at which the thread may send; those of *)
(* a provider are MinDelay apart, so that few of them are due at any time.   *)

\* What SMT needs of \div.
LEMMA Quotient ==
  ASSUME NEW d \in Nat \ {0}, NEW a \in Nat, NEW b \in Nat
  PROVE  /\ a \div d \in Nat
         /\ b >= a + d => b \div d >= 1 + a \div d
         /\ b >= a => b \div d >= a \div d
<1>1. a = d * (a \div d) + (a % d) /\ a % d \in 0 .. d - 1 /\ a \div d \in Int
  OBVIOUS
<1>2. b = d * (b \div d) + (b % d) /\ b % d \in 0 .. d - 1 /\ b \div d \in Int
  OBVIOUS
<1> QED
  BY <1>1, <1>2

\* The clock of a thread is in the past, and so is the end of a sleep that is over.
ClockPast ==
    \A t \in Threads :
        /\ clock[t] <= now
        /\ MinDelay > 0 /\ pc[t] = "queued" => wake[t] <= now

Of(p) == {t \in Threads : ProviderOf[t] = p}

\* The threads of p that have a reservation and have not sent yet, and those of
\* them that may send by a given time.
Reserved(p) == {t \in Of(p) : pc[t] \in {"pausing", "queued"}}
Due(p, time) == {t \in Reserved(p) : wake[t] <= time}

\* The sent and the reserved requests of p fit up to the last reservation; those
\* that are sent or due by a time fit up to that time.
Fits(p) ==
    /\ last[p] = NoTime => sent[p] + Cardinality(Reserved(p)) = 0
    /\ last[p] # NoTime => sent[p] + Cardinality(Reserved(p)) <= 1 + last[p] \div MinDelay
    /\ \A time \in Nat : time >= now =>
          sent[p] + Cardinality(Due(p, time)) <= 1 + time \div MinDelay

RateInv == ClockPast /\ (MinDelay > 0 => \A p \in Providers : Fits(p))

LEMMA FiniteThreads ==
  /\ \A S \in SUBSET Threads : IsFiniteSet(S) /\ Cardinality(S) \in Nat
  /\ \A p : Of(p) \subseteq Threads /\ Reserved(p) \subseteq Threads
  /\ \A p, time : Due(p, time) \subseteq Threads
<1>1. \A S \in SUBSET Threads : IsFiniteSet(S) /\ Cardinality(S) \in Nat
  BY FS_Subset, FS_CardinalityType, PolitenessAssumption
<1> QED
  BY <1>1 DEF Of, Reserved, Due

LEMMA ClockPastStep == ASSUME TypeInv, ClockPast, [Next]_vars PROVE ClockPast'
<1> USE PolitenessAssumption
    DEF TypeInv, TypeOK, ClockPast, Goto, ReadsClock, SleepsUntil, state, local, observed
<1>0. now \in Nat /\ now <= now /\ \A t \in Threads : clock[t] \in Nat /\ wake[t] \in Nat
  OBVIOUS
<1>1. CASE UNCHANGED vars
  BY <1>1 DEF vars
<1>2. CASE Tick
  BY <1>0, <1>2 DEF Tick
<1>3. ASSUME NEW t \in Threads, Call(t) \/ Refuse(t) \/ WakeUp(t) \/ ReadClock(t)
      PROVE  ClockPast'
  BY <1>0, <1>3 DEF Call, Refuse, WakeUp, ReadClock
<1>4. ASSUME NEW t \in Threads, Admit(t) \/ Reserve(t) \/ Retry(t) PROVE ClockPast'
  BY <1>4 DEF Admit, Reserve, Retry
<1>5. ASSUME NEW t \in Threads, Send(t) \/ NextAttempt(t) \/ Leave(t) PROVE ClockPast'
  BY <1>5 DEF Send, NextAttempt, Leave
<1>6. ASSUME NEW t \in Threads, Finish(t) \/ PolicyBlock(t) PROVE ClockPast'
  BY <1>6 DEF Finish, PolicyBlock
<1>7. ASSUME NEW t \in Threads, NEW o \in Outcomes, Respond(t, o) PROVE ClockPast'
  BY <1>7 DEF Respond
<1> QED
  BY <1>1, <1>2, <1>3, <1>4, <1>5, <1>6, <1>7 DEF Next, Step

\* The steps that leave the reservations alone.
LEMMA OthersKeepFits ==
  ASSUME TypeInv, NEW p \in Providers, Fits(p), MinDelay > 0,
         now' = now \/ now' = now + 1, UNCHANGED <<sent, last>>,
         \A t \in Threads :
             /\ pc'[t] \in {"pausing", "queued"} <=> pc[t] \in {"pausing", "queued"}
             /\ pc[t] \in {"pausing", "queued"} => wake'[t] = wake[t]
  PROVE  Fits(p)'
<1>1. Of(p)' = Of(p) /\ Reserved(p)' = Reserved(p)
  BY DEF Of, Reserved
<1>2. \A time : Due(p, time)' = Due(p, time)
  BY <1>1 DEF Due, Reserved, Of
<1>3. \A time \in Nat : time >= now' => time >= now
  BY DEF TypeInv, TypeOK
<1>4. \A time \in Nat : time >= now' =>
          sent'[p] + Cardinality(Due(p, time)') <= 1 + time \div MinDelay
  BY <1>2, <1>3 DEF Fits
<1>5. /\ last'[p] = NoTime => sent'[p] + Cardinality(Reserved(p)') = 0
      /\ last'[p] # NoTime => sent'[p] + Cardinality(Reserved(p)') <= 1 + last'[p] \div MinDelay
  BY <1>1 DEF Fits
<1> QED
  BY <1>4, <1>5 DEF Fits

\* A reservation is at least MinDelay after the ones before, and the thread
\* sleeps until then.
LEMMA ReserveFits ==
  ASSUME TypeInv, RateInv, MinDelay > 0, NEW t \in Threads, Reserve(t), NEW p \in Providers
  PROVE  Fits(p)'
<1> DEFINE slot == Slot(last[p], clock[t])
           end == now + Pause(last[p], clock[t])
<1>0. /\ now \in Nat /\ clock[t] \in Nat /\ clock[t] <= now /\ MinDelay \in Nat \ {0}
      /\ last[p] \in Nat \cup {NoTime} /\ sent[p] \in Nat /\ Jitter \in Nat /\ NoTime \notin Nat
      /\ \A u \in Threads : wake[u] \in Nat
  BY PolitenessAssumption DEF TypeInv, TypeOK, RateInv, ClockPast
<1>1. Fits(p)
  BY DEF RateInv
<1>2. /\ pc[t] = "reserving" /\ now' = now /\ sent' = sent /\ pc' = [pc EXCEPT ![t] = "pausing"]
      /\ \A u \in Threads : u # t => wake'[u] = wake[u]
  BY DEF Reserve, Goto, SleepsUntil, observed, TypeInv, TypeOK
<1>3. CASE ProviderOf[t] # p
  <2>1. last'[p] = last[p]
    BY <1>3 DEF Reserve, TypeInv, TypeOK
  <2>2. Of(p)' = Of(p) /\ Reserved(p)' = Reserved(p) /\ t \notin Reserved(p)
    BY <1>2, <1>3 DEF Of, Reserved, TypeInv, TypeOK
  <2>3. \A time : Due(p, time)' = Due(p, time)
    BY <1>2, <2>2 DEF Due, Reserved, Of
  <2> QED
    BY <1>1, <1>2, <2>1, <2>2, <2>3 DEF Fits
<1>4. CASE ProviderOf[t] = p
  <2>1. /\ slot \in Nat /\ end \in Nat /\ end >= slot
        /\ last[p] # NoTime => slot >= last[p] + MinDelay
    BY <1>0 DEF Slot, Pause
  <2>2. last'[p] = slot /\ wake'[t] = end
    BY <1>4 DEF Reserve, SleepsUntil, TypeInv, TypeOK
  <2> HIDE DEF slot, end
  <2>3. t \notin Reserved(p) /\ Reserved(p)' = Reserved(p) \cup {t}
    BY <1>2, <1>4 DEF Of, Reserved, TypeInv, TypeOK
  <2>4. Cardinality(Reserved(p)') = Cardinality(Reserved(p)) + 1
        /\ Cardinality(Reserved(p)) \in Nat
    BY <2>3, FiniteThreads, FS_AddElement
  <2>5. slot \div MinDelay \in Nat
        /\ (last[p] # NoTime => slot \div MinDelay >= 1 + last[p] \div MinDelay
                                /\ last[p] \div MinDelay \in Nat)
    BY <1>0, <2>1, Quotient
  <2>6. sent[p] + Cardinality(Reserved(p)) <= slot \div MinDelay
    BY <1>0, <1>1, <2>4, <2>5 DEF Fits
  <2>7. ASSUME NEW time \in Nat, time >= now
        PROVE  sent[p] + Cardinality(Due(p, time)') <= 1 + time \div MinDelay
    <3>1. \A u \in Reserved(p) : wake'[u] = wake[u]
      BY <1>2, <2>3 DEF Reserved, Of
    <3>2. time \div MinDelay \in Nat
      BY <1>0, Quotient
    <3>3. CASE end <= time
      <4>1. Due(p, time)' \subseteq Reserved(p)'
        BY DEF Due
      <4>2. Reserved(p)' \subseteq Threads
        BY DEF Reserved, Of
      <4>3. IsFiniteSet(Reserved(p)')
        BY <4>2, FiniteThreads
      <4>4. Cardinality(Due(p, time)') <= Cardinality(Reserved(p)')
            /\ Cardinality(Due(p, time)') \in Nat
        BY <4>1, <4>3, FS_Subset, FS_CardinalityType
      <4>5. time \div MinDelay >= slot \div MinDelay
        BY <1>0, <2>1, <3>3, Quotient
      <4> QED
        BY <1>0, <2>4, <2>5, <2>6, <3>2, <4>4, <4>5
    <3>4. CASE ~(end <= time)
      <4>1. Due(p, time)' = Due(p, time)
        BY <2>2, <2>3, <3>1, <3>4 DEF Due
      <4> QED
        BY <1>1, <2>7, <4>1 DEF Fits
    <3> QED
      BY <3>3, <3>4
  <2>8. slot # NoTime
    BY <1>0, <2>1
  <2>9. sent[p] + Cardinality(Reserved(p)') <= 1 + slot \div MinDelay
    BY <1>0, <2>4, <2>5, <2>6
  <2> QED
    BY <1>2, <2>2, <2>7, <2>8, <2>9 DEF Fits
<1> QED
  BY <1>3, <1>4

\* A request that is sent was due.
LEMMA SendFits ==
  ASSUME TypeInv, RateInv, MinDelay > 0, NEW t \in Threads, Send(t), NEW p \in Providers
  PROVE  Fits(p)'
<1>0. now \in Nat /\ sent[p] \in Nat /\ \A u \in Threads : wake[u] \in Nat
  BY DEF TypeInv, TypeOK
<1>1. Fits(p) /\ pc[t] = "queued" /\ wake[t] <= now
  BY DEF RateInv, ClockPast, Send
<1>2. /\ now' = now /\ last' = last /\ pc' = [pc EXCEPT ![t] = "flying"]
      /\ sent'[p] = sent[p] + (IF ProviderOf[t] = p THEN 1 ELSE 0)
      /\ \A u \in Threads : u # t => wake'[u] = wake[u]
  BY DEF Send, Goto, SleepsUntil, TypeInv, TypeOK
<1>3. CASE ProviderOf[t] # p
  <2>1. Of(p)' = Of(p) /\ Reserved(p)' = Reserved(p) /\ t \notin Reserved(p)
    BY <1>2, <1>3 DEF Of, Reserved, TypeInv, TypeOK
  <2>2. \A time : Due(p, time)' = Due(p, time)
    BY <1>2, <2>1 DEF Due, Reserved, Of
  <2>3. sent'[p] = sent[p]
    BY <1>0, <1>2, <1>3
  <2> QED
    BY <1>1, <1>2, <2>1, <2>2, <2>3 DEF Fits
<1>4. CASE ProviderOf[t] = p
  <2>1. t \in Reserved(p) /\ Reserved(p)' = Reserved(p) \ {t}
    BY <1>1, <1>2, <1>4 DEF Of, Reserved, TypeInv, TypeOK
  <2>2. Cardinality(Reserved(p)') = Cardinality(Reserved(p)) - 1
        /\ Cardinality(Reserved(p)) \in Nat
    BY <2>1, FiniteThreads, FS_RemoveElement
  <2>3. sent'[p] + Cardinality(Reserved(p)') = sent[p] + Cardinality(Reserved(p))
    BY <1>0, <1>2, <1>4, <2>2
  <2>4. ASSUME NEW time \in Nat, time >= now
        PROVE  sent'[p] + Cardinality(Due(p, time)') <= 1 + time \div MinDelay
    <3>1. t \in Due(p, time)
      BY <1>0, <1>1, <2>1, <2>4 DEF Due
    <3>2. Due(p, time)' = Due(p, time) \ {t}
      BY <1>2, <2>1 DEF Due, Reserved, Of
    <3>3. Cardinality(Due(p, time)') = Cardinality(Due(p, time)) - 1
          /\ Cardinality(Due(p, time)) \in Nat
      BY <3>1, <3>2, FiniteThreads, FS_RemoveElement
    <3>4. sent'[p] + Cardinality(Due(p, time)') = sent[p] + Cardinality(Due(p, time))
      BY <1>0, <1>2, <1>4, <3>3
    <3> QED
      BY <1>1, <2>4, <3>4 DEF Fits
  <2> QED
    BY <1>1, <1>2, <2>3, <2>4 DEF Fits
<1> QED
  BY <1>3, <1>4

LEMMA RateStep == TypeInv /\ RateInv /\ [Next]_vars => RateInv'
<1> SUFFICES ASSUME TypeInv, RateInv, [Next]_vars PROVE RateInv'
  OBVIOUS
<1>1. ClockPast'
  BY ClockPastStep DEF RateInv
<1> SUFFICES ASSUME MinDelay > 0, NEW p \in Providers PROVE Fits(p)'
  BY <1>1 DEF RateInv
<1>2. Fits(p)
  BY DEF RateInv
<1>3. CASE \E t \in Threads : Reserve(t)
  BY <1>3, ReserveFits
<1>4. CASE \E t \in Threads : Send(t)
  BY <1>4, SendFits
<1>5. CASE Tick \/ UNCHANGED vars
  BY <1>2, <1>5, OthersKeepFits DEF Tick, vars, state, local, observed
<1>6. ASSUME NEW t \in Threads,
             \/ Call(t) \/ PolicyBlock(t) \/ Refuse(t) \/ Admit(t) \/ ReadClock(t) \/ WakeUp(t)
             \/ (\E o \in Outcomes : Respond(t, o))
             \/ Retry(t) \/ NextAttempt(t) \/ Finish(t) \/ Leave(t)
      PROVE  Fits(p)'
  <2>1. now' = now /\ UNCHANGED <<sent, last>> /\ \A u \in Threads : u # t => pc'[u] = pc[u]
    BY <1>6 DEF Call, PolicyBlock, Refuse, Admit, ReadClock, WakeUp, Respond, Retry, NextAttempt,
           Finish, Leave, Goto, state, local, observed, TypeInv, TypeOK
  <2>2. /\ pc'[t] \in {"pausing", "queued"} <=> pc[t] \in {"pausing", "queued"}
        /\ wake' = wake \/ pc[t] = "deciding"
    BY <1>6 DEF Call, PolicyBlock, Refuse, Admit, ReadClock, WakeUp, Respond, Retry, NextAttempt,
           Finish, Leave, Goto, state, local, observed, TypeInv, TypeOK
  <2>3. \A u \in Threads : u # t => wake'[u] = wake[u]
    BY <1>6 DEF Call, PolicyBlock, Refuse, Admit, ReadClock, WakeUp, Respond, Retry, NextAttempt,
           Finish, Leave, SleepsUntil, state, local, observed, TypeInv, TypeOK
  <2> QED
    BY <1>2, <2>1, <2>2, <2>3, OthersKeepFits
<1> QED
  BY <1>3, <1>4, <1>5, <1>6 DEF Next, Step

\* _rate_limit holds a provider to one request per MinDelay at any time, however
\* many threads read the clock before the lock and in whatever order they sleep.
THEOREM RateIsBounded == Spec => []RateBound
<1>1. Init => RateInv
  <2> SUFFICES ASSUME Init PROVE RateInv
    OBVIOUS
  <2>1. \A p, time : Of(p) \subseteq Threads /\ Reserved(p) = {} /\ Due(p, time) = {}
    BY DEF Init, Of, Reserved, Due
  <2>2. MinDelay > 0 => \A time \in Nat : time \div MinDelay \in Nat
    BY Quotient, PolitenessAssumption
  <2>3. ClockPast
    BY DEF Init, ClockPast
  <2>4. \A p \in Providers : sent[p] = 0 /\ last[p] = NoTime
    BY DEF Init
  <2>5. Cardinality({}) = 0
    BY FS_EmptySet
  <2>6. ASSUME MinDelay > 0, NEW p \in Providers PROVE Fits(p)
    <3>1. Reserved(p) = {} /\ \A time \in Nat : Due(p, time) = {}
      BY <2>1
    <3>2. \A time \in Nat : 0 + 0 <= 1 + time \div MinDelay
      BY <2>2, <2>6
    <3> QED
      BY <2>4, <2>5, <3>1, <3>2 DEF Fits
  <2> QED
    BY <2>3, <2>6 DEF RateInv
<1>2. TypeInv /\ RateInv => RateBound
  <2> SUFFICES ASSUME TypeInv, RateInv, MinDelay > 0, NEW p \in Providers
               PROVE  sent[p] <= 1 + now \div MinDelay
    BY DEF RateBound
  <2>1. now \in Nat /\ now >= now /\ sent[p] \in Nat /\ Cardinality(Due(p, now)) \in Nat
    BY FiniteThreads DEF TypeInv, TypeOK
  <2>2. sent[p] + Cardinality(Due(p, now)) <= 1 + now \div MinDelay
    <3>1. Fits(p)
      BY DEF RateInv
    <3>2. \A time \in Nat : time >= now =>
             sent[p] + Cardinality(Due(p, time)) <= 1 + time \div MinDelay
      BY Zenon, <3>1 DEF Fits
    <3> QED
      BY Zenon, <2>1, <3>2
  <2>3. now \div MinDelay \in Nat
    <3>1. MinDelay \in Nat \ {0}
      BY PolitenessAssumption
    <3> QED
      BY <2>1, <3>1, Quotient, Zenon
  <2>4. \A a, b, c \in Nat : a + b <= 1 + c => a <= 1 + c
    OBVIOUS
  <2> QED
    BY <2>1, <2>2, <2>3, <2>4, Zenon
<1> QED
  BY <1>1, <1>2, RateStep, TypeInvAlways, PTL DEF Spec

-----------------------------------------------------------------------------
(* The circuit.  The attempts that the calls admitted before it opened may   *)
(* still send are counted as a set; a call admitted later has closed it.     *)

\* The attempts a thread has used up; all of them when it has no admitted call.
Used(t) ==
    IF pc[t] \in {"limiting", "reserving", "pausing", "queued"} THEN attempt[t] - 1
    ELSE IF pc[t] \in {"flying", "deciding", "backing"} THEN attempt[t]
    ELSE Attempts

\* What is still to be sent for p.
Owed(p) == {s \in Of(p) \X (1 .. Attempts) : s[2] > Used(s[1])}

Budget(p) == (Cardinality(Of(p)) - 1) * Attempts

Tripped ==
    \A p \in Providers : openUntil[p] # NoTime =>
        Threshold > 0 /\ openSends[p] + Cardinality(Owed(p)) <= Budget(p)

LEMMA OwedFinite ==
  ASSUME TypeInv, NEW p
  PROVE  /\ IsFiniteSet(Owed(p)) /\ Cardinality(Owed(p)) \in Nat
         /\ Budget(p) \in Int /\ Attempts \in Nat \ {0}
<1>1. Attempts \in Nat \ {0} /\ IsFiniteSet(1 .. Attempts) /\ IsFiniteSet(Of(p))
      /\ Cardinality(Of(p)) \in Nat
  BY FS_Interval, FiniteThreads, PolitenessAssumption
<1>2. IsFiniteSet(Of(p) \X (1 .. Attempts))
  BY <1>1, FS_Product
<1>3. IsFiniteSet(Owed(p)) /\ Cardinality(Owed(p)) \in Nat
  BY <1>2, FS_Subset, FS_CardinalityType DEF Owed
<1> QED
  BY <1>1, <1>3 DEF Budget

\* A thread that has no admitted call owes nothing, the others at most all.
LEMMA OwedAtTrip ==
  ASSUME TypeInv, NEW t \in Threads, NEW S \in SUBSET (Of(ProviderOf[t]) \X (1 .. Attempts)),
         \A s \in S : s[1] # t
  PROVE  Cardinality(S) <= Budget(ProviderOf[t]) /\ Cardinality(S) \in Nat
<1> DEFINE p == ProviderOf[t]
           rest == Of(p) \ {t}
<1>0. Attempts \in Nat \ {0}
  BY PolitenessAssumption
<1>1. IsFiniteSet(1 .. Attempts) /\ Cardinality(1 .. Attempts) = Attempts
      /\ IsFiniteSet(Of(p)) /\ Cardinality(Of(p)) \in Nat
  <2>1. IsFiniteSet(1 .. Attempts) /\ Cardinality(1 .. Attempts) = Attempts
    BY <1>0, FS_Interval
  <2> QED
    BY <2>1, FiniteThreads
<1>2. t \in Of(p)
  BY DEF Of
<1>3. IsFiniteSet(rest) /\ Cardinality(rest) = Cardinality(Of(p)) - 1
  BY <1>1, <1>2, FS_RemoveElement
<1>4. S \subseteq rest \X (1 .. Attempts)
  OBVIOUS
<1> HIDE DEF rest
<1>5. /\ IsFiniteSet(rest \X (1 .. Attempts))
      /\ Cardinality(rest \X (1 .. Attempts)) = Cardinality(rest) * Cardinality(1 .. Attempts)
  BY <1>1, <1>3, FS_Product
<1>6. Cardinality(S) <= Cardinality(rest \X (1 .. Attempts)) /\ Cardinality(S) \in Nat
  BY <1>4, <1>5, FS_Subset, FS_CardinalityType
<1> QED
  BY <1>0, <1>1, <1>3, <1>5, <1>6 DEF Budget

\* Steps that send nothing and open no circuit.
LEMMA OwedShrinks ==
  ASSUME TypeInv, Tripped, NEW p \in Providers, openUntil'[p] # NoTime => openUntil[p] # NoTime,
         openSends'[p] = openSends[p], \A t \in Of(p) : Used(t)' >= Used(t),
         \A t \in Of(p) : Used(t) \in Nat /\ Used(t)' \in Nat
  PROVE  openUntil'[p] # NoTime =>
            Threshold > 0 /\ openSends'[p] + Cardinality(Owed(p)') <= Budget(p)
<1>1. Owed(p)' \subseteq Owed(p)
  <2>1. \A t \in Of(p), n \in 1 .. Attempts : n > Used(t)' => n > Used(t)
    BY PolitenessAssumption
  <2>2. Of(p)' = Of(p)
    BY DEF Of
  <2> QED
    BY <2>1, <2>2 DEF Owed
<1>2. Cardinality(Owed(p)') <= Cardinality(Owed(p)) /\ Cardinality(Owed(p)') \in Nat
      /\ Cardinality(Owed(p)) \in Nat
  BY <1>1, OwedFinite, FS_Subset, FS_CardinalityType
<1>3. openSends[p] \in Nat /\ Budget(p) \in Int
  BY OwedFinite DEF TypeInv, TypeOK
<1> QED
  BY <1>2, <1>3 DEF Tripped

LEMMA UsedType ==
  /\ TypeOK => \A t \in Threads : Used(t) \in Nat
  /\ TypeOK' => \A t \in Threads : Used(t)' \in Nat
  BY PolitenessAssumption DEF TypeOK, Used

\* A failure is counted by a thread that has no admitted call afterwards.
LEMMA CountTrips ==
  ASSUME TypeInv, Tripped, NEW t \in Threads, CountFailure(ProviderOf[t]),
         Used(t)' = Attempts, \A u \in Threads : Used(u)' >= Used(u),
         \A u \in Threads : Used(u) \in Nat /\ Used(u)' \in Nat
  PROVE  Tripped'
<1> SUFFICES ASSUME NEW p \in Providers, openUntil'[p] # NoTime
             PROVE  Threshold > 0 /\ openSends'[p] + Cardinality(Owed(p)') <= Budget(p)
  <2>1. \A p : Budget(p)' = Budget(p)
    BY DEF Budget, Of
  <2> QED
    BY <2>1 DEF Tripped
<1>1. CASE openUntil[p] = NoTime
  <2>1. ProviderOf[t] = p /\ openSends'[p] = 0 /\ Threshold > 0
    BY <1>1 DEF CountFailure, TypeInv, TypeOK
  <2>2. Owed(p)' \subseteq Of(p) \X (1 .. Attempts)
    BY DEF Owed, Of
  <2>3. \A s \in Owed(p)' : s[1] # t
    <3>1. \A n \in 1 .. Attempts : ~(n > Used(t)')
      BY PolitenessAssumption
    <3> QED
      BY <3>1 DEF Owed
  <2>4. Cardinality(Owed(p)') <= Budget(p) /\ Cardinality(Owed(p)') \in Nat
    BY <2>1, <2>2, <2>3, OwedAtTrip
  <2> QED
    BY <2>1, <2>4, OwedFinite
<1>2. CASE openUntil[p] # NoTime
  <2>1. openSends'[p] = openSends[p]
    BY <1>2 DEF CountFailure, TypeInv, TypeOK
  <2>2. Of(p) \subseteq Threads
    BY FiniteThreads
  <2> QED
    BY <1>2, <2>1, <2>2, OwedShrinks
<1> QED
  BY <1>1, <1>2

\* A request is one of the attempts that were owed.
LEMMA SendOwed ==
  ASSUME TypeInv, Tripped, NEW t \in Threads, Send(t)
  PROVE  Tripped'
<1>0. /\ pc[t] = "queued" /\ pc' = [pc EXCEPT ![t] = "flying"] /\ attempt' = attempt
      /\ openUntil' = openUntil /\ pc \in [Threads -> Steps] /\ attempt[t] \in 1 .. Attempts
  BY DEF Send, Goto, TypeInv, TypeOK
<1>1. Used(t) = attempt[t] - 1 /\ Used(t)' = attempt[t] /\ \A u \in Threads : u # t => Used(u)' = Used(u)
  BY <1>0 DEF Used
<1> SUFFICES ASSUME NEW p \in Providers, openUntil[p] # NoTime
             PROVE  Threshold > 0 /\ openSends'[p] + Cardinality(Owed(p)') <= Budget(p)
  <2>1. \A p : Budget(p)' = Budget(p)
    BY DEF Budget, Of
  <2> QED
    BY <1>0, <2>1 DEF Tripped
<1>2. Threshold > 0 /\ openSends[p] + Cardinality(Owed(p)) <= Budget(p)
  BY DEF Tripped
<1>3. openSends[p] \in Nat /\ openSends'[p] = openSends[p] + (IF ProviderOf[t] = p THEN 1 ELSE 0)
  BY DEF Send, TypeInv, TypeOK
<1>4. Of(p)' = Of(p) /\ Of(p) \subseteq Threads
  BY DEF Of
<1>5. CASE ProviderOf[t] # p
  <2>1. t \notin Of(p)
    BY <1>5 DEF Of
  <2>2. Owed(p)' = Owed(p)
    BY <1>1, <1>4, <2>1 DEF Owed
  <2> QED
    BY <1>2, <1>3, <1>5, <2>2
<1>6. CASE ProviderOf[t] = p
  <2>1. t \in Of(p)
    BY <1>6 DEF Of
  <2>2. \A n \in 1 .. Attempts : n > attempt[t] <=> (n > attempt[t] - 1 /\ n # attempt[t])
    BY <1>0, PolitenessAssumption
  <2>3. attempt[t] > attempt[t] - 1
    BY <1>0, PolitenessAssumption
  <2>4. <<t, attempt[t]>> \in Owed(p)
    BY <1>0, <1>1, <2>1, <2>3 DEF Owed
  <2>5. Owed(p)' = Owed(p) \ {<<t, attempt[t]>>}
    BY <1>1, <1>4, <2>2 DEF Owed
  <2>6. IsFiniteSet(Owed(p)) /\ Cardinality(Owed(p)) \in Nat
    BY OwedFinite
  <2>7. Cardinality(Owed(p)') = Cardinality(Owed(p)) - 1
    BY <2>4, <2>5, <2>6, FS_RemoveElement
  <2> QED
    BY <1>2, <1>3, <1>6, <2>6, <2>7, OwedFinite
<1> QED
  BY <1>5, <1>6

LEMMA TripStep == TypeInv /\ Tripped /\ [Next]_vars => Tripped'
<1> SUFFICES ASSUME TypeInv, Tripped, [Next]_vars PROVE Tripped'
  OBVIOUS
<1>0. TypeInv' /\ \A t \in Threads : Used(t) \in Nat /\ Used(t)' \in Nat
  BY TypeStep, UsedType DEF TypeInv
<1>1. \A p : Budget(p)' = Budget(p) /\ Of(p) \subseteq Threads
  BY FiniteThreads DEF Budget, Of
<1>2. \A t \in Threads : attempt[t] \in Nat /\ attempt[t] <= Attempts /\ attempt[t] - 1 <= attempt[t]
      /\ Attempts \in Nat
  BY PolitenessAssumption DEF TypeInv, TypeOK
<1>3. CASE \E t \in Threads : Send(t)
  BY <1>3, SendOwed
<1>4. ASSUME NEW t \in Threads, Admit(t) PROVE Tripped'
  <2> SUFFICES ASSUME NEW p \in Providers, openUntil'[p] # NoTime
               PROVE  Threshold > 0 /\ openSends'[p] + Cardinality(Owed(p)') <= Budget(p)
    BY <1>1 DEF Tripped
  <2>1. openUntil'[p] = openUntil[p] /\ openSends' = openSends
    BY <1>4 DEF Admit, ResetCircuit, observed, TypeInv, TypeOK
  <2>2. ProviderOf[t] # p
    BY <1>4, <2>1 DEF Admit, ResetCircuit, TypeInv, TypeOK, Tripped
  <2>3. \A u \in Threads : u # t => pc'[u] = pc[u] /\ attempt'[u] = attempt[u]
    BY <1>4 DEF Admit, Goto, TypeInv, TypeOK
  <2>4. \A u \in Of(p) : Used(u)' = Used(u)
    BY <2>2, <2>3 DEF Of, Used
  <2> QED
    BY <1>0, <1>1, <2>1, <2>4, OwedShrinks
<1>5. ASSUME NEW t \in Threads, Finish(t) \/ PolicyBlock(t) PROVE Tripped'
  <2>1. \A u \in Threads : u # t => pc'[u] = pc[u] /\ attempt'[u] = attempt[u]
    BY <1>5 DEF Finish, PolicyBlock, Goto, local, TypeInv, TypeOK
  <2>2. pc'[t] \in {"leaving", "idle"}
    BY <1>5 DEF Finish, PolicyBlock, Goto, TypeInv, TypeOK
  <2>3. Used(t)' = Attempts /\ Used(t) <= Attempts
    BY <1>2, <2>2 DEF Used
  <2>4. \A u \in Threads : Used(u)' >= Used(u)
    BY <1>0, <2>1, <2>3 DEF Used
  <2>5. CASE CountFailure(ProviderOf[t])
    BY <1>0, <2>3, <2>4, <2>5, CountTrips
  <2>6. CASE ~CountFailure(ProviderOf[t])
    <3>1. openSends' = openSends /\ (openUntil' = openUntil \/ ResetCircuit(ProviderOf[t]))
      BY <1>5, <2>6 DEF Finish, PolicyBlock, Record
    <3>2. \A p \in Providers : openUntil'[p] # NoTime => openUntil[p] # NoTime
      BY <3>1 DEF ResetCircuit, TypeInv, TypeOK
    <3> QED
      BY <1>0, <1>1, <2>4, <3>1, <3>2, OwedShrinks DEF Tripped
  <2> QED
    BY <2>5, <2>6
<1>6. ASSUME UNCHANGED <<openUntil, openSends>>, \A u \in Threads : Used(u)' >= Used(u)
      PROVE  Tripped'
  BY <1>0, <1>1, <1>6, OwedShrinks DEF Tripped
<1>7. CASE Tick \/ UNCHANGED vars
  <2>1. UNCHANGED <<openUntil, openSends, pc, attempt>>
    BY <1>7 DEF Tick, vars, state, local, observed
  <2> QED
    BY <1>0, <1>6, <2>1 DEF Used
<1>8. ASSUME NEW t \in Threads,
             \/ Call(t) \/ Refuse(t) \/ ReadClock(t) \/ Reserve(t) \/ WakeUp(t)
             \/ (\E o \in Outcomes : Respond(t, o)) \/ Retry(t) \/ Leave(t)
      PROVE  Tripped'
  <2>1. UNCHANGED <<openUntil, openSends, attempt>>
    BY <1>8 DEF Call, Refuse, ReadClock, Reserve, WakeUp, Respond, Retry, Leave, state, local, observed
  <2>2. \A u \in Threads : u # t => pc'[u] = pc[u]
    BY <1>8 DEF Call, Refuse, ReadClock, Reserve, WakeUp, Respond, Retry, Leave, Goto, TypeInv, TypeOK
  <2>3. \/ pc[t] \in {"idle", "asking", "leaving"} /\ pc'[t] \in {"idle", "asking", "leaving"}
        \/ /\ pc[t] \in {"limiting", "reserving", "pausing", "queued"}
           /\ pc'[t] \in {"limiting", "reserving", "pausing", "queued"}
        \/ /\ pc[t] \in {"flying", "deciding", "backing"}
           /\ pc'[t] \in {"flying", "deciding", "backing"}
    BY <1>8 DEF Call, Refuse, ReadClock, Reserve, WakeUp, Respond, Retry, Leave, Goto, TypeInv, TypeOK
  <2>4. Used(t)' = Used(t)
    BY <2>1, <2>3 DEF Used
  <2>5. \A u \in Threads : Used(u)' >= Used(u)
    BY <1>0, <2>1, <2>2, <2>4 DEF Used
  <2> QED
    BY <1>6, <2>1, <2>5
<1>9. ASSUME NEW t \in Threads, NextAttempt(t) PROVE Tripped'
  <2>1. UNCHANGED <<openUntil, openSends>> /\ pc[t] = "backing" /\ pc'[t] = "limiting"
        /\ attempt'[t] = attempt[t] + 1
    BY <1>9 DEF NextAttempt, Goto, observed, TypeInv, TypeOK
  <2>2. \A u \in Threads : u # t => pc'[u] = pc[u] /\ attempt'[u] = attempt[u]
    BY <1>9 DEF NextAttempt, Goto, TypeInv, TypeOK
  <2>3. Used(t)' = Used(t)
    BY <1>2, <2>1 DEF Used
  <2>4. \A u \in Threads : Used(u)' >= Used(u)
    BY <1>0, <2>2, <2>3 DEF Used
  <2> QED
    BY <1>6, <2>1, <2>4
<1> QED
  BY <1>3, <1>4, <1>5, <1>7, <1>8, <1>9 DEF Next, Step

\* Once the circuit of a provider opens, the other threads send at most the
\* attempts of one call each: _check_circuit lets no further call past, whatever
\* clock it read and however often failures extend the cooldown.
THEOREM TrafficEnds == Spec => []SendsEndAfterTrip
<1>1. Init => Tripped
  BY DEF Init, Tripped
<1>2. TypeInv /\ Tripped => SendsEndAfterTrip
  <2> SUFFICES ASSUME TypeInv, Tripped, NEW p \in Providers, OpenAt(p, now)
               PROVE  openSends[p] <= (Cardinality({t \in Threads : ProviderOf[t] = p}) - 1) * Attempts
    BY DEF SendsEndAfterTrip
  <2>1. openSends[p] + Cardinality(Owed(p)) <= Budget(p)
    BY DEF OpenAt, Tripped
  <2>2. openSends[p] \in Nat /\ Cardinality(Owed(p)) \in Nat /\ Budget(p) \in Int
    BY OwedFinite DEF TypeInv, TypeOK
  <2>3. openSends[p] <= Budget(p)
    BY <2>1, <2>2
  <2> QED
    BY <2>3 DEF Budget, Of
<1> QED
  BY <1>1, <1>2, TripStep, TypeInvAlways, PTL DEF Spec
=============================================================================
