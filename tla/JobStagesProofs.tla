--------------------------- MODULE JobStagesProofs ---------------------------
(***************************************************************************)
(* Proofs about the processes that share a state directory.  The run lock, *)
(* for any number of runs, hosts and pids: two runs overlap only after one *)
(* unlinked the live lock file of another; and with two runs on one host,  *)
(* whatever is killed, they never overlap.  And the stages of the one      *)
(* daily run it admits beside programs started by hand, for every setting: *)
(* what a ranking lists, whether the comparisons of a run agree, what its  *)
(* messages name, what becomes of texts, briefs and AI answers, what a run *)
(* report verifies, and the type of it all.                                *)
(***************************************************************************)
EXTENDS JobStages, RunLock, FiniteSetTheorems, WellFoundedInduction, SequenceTheorems, TLAPS

-----------------------------------------------------------------------------
(* The run lock.                                                           *)

USE RunLockAssumption

\* The state of every run and of the lock file stays in its range.
THEOREM LockTypeCorrect == LockSpec => []LockTypeOK
<1>1. LockInit => LockTypeOK
  BY DEF LockInit, LockTypeOK, Steps
<1>2. LockTypeOK /\ [LockNext]_lockVars => LockTypeOK'
  <2> SUFFICES ASSUME LockTypeOK, [LockNext]_lockVars PROVE LockTypeOK'
    OBVIOUS
  <2> USE DEF LockTypeOK, Steps, Goto, LockEntry
  <2>1. CASE UNCHANGED lockVars
    BY <2>1 DEF lockVars
  <2>2. ASSUME NEW r \in Runs, Start(r) PROVE LockTypeOK'
    BY <2>2 DEF Start
  <2>3. ASSUME NEW r \in Runs, Create(r) \/ CreateFails(r) PROVE LockTypeOK'
    BY <2>3 DEF Create, CreateFails
  <2>4. ASSUME NEW r \in Runs, WritePid(r) PROVE LockTypeOK'
    <3>1. ASSUME NEW e \in file
          PROVE (IF e.creator = r THEN [e EXCEPT !.pid = pid[r]] ELSE e) \in LockEntry
      BY <2>4
    <3>2. file' \in SUBSET LockEntry
      BY <2>4, <3>1 DEF WritePid
    <3> QED
      BY <2>4, <3>2 DEF WritePid
  <2>5. ASSUME NEW r \in Runs, ReadPid(r) PROVE LockTypeOK'
    BY <2>5 DEF ReadPid
  <2>6. ASSUME NEW r \in Runs, FindStale(r) \/ Refuse(r) \/ Wait(r) PROVE LockTypeOK'
    BY <2>6 DEF FindStale, Refuse, Wait
  <2>7. ASSUME NEW r \in Runs, RemoveStale(r) \/ Exit(r) PROVE LockTypeOK'
    BY <2>7 DEF RemoveStale, Exit, Unlink
  <2>8. ASSUME NEW r \in Runs, Kill(r) PROVE LockTypeOK'
    BY <2>8 DEF Kill
  <2> QED
    BY <2>1, <2>2, <2>3, <2>4, <2>5, <2>6, <2>7, <2>8 DEF LockNext, LockStep
<1> QED
  BY <1>1, <1>2, PTL DEF LockSpec

-----------------------------------------------------------------------------
\* As long as nobody's live file was unlinked, a run between the create and
\* the write, and a run at work, has exactly its own file at LOCK_PATH.
FileOfHolder ==
    ~clobbered => \A r \in Runs :
        /\ pc[r] = "created" => file = {[pid |-> NoPid, creator |-> r]}
        /\ pc[r] = "running" => file = {[pid |-> pid[r], creator |-> r]}

LockInv == LockTypeOK /\ FileOfHolder

LEMMA UnlinkSparesHolders ==
    ASSUME LockInv, NEW r \in Runs, Unlink(r), ~clobbered',
           NEW q \in Runs, q # r
    PROVE  ~Holding(q)
<1> SUFFICES ASSUME Holding(q) PROVE FALSE
  OBVIOUS
<1>1. PICK n : file = {[pid |-> n, creator |-> q]}
  BY DEF LockInv, FileOfHolder, Holding, Unlink
<1>2. [pid |-> n, creator |-> q] \in file /\ [pid |-> n, creator |-> q].creator = q
  BY <1>1
<1> QED
  BY <1>2 DEF Unlink

LEMMA LockInvStep == LockInv /\ LockTypeOK' /\ [LockNext]_lockVars => LockInv'
<1> SUFFICES ASSUME LockInv, LockTypeOK', [LockNext]_lockVars, ~clobbered', NEW q \in Runs
             PROVE  /\ pc'[q] = "created" => file' = {[pid |-> NoPid, creator |-> q]}
                    /\ pc'[q] = "running" => file' = {[pid |-> pid'[q], creator |-> q]}
  BY DEF LockInv, FileOfHolder
<1> USE DEF LockInv, FileOfHolder, LockTypeOK, Goto
<1>1. ~clobbered
  BY DEF LockNext, LockStep, lockVars, Start, Create, CreateFails, WritePid, ReadPid, FindStale,
         RemoveStale, Refuse, Wait, Exit, Kill, Unlink
<1>2. CASE UNCHANGED lockVars
  BY <1>1, <1>2 DEF lockVars
<1>3. ASSUME NEW r \in Runs, Start(r)
      PROVE  /\ pc'[q] = "created" => file' = {[pid |-> NoPid, creator |-> q]}
             /\ pc'[q] = "running" => file' = {[pid |-> pid'[q], creator |-> q]}
  BY <1>1, <1>3 DEF Start
<1>4. ASSUME NEW r \in Runs, Create(r)
      PROVE  /\ pc'[q] = "created" => file' = {[pid |-> NoPid, creator |-> q]}
             /\ pc'[q] = "running" => file' = {[pid |-> pid'[q], creator |-> q]}
  BY <1>1, <1>4 DEF Create
<1>5. ASSUME NEW r \in Runs, WritePid(r)
      PROVE  /\ pc'[q] = "created" => file' = {[pid |-> NoPid, creator |-> q]}
             /\ pc'[q] = "running" => file' = {[pid |-> pid'[q], creator |-> q]}
  <2>1. file = {[pid |-> NoPid, creator |-> r]}
    BY <1>1, <1>5 DEF WritePid
  <2>2. file' = {[pid |-> pid[r], creator |-> r]}
    BY <1>5, <2>1 DEF WritePid
  <2>3. q # r => pc[q] \notin {"created", "running"}
    BY <1>1, <2>1
  <2> QED
    BY <1>5, <2>2, <2>3 DEF WritePid
<1>6. ASSUME NEW r \in Runs,
             CreateFails(r) \/ ReadPid(r) \/ FindStale(r) \/ Refuse(r) \/ Wait(r) \/ Kill(r)
      PROVE  /\ pc'[q] = "created" => file' = {[pid |-> NoPid, creator |-> q]}
             /\ pc'[q] = "running" => file' = {[pid |-> pid'[q], creator |-> q]}
  BY <1>1, <1>6 DEF CreateFails, ReadPid, FindStale, Refuse, Wait, Kill
<1>7. ASSUME NEW r \in Runs, RemoveStale(r) \/ Exit(r)
      PROVE  /\ pc'[q] = "created" => file' = {[pid |-> NoPid, creator |-> q]}
             /\ pc'[q] = "running" => file' = {[pid |-> pid'[q], creator |-> q]}
  <2>1. Unlink(r) /\ pc'[r] \in {"ready", "exited"} /\ pc' = [pc EXCEPT ![r] = pc'[r]]
    BY <1>7 DEF RemoveStale, Exit
  <2>2. CASE q = r
    BY <2>1, <2>2
  <2>3. CASE q # r
    <3>1. ~Holding(q)
      BY <2>1, <2>3, UnlinkSparesHolders
    <3> QED
      BY <2>1, <2>3, <3>1 DEF Holding
  <2> QED
    BY <2>2, <2>3
<1> QED
  BY <1>2, <1>3, <1>4, <1>5, <1>6, <1>7 DEF LockNext, LockStep

LEMMA LockInvAlways == LockSpec => []LockInv
<1>1. LockInit => LockInv
  BY DEF LockInit, LockInv, FileOfHolder, LockTypeOK, Steps
<1> QED
  BY <1>1, LockInvStep, LockTypeCorrect, PTL DEF LockSpec

\* Overlapping runs are always the work of an unlink of a live run's file.
THEOREM OverlapNeedsUnlink == LockSpec => []OverlapOnlyByUnlink
<1>1. LockInv => OverlapOnlyByUnlink
  <2> SUFFICES ASSUME LockInv, ~clobbered, NEW q \in Runs, NEW r \in Runs,
                      pc[q] = "running", pc[r] = "running"
               PROVE  q = r
    BY DEF OverlapOnlyByUnlink, MutualExclusion
  <2>1. [pid |-> pid[q], creator |-> q] = [pid |-> pid[r], creator |-> r]
    BY DEF LockInv, FileOfHolder
  <2>2. [pid |-> pid[q], creator |-> q].creator = [pid |-> pid[r], creator |-> r].creator
    BY <2>1
  <2> QED
    BY <2>2
<1> QED
  BY <1>1, LockInvAlways, PTL

\* A run at work is the one its lock file names, unless the file was unlinked.
THEOREM HolderNamedOnFile == LockSpec => []HolderIsOnFile
<1>1. LockInv => HolderIsOnFile
  BY DEF LockInv, FileOfHolder, HolderIsOnFile
<1> QED
  BY <1>1, LockInvAlways, PTL

-----------------------------------------------------------------------------
(* Two runs on one host. *)
TwoRuns == \A a, b, c \in Runs : a = b \/ b = c \/ a = c
SameHost == \A a, b \in Runs : HostOf[a] = HostOf[b]

\* A run past its write of the pid.
Wrote(r) == pc[r] \in {"running"} \cup Ended

\* A pid on file, or in a reader's hands, is the pid its writer still has; a
\* lock found stale is the lock of a run that has ended.
PidOnFile ==
    \A e \in file : e.pid # NoPid => e.pid = pid[e.creator] /\ Wrote(e.creator)
FileNotOfNewRun ==
    \A e \in file : pc[e.creator] \in {"created"} \cup {"running"} \cup Ended
PidInHand ==
    \A q, r \in Runs :
        q # r /\ pc[r] = "judging" /\ seen[r] # NoPid => seen[r] = pid[q] /\ Wrote(q)
RemovesOnlyEnded ==
    \A q, r \in Runs : q # r /\ pc[r] = "removing" => pc[q] \in Ended

TwoInv ==
    /\ LockInv
    /\ ~clobbered
    /\ PidOnFile
    /\ FileNotOfNewRun
    /\ PidInHand
    /\ RemovesOnlyEnded

LEMMA TwoInvStep ==
    ASSUME TwoRuns, SameHost, TwoInv, LockInv', [LockNext]_lockVars
    PROVE  TwoInv'
<1> USE DEF TwoInv, LockTypeOK, LockInv, Goto, Wrote, Ended
<1> DEFINE Goal == ~clobbered' /\ PidOnFile' /\ FileNotOfNewRun' /\ PidInHand' /\ RemovesOnlyEnded'
<1> SUFFICES Goal
  OBVIOUS
<1> USE DEF PidOnFile, FileNotOfNewRun, PidInHand, RemovesOnlyEnded
<1>1. CASE UNCHANGED lockVars
  BY <1>1 DEF lockVars
<1>2. ASSUME NEW r \in Runs, Start(r) PROVE Goal
  <2>1. /\ UNCHANGED <<file, seen, clobbered>>
        /\ pc[r] = "idle"
        /\ pc' = [pc EXCEPT ![r] = "ready"]
        /\ \A q \in Runs : q # r => pid'[q] = pid[q]
    BY <1>2 DEF Start
  <2>2. \A e \in file : e.creator # r /\ e.creator \in Runs
    BY <2>1 DEF LockEntry
  <2> QED
    BY <2>1, <2>2
<1>3. ASSUME NEW r \in Runs, Create(r) PROVE Goal
  BY <1>3 DEF Create
<1>4. ASSUME NEW r \in Runs, CreateFails(r) PROVE Goal
  BY <1>4 DEF CreateFails, LockEntry
<1>5. ASSUME NEW r \in Runs, WritePid(r) PROVE Goal
  <2>1. file' = {[pid |-> pid[r], creator |-> r]}
    <3>1. file = {[pid |-> NoPid, creator |-> r]}
      BY <1>5 DEF WritePid, FileOfHolder
    <3> QED
      BY <1>5, <3>1 DEF WritePid
  <2> QED
    BY <1>5, <2>1 DEF WritePid
<1>6. ASSUME NEW r \in Runs, ReadPid(r) PROVE Goal
  <2>1. /\ UNCHANGED <<file, pid, clobbered>>
        /\ pc[r] = "reading"
        /\ pc' = [pc EXCEPT ![r] = "judging"]
        /\ \A q \in Runs : q # r => seen'[q] = seen[q]
    BY <1>6 DEF ReadPid
  <2>2. \A q \in Runs : q # r /\ seen'[r] # NoPid => seen'[r] = pid[q] /\ Wrote(q)
    <3> SUFFICES ASSUME NEW q \in Runs, q # r, seen'[r] # NoPid
                 PROVE  seen'[r] = pid[q] /\ Wrote(q)
      OBVIOUS
    <3>1. PICK e \in file : seen' = [seen EXCEPT ![r] = e.pid]
      BY <1>6 DEF ReadPid
    <3>2. e.creator \in Runs /\ e.creator # r
      BY <2>1 DEF LockEntry
    <3>3. e.creator = q
      BY <3>2 DEF TwoRuns
    <3> QED
      BY <3>1, <3>3
  <2> QED
    BY <2>1, <2>2 DEF LockEntry
<1>7. ASSUME NEW r \in Runs, FindStale(r) PROVE Goal
  <2>1. ASSUME NEW q \in Runs, q # r PROVE pc[q] \in Ended
    <3>1. seen[r] = pid[q] /\ Wrote(q)
      BY <1>7, <2>1 DEF FindStale, Stale
    <3>2. ~IsLive(q)
      BY <1>7, <2>1, <3>1 DEF FindStale, Stale, PidAlive, SameHost
    <3> QED
      BY <3>1, <3>2 DEF IsLive, Killable, Steps
  <2> QED
    BY <1>7, <2>1 DEF FindStale, LockEntry
<1>8. ASSUME NEW r \in Runs, RemoveStale(r) PROVE Goal
  <2>1. \A e \in file : e.creator # r => ~Holding(e.creator)
    BY <1>8 DEF RemoveStale, Holding, LockEntry
  <2> QED
    BY <1>8, <2>1 DEF RemoveStale, Unlink
<1>9. ASSUME NEW r \in Runs, Refuse(r) \/ Wait(r) PROVE Goal
  BY <1>9 DEF Refuse, Wait, LockEntry
<1>10. ASSUME NEW r \in Runs, Exit(r) PROVE Goal
  <2>1. file = {[pid |-> pid[r], creator |-> r]}
    BY <1>10 DEF Exit, FileOfHolder
  <2>2. \A e \in file : e.creator = r
    BY <2>1
  <2> QED
    BY <1>10, <2>2 DEF Exit, Unlink
<1>11. ASSUME NEW r \in Runs, Kill(r) PROVE Goal
  <2>1. pc[r] \in Killable
    BY <1>11 DEF Kill, RunLockAssumption
  <2> QED
    BY <1>11, <2>1 DEF Kill, Killable, Steps, LockEntry
<1> QED
  BY <1>1, <1>2, <1>3, <1>4, <1>5, <1>6, <1>7, <1>8, <1>9, <1>10, <1>11 DEF LockNext, LockStep

LEMMA TwoInvAlways ==
    ASSUME TwoRuns, SameHost
    PROVE  LockSpec => []TwoInv
<1>1. LockInit => TwoInv
  BY DEF LockInit, TwoInv, LockInv, FileOfHolder, LockTypeOK, Steps, PidOnFile, FileNotOfNewRun,
         PidInHand, RemovesOnlyEnded
<1>2. TwoInv /\ LockInv' /\ [LockNext]_lockVars => TwoInv'
  BY TwoInvStep
<1> QED
  BY <1>1, <1>2, LockInvAlways, PTL DEF LockSpec

\* Two runs of one host never overlap, wherever either of them is killed and
\* whichever pids the host reuses.
THEOREM TwoRunsExclude ==
    ASSUME TwoRuns, SameHost
    PROVE  LockSpec => []MutualExclusion
<1>1. TwoInv /\ OverlapOnlyByUnlink => MutualExclusion
  BY DEF TwoInv, OverlapOnlyByUnlink
<1> QED
  BY <1>1, TwoInvAlways, OverlapNeedsUnlink, PTL

\* Under the same conditions the lock keeps the promise of Mutex: it passes
\* from one run to the next only through a state without a holder.
THEOREM TwoRunsImplementMutex ==
    ASSUME TwoRuns, SameHost
    PROVE  LockSpec => ImplementsMutex
<1>1. LockInit => Mutex!Init
  BY DEF LockInit, Mutex!Init, Holder, Holding
<1>2. TwoInv /\ TwoInv' /\ [LockNext]_lockVars => [Mutex!Next]_Holder
  <2> SUFFICES ASSUME TwoInv, TwoInv', [LockNext]_lockVars PROVE [Mutex!Next]_Holder
    OBVIOUS
  <2> USE DEF TwoInv, LockInv, LockTypeOK, Goto, Holder
  <2>1. ASSUME NEW r \in Runs, Holding(r) PROVE Holder = {r}
    <3> SUFFICES ASSUME NEW q \in Runs, Holding(q) PROVE q = r
      BY <2>1
    <3>1. PICK n : file = {[pid |-> n, creator |-> r]}
      BY <2>1 DEF FileOfHolder, Holding
    <3>2. PICK m : file = {[pid |-> m, creator |-> q]}
      BY DEF FileOfHolder, Holding
    <3>3. [pid |-> n, creator |-> r].creator = [pid |-> m, creator |-> q].creator
      BY <3>1, <3>2
    <3> QED
      BY <3>3
  <2>2. CASE UNCHANGED lockVars
    BY <2>2 DEF lockVars, Holding
  <2>3. ASSUME NEW r \in Runs, Create(r) PROVE Mutex!Acquire(r)
    <3>1. Holder = {}
      BY <2>3 DEF Create, FileOfHolder, Holding
    <3>2. Holder' = {r}
      BY <2>3, <3>1 DEF Create, Holding
    <3> QED
      BY <3>1, <3>2 DEF Mutex!Acquire
  <2>4. ASSUME NEW r \in Runs, WritePid(r) PROVE Holder' = Holder
    BY <2>4 DEF WritePid, Holding
  <2>5. ASSUME NEW r \in Runs, Exit(r) PROVE Mutex!Release(r)
    <3>1. Holder = {r}
      BY <2>1, <2>5 DEF Exit, Holding
    <3>2. Holder' = {}
      BY <2>5, <3>1 DEF Exit, Holding
    <3> QED
      BY <3>1, <3>2 DEF Mutex!Release
  <2>6. ASSUME NEW r \in Runs, Kill(r) PROVE Holder' = Holder \/ Mutex!Release(r)
    <3>1. CASE Holding(r)
      <4>1. Holder = {r}
        BY <2>1, <3>1
      <4>2. Holder' = {}
        BY <2>6, <4>1 DEF Kill, Holding
      <4> QED
        BY <4>1, <4>2 DEF Mutex!Release
    <3>2. CASE ~Holding(r)
      BY <2>6, <3>2 DEF Kill, Holding
    <3> QED
      BY <3>1, <3>2
  <2>7. ASSUME NEW r \in Runs,
               Start(r) \/ CreateFails(r) \/ ReadPid(r) \/ FindStale(r) \/ RemoveStale(r)
                 \/ Refuse(r) \/ Wait(r)
        PROVE  Holder' = Holder
    BY <2>7 DEF Start, CreateFails, ReadPid, FindStale, RemoveStale, Refuse, Wait, Holding
  <2> QED
    BY <2>2, <2>3, <2>4, <2>5, <2>6, <2>7 DEF LockNext, LockStep, Mutex!Next
<1> QED
  BY <1>1, <1>2, TwoInvAlways, PTL DEF LockSpec, ImplementsMutex, Mutex!Spec

HIDE RunLockAssumption

-----------------------------------------------------------------------------
(* Finite sets.                                                            *)

LEMMA HasLeast ==
  ASSUME NEW D \in SUBSET Nat, D # {}
  PROVE  \E m \in D : \A n \in D : m <= n
<1>1. \E m \in D : \A n \in D : ~(<<n, m>> \in OpToRel(<, Nat))
  BY NatLessThanWellFounded, WFMin
<1>2. ASSUME NEW m \in D, NEW n \in D, n < m PROVE <<n, m>> \in OpToRel(<, Nat)
  <2>1. <<n, m>> \in Nat \X Nat /\ <<n, m>>[1] = n /\ <<n, m>>[2] = m
    OBVIOUS
  <2> QED
    BY <1>2, <2>1 DEF OpToRel
<1>3. \A m, n \in D : m <= n \/ n < m
  OBVIOUS
<1> QED
  BY <1>1, <1>2, <1>3

\* A larger set of those before.
LEMMA StrictlySmaller ==
  ASSUME NEW S, IsFiniteSet(S), NEW T \in SUBSET S, NEW x \in S, x \notin T
  PROVE  /\ Cardinality(T) \in Nat /\ Cardinality(S) \in Nat
         /\ Cardinality(T) < Cardinality(S)
<1>1. IsFiniteSet(T) /\ Cardinality(T) <= Cardinality(S) /\ (Cardinality(S) = Cardinality(T) => S = T)
  BY FS_Subset
<1>2. Cardinality(T) \in Nat /\ Cardinality(S) \in Nat
  BY <1>1, FS_CardinalityType
<1> QED
  BY <1>1, <1>2

LEMMA HasFirst ==
  ASSUME NEW G, IsFiniteSet(G), G # {}, NEW R,
         \A x \in G : <<x, x>> \notin R,
         \A x, y, z \in G : <<x, y>> \in R /\ <<y, z>> \in R => <<x, z>> \in R
  PROVE  \E x \in G : \A y \in G : <<y, x>> \notin R
<1> DEFINE over(x) == {y \in G : <<y, x>> \in R}
           D == {Cardinality(over(x)) : x \in G}
<1>1. \A x \in G : IsFiniteSet(over(x)) /\ Cardinality(over(x)) \in Nat
  BY FS_Subset, FS_CardinalityType
<1> HIDE DEF over
<1>2. D \in SUBSET Nat
  BY <1>1
<1>3. D # {}
  <2>1. PICK x : x \in G
    OBVIOUS
  <2>2. Cardinality(over(x)) \in D
    BY <2>1
  <2> QED
    BY <2>2
<1> HIDE DEF D
<1>4. PICK m \in D : \A n \in D : m <= n
  BY <1>2, <1>3, HasLeast
<1>5. PICK x \in G : m = Cardinality(over(x))
  BY DEF D
<1>6. SUFFICES ASSUME NEW y \in G, <<y, x>> \in R PROVE FALSE
  OBVIOUS
<1>7. over(y) \in SUBSET over(x) /\ y \in over(x) /\ y \notin over(y)
  BY <1>6 DEF over
<1>8. Cardinality(over(y)) < Cardinality(over(x)) /\ Cardinality(over(y)) \in Nat
  BY <1>1, <1>7, StrictlySmaller
<1>9. m <= Cardinality(over(y))
  BY <1>4 DEF D
<1> QED
  BY <1>1, <1>5, <1>8, <1>9

-----------------------------------------------------------------------------
(* The order of a ranking.                                                 *)

LEMMA PlaceIs ==
  ASSUME NEW name \in Identifiers
  PROVE  Place(name) \in Nat /\ Names[Place(name)] = name
<1>1. \E n \in DOMAIN Names : Names[n] = name
  BY DEF Identifiers
<1>2. Place(name) \in DOMAIN Names /\ Names[Place(name)] = name
  BY <1>1 DEF Place
<1>3. DOMAIN Names \subseteq Nat
  BY ScoringAssumption
<1> QED
  BY <1>2, <1>3

\* Entries that can be ranked: no two with one job_id.
Rankable(entries) ==
    /\ IsFiniteSet(entries)
    /\ \A e \in entries : e.score \in Int /\ e.job_id \in Identifiers
    /\ \A e, f \in entries : e.job_id = f.job_id => e = f

LEMMA BeforeIsOrder ==
  ASSUME NEW entries, Rankable(entries)
  PROVE  /\ \A e \in entries : ~Before(e, e)
         /\ \A e, f, g \in entries : Before(e, f) /\ Before(f, g) => Before(e, g)
         /\ \A e, f \in entries : e # f => Before(e, f) \/ Before(f, e)
<1>1. \A e \in entries : e.score \in Int /\ Place(e.job_id) \in Nat /\ Names[Place(e.job_id)] = e.job_id
  BY PlaceIs DEF Rankable
<1>2. \A e, f \in entries : Place(e.job_id) = Place(f.job_id) => e = f
  BY <1>1 DEF Rankable
<1> QED
  BY <1>1, <1>2 DEF Before

LEMMA RankedByIs ==
  ASSUME NEW entries, Rankable(entries)
  PROVE  /\ Cardinality(entries) \in Nat
         /\ RankedBy(entries) \in [1 .. Cardinality(entries) -> entries]
         /\ \A e \in entries : \E n \in 1 .. Cardinality(entries) : RankedBy(entries)[n] = e
         /\ \A m, n \in 1 .. Cardinality(entries) :
               RankedBy(entries)[m] = RankedBy(entries)[n] => m = n
<1> DEFINE size == Cardinality(entries)
           before(e) == {f \in entries : Before(f, e)}
           rank == [e \in entries |-> Cardinality(before(e))]
<1>1. IsFiniteSet(entries) /\ size \in Nat
  BY FS_CardinalityType DEF Rankable
<1>2. ASSUME NEW e \in entries PROVE Cardinality(before(e)) \in 0 .. size - 1
  <2>1. before(e) \in SUBSET entries /\ e \notin before(e)
    BY BeforeIsOrder
  <2> HIDE DEF before
  <2> QED
    BY <1>1, <2>1, StrictlySmaller
<1>3. ASSUME NEW e \in entries, NEW f \in entries, Before(e, f)
      PROVE  Cardinality(before(e)) < Cardinality(before(f))
  <2>1. before(e) \in SUBSET before(f) /\ e \in before(f) /\ e \notin before(e)
    BY <1>3, BeforeIsOrder
  <2>2. IsFiniteSet(before(f))
    BY <1>1, FS_Subset
  <2> HIDE DEF before
  <2> QED
    BY <2>1, <2>2, StrictlySmaller
<1>4. ASSUME NEW e \in entries, NEW f \in entries, Cardinality(before(e)) = Cardinality(before(f))
      PROVE  e = f
  <2> SUFFICES ASSUME e # f PROVE FALSE
    OBVIOUS
  <2>1. Before(e, f) \/ Before(f, e)
    BY BeforeIsOrder
  <2>2. Cardinality(before(e)) \in Int /\ Cardinality(before(f)) \in Int
    BY <1>2
  <2> QED
    BY <1>3, <1>4, <2>1, <2>2
<1> HIDE DEF before
<1>5. rank \in Injection(entries, 0 .. size - 1)
  BY <1>2, <1>4 DEF Injection, IsInjective
<1>6. IsFiniteSet(0 .. size - 1) /\ Cardinality(0 .. size - 1) = size
  BY <1>1, FS_Interval
<1>7. rank \in Surjection(entries, 0 .. size - 1)
  BY <1>5, <1>6, FS_Injection
<1>8. \A n \in 1 .. size : \E e \in entries : Cardinality(before(e)) = n - 1
  <2> SUFFICES ASSUME NEW n \in 1 .. size PROVE \E e \in entries : Cardinality(before(e)) = n - 1
    OBVIOUS
  <2>1. n - 1 \in 0 .. size - 1
    BY <1>1
  <2>2. PICK e \in entries : rank[e] = n - 1
    BY <1>7, <2>1 DEF Surjection
  <2> QED
    BY <2>2
<1>9. \A n \in 1 .. size : /\ RankedBy(entries)[n] \in entries
                           /\ Cardinality(before(RankedBy(entries)[n])) = n - 1
  BY <1>8 DEF RankedBy, before
<1>10. RankedBy(entries) \in [1 .. size -> entries]
  BY <1>9 DEF RankedBy
<1>11. ASSUME NEW e \in entries PROVE \E n \in 1 .. size : RankedBy(entries)[n] = e
  <2> DEFINE n == Cardinality(before(e)) + 1
  <2>1. n \in 1 .. size /\ Cardinality(before(e)) = n - 1
    BY <1>1, <1>2
  <2> HIDE DEF n
  <2> QED
    BY <1>4, <1>9, <2>1
<1>12. ASSUME NEW m \in 1 .. size, NEW n \in 1 .. size, RankedBy(entries)[m] = RankedBy(entries)[n]
       PROVE  m = n
  <2>1. m - 1 = n - 1
    BY <1>9, <1>12
  <2> QED
    BY <1>1, <2>1
<1> QED
  BY <1>1, <1>10, <1>11, <1>12

-----------------------------------------------------------------------------
(* Scores and entries.                                                     *)

LEMMA ImageFinite ==
  ASSUME NEW S, IsFiniteSet(S), NEW f
  PROVE  IsFiniteSet({f[x] : x \in S})
<1> DEFINE g == [x \in S |-> f[x]]
<1>1. g \in Surjection(S, {f[x] : x \in S})
  BY DEF Surjection
<1> QED
  BY <1>1, FS_Surjection

LEMMA RoundDivInt ==
  ASSUME NEW n \in Int, NEW d \in Nat \ {0}
  PROVE  RoundDiv(n, d) \in Int
<1>1. n \div d \in Int
  OBVIOUS
<1>2. n \div d + 1 \in Int
  BY <1>1
<1> QED
  BY <1>1, <1>2 DEF RoundDiv

LEMMA ClampInRange == \A n \in Int : Clamp(n) \in 0 .. 100
  BY DEF Clamp

\* A posting as it is scored: the fields of the site with those of the stages.
Scorable ==
    [who : Postings, id : Identifiers \cup {None}, url : Identifiers, title : Int, body : Int,
     phd : BOOLEAN, band : {"CS_CORE", "CS_ADJACENT", "SOLUTIONS", "OTHER"},
     us : {"us", "abroad", "silent"}, sim : 0 .. 100, relevance : Relevances, chars : Nat,
     status : {"none", "enriched", "unavailable"}, ai : 0 .. 100 \cup {None}]

LEMMA HeuristicInt ==
  ASSUME NEW j \in Scorable
  PROVE  Heuristic(j) \in Int
<1>1. j.title \in Int /\ j.body \in Int
  BY DEF Scorable
<1>2. PhdRule(j) \in Int /\ PhdPenalty(j) \in Int /\ RelevancePoints(j) \in Int
      /\ BandBoost(j.band) \in Int /\ Multiplier(j.band) \in Int
  BY DEF PhdRule, PhdPenalty, RelevancePoints, BandBoost, Multiplier
<1>3. RulePoints(j) \in Int
  BY <1>1, <1>2 DEF RulePoints
<1>4. BaseScore(j) \in Int
  BY <1>2, <1>3 DEF BaseScore
<1> DEFINE sum == BaseScore(j) + BandBoost(j.band) + PhdPenalty(j)
<1>5. sum \in Int
  BY <1>2, <1>4
<1> HIDE DEF sum
<1>6. sum * Multiplier(j.band) \in Int
  BY <1>2, <1>5
<1>7. RoundDiv(sum * Multiplier(j.band), 100) \in Int
  BY <1>6, RoundDivInt
<1> QED
  BY <1>7 DEF Heuristic, sum

LEMMA FinalScoreInRange ==
  ASSUME NEW j \in Scorable
  PROVE  FinalScore(j) \in 0 .. 100
<1>1. Heuristic(j) \in Int
  BY HeuristicInt
<1>2. ASSUME NEW a \in 0 .. 100 PROVE RoundDiv((100 - AiWeight) * Heuristic(j) + AiWeight * a, 100) \in Int
  <2> DEFINE h == Heuristic(j)
             sum == (100 - AiWeight) * h + AiWeight * a
  <2>1. AiWeight \in Int /\ h \in Int /\ a \in Int
    BY <1>1, ScoringAssumption
  <2> HIDE DEF h
  <2>2. (100 - AiWeight) * h \in Int /\ AiWeight * a \in Int
    BY <2>1
  <2>3. sum \in Int
    BY <2>2
  <2> HIDE DEF sum
  <2>4. RoundDiv(sum, 100) \in Int
    BY <2>3, RoundDivInt
  <2> QED
    BY <2>4 DEF sum, h
<1>3. j.ai = None \/ j.ai \in 0 .. 100
  BY DEF Scorable
<1>4. Blend(Heuristic(j), j.ai) \in Int
  <2>1. CASE j.ai = None
    BY <1>1, <2>1 DEF Blend
  <2>2. CASE j.ai # None
    BY <1>2, <1>3, <2>2 DEF Blend
  <2> QED
    BY <2>1, <2>2
<1> QED
  BY <1>4, ClampInRange DEF FinalScore

-----------------------------------------------------------------------------
(* What is kept, and one posting of each group.                            *)

LEMMA DedupedIs ==
  ASSUME NEW js, IsFiniteSet(js), \A j \in js : j.chars \in Nat
  PROVE  /\ Deduped(js) \subseteq js
         /\ IsFiniteSet(Deduped(js))
         /\ \A j \in js : \E d \in Deduped(js) : GroupOf(d) = GroupOf(j)
         /\ \A c, d \in Deduped(js) : GroupOf(c) = GroupOf(d) => c = d
<1> DEFINE group(g) == {m \in js : GroupOf(m) = g}
           Best(g) == CHOOSE j \in group(g) : \A i \in group(g) : ~Richer(i, j)
           groups == {GroupOf(m) : m \in js}
<1>1. ASSUME NEW g \in groups PROVE Best(g) \in group(g)
  <2> DEFINE R == {pair \in group(g) \X group(g) : Richer(pair[1], pair[2])}
  <2>1. \A i, j \in group(g) : <<i, j>> \in R <=> Richer(i, j)
    OBVIOUS
  <2>2. IsFiniteSet(group(g)) /\ group(g) # {}
    BY FS_Subset
  <2>3. \A x \in group(g) : <<x, x>> \notin R
    BY <2>1 DEF Richer
  <2>4. \A x, y, z \in group(g) : <<x, y>> \in R /\ <<y, z>> \in R => <<x, z>> \in R
    <3>1. \A x, y, z \in group(g) : Richer(x, y) /\ Richer(y, z) => Richer(x, z)
      BY DEF Richer
    <3> QED
      BY <2>1, <3>1
  <2> HIDE DEF group, R
  <2>5. \E x \in group(g) : \A y \in group(g) : <<y, x>> \notin R
    BY <2>2, <2>3, <2>4, HasFirst
  <2>6. \E x \in group(g) : \A y \in group(g) : ~Richer(y, x)
    BY <2>1, <2>5
  <2> QED
    BY <2>6
<1>2. Deduped(js) = {Best(g) : g \in groups}
  BY DEF Deduped
<1> HIDE DEF Best
<1>3. \A g \in groups : Best(g) \in js /\ GroupOf(Best(g)) = g
  BY <1>1
<1> HIDE DEF groups
<1>4. Deduped(js) \subseteq js
  BY <1>2, <1>3
<1>5. IsFiniteSet(Deduped(js))
  BY <1>4, FS_Subset
<1>6. ASSUME NEW j \in js PROVE \E d \in Deduped(js) : GroupOf(d) = GroupOf(j)
  <2>1. GroupOf(j) \in groups
    BY DEF groups
  <2> QED
    BY <1>2, <1>3, <2>1
<1>7. ASSUME NEW c \in Deduped(js), NEW d \in Deduped(js), GroupOf(c) = GroupOf(d) PROVE c = d
  BY <1>2, <1>3, <1>7
<1> QED
  BY <1>4, <1>5, <1>6, <1>7

\* A site is a list of what SettingsAssumption says, and is finite.
LEMMA SiteIs ==
  ASSUME setting \in Settings
  PROVE  /\ \A q \in Postings : Site[q] \in Listing
         /\ IsFiniteSet(Postings)
<1>1. Site \in Seq(Listing)
  BY SettingsAssumption DEF Site
<1>2. Len(Site) \in Nat /\ DOMAIN Site = 1 .. Len(Site) /\ Site \in [1 .. Len(Site) -> Listing]
  BY <1>1, LenProperties
<1> QED
  BY <1>2, FS_Interval DEF Postings

LEMMA GroupsAreIdentifiers ==
  ASSUME setting \in Settings, NEW q \in Postings
  PROVE  GroupOf(Site[q]) \in Identifiers
<1>1. Site[q] \in Listing
  BY SiteIs
<1> QED
  BY <1>1 DEF Listing, GroupOf

\* A row of the enriched file with its AI payload.
Rows == [who : Postings, relevance : Relevances, chars : Nat,
         status : {"none", "enriched", "unavailable"}, ai : 0 .. 100 \cup {None}]

Whole1(j) ==
    [who |-> j.who, id |-> Site[j.who].id, url |-> Site[j.who].url, title |-> Site[j.who].title,
      body |-> Site[j.who].body, phd |-> Site[j.who].phd, band |-> Site[j.who].band,
      us |-> Site[j.who].us, sim |-> Site[j.who].sim, relevance |-> j.relevance,
      chars |-> j.chars, status |-> j.status, ai |-> j.ai]

LEMMA WholeIs ==
  ASSUME setting \in Settings, NEW js \in SUBSET Rows, IsFiniteSet(js)
  PROVE  /\ Whole(js) \subseteq Scorable
         /\ IsFiniteSet(Whole(js))
         /\ \A w \in Whole(js) : /\ GroupOf(w) = GroupOf(Site[w.who]) /\ w.us = Site[w.who].us
                                 /\ \E j \in js : w.who = j.who /\ w.chars = j.chars
         /\ \A j \in js : \E w \in Whole(js) : w.who = j.who
<1>1. Whole(js) = {Whole1(j) : j \in js}
  BY DEF Whole, Whole1
<1>2. ASSUME NEW j \in js
      PROVE  /\ Whole1(j) \in Scorable /\ Whole1(j).who = j.who /\ Whole1(j).chars = j.chars
             /\ GroupOf(Whole1(j)) = GroupOf(Site[j.who]) /\ Whole1(j).us = Site[j.who].us
  <2>1. j \in Rows
    OBVIOUS
  <2>2. Site[j.who] \in Listing
    BY <2>1, SiteIs DEF Rows
  <2>3. Whole1(j) \in Scorable
    BY <2>1, <2>2 DEF Whole1, Scorable, Rows, Listing
  <2>4. Whole1(j).who = j.who /\ Whole1(j).chars = j.chars /\ Whole1(j).us = Site[j.who].us
        /\ Whole1(j).id = Site[j.who].id /\ Whole1(j).url = Site[j.who].url
    BY DEF Whole1
  <2> QED
    BY <2>3, <2>4 DEF GroupOf
<1>3. IsFiniteSet(Whole(js))
  <2> DEFINE f == [j \in js |-> Whole1(j)]
  <2>1. Whole(js) = {f[j] : j \in js}
    BY <1>1
  <2> HIDE DEF f
  <2> QED
    BY <2>1, ImageFinite
<1> QED
  BY <1>1, <1>2, <1>3

-----------------------------------------------------------------------------
(* The ranking.                                                            *)

ListEntries ==
    {e \in [who : Postings, job_id : Identifiers, url : Identifiers, title : Int,
            us : {"us", "abroad", "silent"}, chars : Nat,
            status : {"none", "enriched", "unavailable"}, sim : 0 .. 100, score : 0 .. 100] :
        e.job_id = GroupOf(Site[e.who])}

OnePerId(list) == \A m, n \in DOMAIN list : list[m].job_id = list[n].job_id => m = n
IsRanking(list) == list \in Seq(ListEntries) /\ OnePerId(list)

LEMMA RankedByRanks ==
  ASSUME NEW E \in SUBSET ListEntries, IsFiniteSet(E),
         \A e, f \in E : e.job_id = f.job_id => e = f
  PROVE  IsRanking(RankedBy(E)) /\ Members(RankedBy(E)) = E
<1>1. Rankable(E)
  BY DEF Rankable, ListEntries
<1> DEFINE size == Cardinality(E)
           list == RankedBy(E)
<1>2. /\ size \in Nat /\ list \in [1 .. size -> E]
      /\ \A e \in E : \E n \in 1 .. size : list[n] = e
      /\ \A m, n \in 1 .. size : list[m] = list[n] => m = n
  BY <1>1, RankedByIs
<1> HIDE DEF list, size
<1>3. DOMAIN list = 1 .. size
  BY <1>2
<1>4. list \in Seq(ListEntries)
  <2>1. list \in [1 .. size -> ListEntries]
    BY <1>2
  <2> QED
    BY <1>2, <2>1, SeqDef
<1>5. Members(list) = E
  BY <1>2, <1>3 DEF Members
<1>6. OnePerId(list)
  BY <1>2, <1>3 DEF OnePerId
<1> QED
  BY <1>4, <1>5, <1>6 DEF IsRanking, list

LEMMA EntryIs ==
  ASSUME setting \in Settings, NEW w \in Scorable, GroupOf(w) = GroupOf(Site[w.who])
  PROVE  /\ Entry(w) \in ListEntries
         /\ Entry(w).who = w.who /\ Entry(w).chars = w.chars /\ Entry(w).job_id = GroupOf(w)
<1>1. FinalScore(w) \in 0 .. 100
  BY FinalScoreInRange
<1>2. w.who \in Postings
  BY DEF Scorable
<1>3. GroupOf(w) \in Identifiers
  BY <1>2, GroupsAreIdentifiers
<1>4. Entry(w).who = w.who /\ Entry(w).chars = w.chars /\ Entry(w).job_id = GroupOf(w)
  BY DEF Entry
<1>5. Entry(w) \in [who : Postings, job_id : Identifiers, url : Identifiers, title : Int,
            us : {"us", "abroad", "silent"}, chars : Nat,
            status : {"none", "enriched", "unavailable"}, sim : 0 .. 100, score : 0 .. 100]
  BY <1>1, <1>2, <1>3 DEF Entry, Scorable
<1> QED
  BY <1>4, <1>5 DEF ListEntries

LEMMA KeptIs ==
  ASSUME NEW js, NEW us_only \in BOOLEAN
  PROVE  Kept(js, us_only) \subseteq js
  BY DEF Kept, UsFiltered

LEMMA ScoredIs ==
  ASSUME setting \in Settings, NEW js \in SUBSET Rows, IsFiniteSet(js)
  PROVE  LET kept_ == Kept(Whole(js), setting.us_only)
             list == Scored(Whole(js), setting.us_only)
         IN /\ IsRanking(list)
            /\ \A e \in Members(list) : \E w \in kept_ : e.who = w.who /\ e.chars = w.chars
            /\ \A w \in kept_ : \E e \in Members(list) : e.job_id = GroupOf(w)
<1> DEFINE kept_ == Kept(Whole(js), setting.us_only)
           D == Deduped(kept_)
           E == {Entry(d) : d \in D}
<1>1. /\ Whole(js) \subseteq Scorable /\ IsFiniteSet(Whole(js))
      /\ \A w \in Whole(js) : GroupOf(w) = GroupOf(Site[w.who])
  BY WholeIs
<1>2. kept_ \subseteq Whole(js)
  BY DEF Kept, UsFiltered
<1>3. IsFiniteSet(kept_)
  BY <1>1, <1>2, FS_Subset
<1>4. \A w \in kept_ : w \in Scorable /\ GroupOf(w) = GroupOf(Site[w.who]) /\ w.chars \in Nat
  BY <1>1, <1>2 DEF Scorable
<1> HIDE DEF kept_
<1>5. /\ D \subseteq kept_ /\ IsFiniteSet(D)
      /\ \A j \in kept_ : \E d \in D : GroupOf(d) = GroupOf(j)
      /\ \A c, d \in D : GroupOf(c) = GroupOf(d) => c = d
  BY <1>3, <1>4, DedupedIs
<1> HIDE DEF D
<1>6. \A d \in D : /\ Entry(d) \in ListEntries
                   /\ Entry(d).who = d.who /\ Entry(d).chars = d.chars /\ Entry(d).job_id = GroupOf(d)
  BY <1>4, <1>5, EntryIs
<1>7. E \in SUBSET ListEntries
  BY <1>6
<1>8. IsFiniteSet(E)
  <2> DEFINE f == [d \in D |-> Entry(d)]
  <2>1. E = {f[d] : d \in D}
    OBVIOUS
  <2> HIDE DEF f, D
  <2>2. IsFiniteSet({f[d] : d \in D})
    BY <1>5, ImageFinite
  <2> QED
    BY <2>1, <2>2
<1>9. \A e, f \in E : e.job_id = f.job_id => e = f
  BY <1>5, <1>6
<1>10. Scored(Whole(js), setting.us_only) = RankedBy(E)
  BY DEF Scored, kept_, D
<1>11. \A e \in E : \E w \in kept_ : e.who = w.who /\ e.chars = w.chars
  BY <1>5, <1>6
<1>12. \A w \in kept_ : \E e \in E : e.job_id = GroupOf(w)
  BY <1>5, <1>6
<1> HIDE DEF E
<1>13. IsRanking(RankedBy(E)) /\ Members(RankedBy(E)) = E
  BY <1>7, <1>8, <1>9, RankedByRanks
<1> QED
  BY <1>10, <1>11, <1>12, <1>13 DEF kept_

\* The boost changes scores and their order only.
LEMMA BoostIs ==
  ASSUME NEW list, IsRanking(list)
  PROVE  /\ IsRanking(Boost(list))
         /\ \A e \in Members(Boost(list)) :
               \E f \in Members(list) : f.who = e.who /\ f.chars = e.chars /\ f.job_id = e.job_id
         /\ \A f \in Members(list) : \E e \in Members(Boost(list)) : f.job_id = e.job_id
<1> DEFINE New(n) == [list[n] EXCEPT !.score = IF n <= TopK THEN Boosted(list[n]) ELSE @]
           E == {New(n) : n \in DOMAIN list}
<1>1. DOMAIN list = 1 .. Len(list) /\ Len(list) \in Nat /\ \A n \in DOMAIN list : list[n] \in ListEntries
  BY LenProperties DEF IsRanking
<1>2. IsFiniteSet(DOMAIN list)
  BY <1>1, FS_Interval
<1>3. ASSUME NEW e \in ListEntries PROVE Boosted(e) \in 0 .. 100
  <2>1. e.score \in Int /\ e.sim \in Int
    BY DEF ListEntries
  <2> DEFINE span == 100 - MinSimilarity
             s == e.score
             x == e.sim - MinSimilarity
  <2>2. span \in Nat \ {0} /\ s \in Int /\ x \in Int /\ MaxBoost \in Int
    BY <2>1, ScoringAssumption
  <2> HIDE DEF span, s, x
  <2>3. s * span \in Int /\ x * MaxBoost \in Int
    BY <2>2
  <2> DEFINE sum == s * span + x * MaxBoost
  <2>4. sum \in Int
    BY <2>3
  <2> HIDE DEF sum
  <2>5. RoundDiv(sum, span) \in Int
    BY <2>2, <2>4, RoundDivInt
  <2>6. Clamp(RoundDiv(sum, span)) \in 0 .. 100 /\ Clamp(e.score) \in 0 .. 100
    BY <2>1, <2>5, ClampInRange
  <2> QED
    BY <2>6 DEF Boosted, sum, span, s, x
<1>4. ASSUME NEW n \in DOMAIN list
      PROVE  /\ New(n) \in ListEntries
             /\ New(n).who = list[n].who /\ New(n).chars = list[n].chars
             /\ New(n).job_id = list[n].job_id
  <2> DEFINE e == list[n]
             score == IF n <= TopK THEN Boosted(e) ELSE e.score
  <2>1. e \in ListEntries
    BY <1>1
  <2>2. e.score \in 0 .. 100
    BY <2>1 DEF ListEntries
  <2>3. score \in 0 .. 100
    BY <1>3, <2>1, <2>2
  <2>4. New(n) = [e EXCEPT !.score = score]
    OBVIOUS
  <2> HIDE DEF score, e
  <2>5. [e EXCEPT !.score = score] \in ListEntries /\ [e EXCEPT !.score = score].who = e.who
        /\ [e EXCEPT !.score = score].chars = e.chars /\ [e EXCEPT !.score = score].job_id = e.job_id
    BY <2>1, <2>3 DEF ListEntries
  <2> QED
    BY <2>4, <2>5 DEF e
<1> HIDE DEF New
<1>5. E \in SUBSET ListEntries
  BY <1>4
<1>6. IsFiniteSet(E)
  <2> DEFINE f == [n \in DOMAIN list |-> New(n)]
  <2>1. E = {f[n] : n \in DOMAIN list}
    OBVIOUS
  <2> HIDE DEF f
  <2>2. IsFiniteSet({f[n] : n \in DOMAIN list})
    BY <1>2, ImageFinite
  <2> QED
    BY <2>1, <2>2
<1>7. \A e, f \in E : e.job_id = f.job_id => e = f
  BY <1>4 DEF IsRanking, OnePerId
<1>8. Boost(list) = RankedBy(E)
  BY DEF Boost, New
<1>9. \A e \in E : \E f \in Members(list) : f.who = e.who /\ f.chars = e.chars /\ f.job_id = e.job_id
  BY <1>4 DEF Members
<1>10. \A f \in Members(list) : \E e \in E : f.job_id = e.job_id
  BY <1>4 DEF Members
<1> HIDE DEF E
<1>11. IsRanking(RankedBy(E)) /\ Members(RankedBy(E)) = E
  BY <1>5, <1>6, <1>7, RankedByRanks
<1> QED
  BY <1>8, <1>9, <1>10, <1>11

\* What main keeps of a list of rows.
KeptOf(js) == Kept(Whole(js), setting.us_only)

LEMMA RankingOf ==
  ASSUME setting \in Settings, NEW js \in SUBSET Rows, IsFiniteSet(js)
  PROVE  /\ IsRanking(Ranking(js))
         /\ \A e \in Members(Ranking(js)) : \E w \in KeptOf(js) : e.who = w.who /\ e.chars = w.chars
         /\ \A w \in KeptOf(js) : \E e \in Members(Ranking(js)) : e.job_id = GroupOf(w)
<1> DEFINE scored == Scored(Whole(js), setting.us_only)
<1>1. /\ IsRanking(scored)
      /\ \A e \in Members(scored) : \E w \in KeptOf(js) : e.who = w.who /\ e.chars = w.chars
      /\ \A w \in KeptOf(js) : \E e \in Members(scored) : e.job_id = GroupOf(w)
  BY ScoredIs DEF KeptOf
<1> HIDE DEF scored
<1>2. Ranking(js) = IF setting.semantic = "on" THEN Boost(scored) ELSE scored
  BY DEF Ranking, scored
<1>3. CASE setting.semantic = "on"
  <2>1. /\ IsRanking(Boost(scored))
        /\ \A e \in Members(Boost(scored)) :
               \E f \in Members(scored) : f.who = e.who /\ f.chars = e.chars /\ f.job_id = e.job_id
        /\ \A f \in Members(scored) : \E e \in Members(Boost(scored)) : f.job_id = e.job_id
    BY <1>1, BoostIs
  <2>2. Ranking(js) = Boost(scored)
    BY <1>2, <1>3
  <2>3. ASSUME NEW e \in Members(Boost(scored))
        PROVE  \E w \in KeptOf(js) : e.who = w.who /\ e.chars = w.chars
    <3>1. PICK f \in Members(scored) : f.who = e.who /\ f.chars = e.chars
      BY <2>1
    <3> QED
      BY <1>1, <3>1
  <2>4. ASSUME NEW w \in KeptOf(js) PROVE \E e \in Members(Boost(scored)) : e.job_id = GroupOf(w)
    <3>1. PICK f \in Members(scored) : f.job_id = GroupOf(w)
      BY <1>1
    <3>2. PICK e \in Members(Boost(scored)) : f.job_id = e.job_id
      BY <2>1
    <3> QED
      BY <3>1, <3>2
  <2> QED
    BY <2>1, <2>2, <2>3, <2>4
<1>4. CASE setting.semantic # "on"
  BY <1>1, <1>2, <1>4
<1> QED
  BY <1>3, <1>4

-----------------------------------------------------------------------------
(* The steps of the stages.                                                *)

Scores(p) == \E marks \in setting.marks : Score(p, marks)
Compares(p) == \E marks \in setting.marks : Compare(p, marks)
StartsBriefs(p) == \E enabled \in BOOLEAN : Briefs(p, enabled)

\* What a step leaves alone, by variable.
LEMMA Frames ==
  ASSUME NEW p \in Procs, Step(p)
  PROVE  /\ UNCHANGED <<setting, raw, passes, touched>>
         /\ Classify(p) \/ labeled' = labeled
         /\ Enrich(p) \/ Texts(p) \/ TextsSkipped(p) \/ enriched' = enriched
         /\ WriteAiFile(p) \/ aiFile' = aiFile
         /\ Scores(p) \/ (ranking' = ranking /\ fellBack' = fellBack)
         /\ Scores(p) \/ Compares(p) \/ shortlist' = shortlist
         /\ Archive(p) \/ archive' = archive
         /\ Report(p) \/ report' = report
         /\ Post(p) \/ Suppress(p) \/ lastRanked' = lastRanked
         /\ Stops(p) \/ Post(p) \/ Compares(p) \/ compared' = compared
         /\ Texts(p) \/ details' = details
         /\ SaveEntry(p) \/ PutKit(p) \/ answers' = answers
         /\ Brief(p) \/ briefs' = briefs
         /\ BriefsDone(p) \/ shown' = shown
         /\ Stops(p) \/ Augment(p) \/ SaveEntry(p) \/ PutKit(p) \/ Scores(p) \/ todo' = todo
         /\ Stops(p) \/ ReadEntry(p) \/ SaveEntry(p) \/ PutKit(p) \/ got' = got
         /\ Stops(p) \/ SaveEntry(p) \/ WriteAiFile(p) \/ out' = out
         /\ Stops(p) \/ StartsBriefs(p) \/ Brief(p) \/ BriefsDone(p) \/ briefing' = briefing
         /\ Texts(p) \/ answered' = answered
         /\ StartsBriefs(p) \/ blanked' = blanked
         /\ Post(p) \/ told' = told
         /\ Post(p) \/ Suppress(p) \/ Report(p) \/ excused' = excused
<1>1. CASE Stops(p)
  <2>1. UNCHANGED <<setting, raw, labeled, enriched, aiFile, ranking, fellBack, shortlist, archive,
        report, lastRanked, details, answers, briefs, shown, passes, touched, answered, blanked,
        told, excused>>
    BY <1>1 DEF Stops, outputs, kept, caches, counters, telling, observed
  <2> QED
    BY <1>1, <2>1
<1>2. CASE Classify(p)
  <2>1. UNCHANGED <<setting, raw, enriched, aiFile, ranking, fellBack, shortlist, archive,
        report, lastRanked, compared, details, answers, briefs, shown, todo, got, out, briefing,
        passes, touched, answered, blanked, told, excused>>
    BY <1>2 DEF Classify, outputs, kept, memory, work, counters, telling
  <2> QED
    BY <1>2, <2>1
<1>3. CASE Enrich(p)
  <2>1. UNCHANGED <<setting, raw, labeled, aiFile, ranking, fellBack, shortlist, archive,
        report, lastRanked, compared, details, answers, briefs, shown, todo, got, out, briefing,
        passes, touched, answered, blanked, told, excused>>
    BY <1>3 DEF Enrich, outputs, kept, memory, caches, work, counters, telling, observed
  <2> QED
    BY <1>3, <2>1
<1>4. CASE Texts(p)
  <2>1. UNCHANGED <<setting, raw, labeled, aiFile, ranking, fellBack, shortlist, archive,
        report, lastRanked, compared, answers, briefs, shown, todo, got, out, briefing, passes,
        touched, blanked, told, excused>>
    BY <1>4 DEF Texts, outputs, kept, memory, work, counters, telling
  <2> QED
    BY <1>4, <2>1
<1>5. CASE Augment(p)
  <2>1. UNCHANGED <<setting, raw, labeled, enriched, aiFile, ranking, fellBack, shortlist, archive,
        report, lastRanked, compared, details, answers, briefs, shown, got, out, briefing, passes,
        touched, answered, blanked, told, excused>>
    BY <1>5 DEF Augment, outputs, kept, memory, files, caches, counters, telling, observed
  <2> QED
    BY <1>5, <2>1
<1>6. CASE ReadEntry(p)
  <2>1. UNCHANGED <<setting, raw, labeled, enriched, aiFile, ranking, fellBack, shortlist, archive,
        report, lastRanked, compared, details, answers, briefs, shown, todo, out, briefing,
        passes, touched, answered, blanked, told, excused>>
    BY <1>6 DEF ReadEntry, outputs, kept, memory, files, caches, counters, telling, observed
  <2> QED
    BY <1>6, <2>1
<1>7. CASE SaveEntry(p)
  <2>1. UNCHANGED <<setting, raw, labeled, enriched, aiFile, ranking, fellBack, shortlist, archive,
        report, lastRanked, compared, details, briefs, shown, briefing, passes, touched, answered,
        blanked, told, excused>>
    BY <1>7 DEF SaveEntry, outputs, kept, memory, files, counters, telling, observed
  <2> QED
    BY <1>7, <2>1
<1>8. CASE WriteAiFile(p)
  <2>1. UNCHANGED <<setting, raw, labeled, enriched, ranking, fellBack, shortlist, archive,
        report, lastRanked, compared, details, answers, briefs, shown, todo, got, briefing,
        passes, touched, answered, blanked, told, excused>>
    BY <1>8 DEF WriteAiFile, outputs, kept, memory, caches, counters, telling, observed
  <2> QED
    BY <1>8, <2>1
<1>9. CASE Archive(p)
  <2>1. UNCHANGED <<setting, raw, labeled, enriched, aiFile, ranking, fellBack, shortlist, report,
        lastRanked, compared, details, answers, briefs, shown, todo, got, out, briefing,
        passes, touched, answered, blanked, told, excused>>
    BY <1>9 DEF Archive, outputs, memory, caches, work, counters, telling, observed
  <2> QED
    BY <1>9, <2>1
<1>10. CASE PutKit(p)
  <2>1. UNCHANGED <<setting, raw, labeled, enriched, aiFile, ranking, fellBack, shortlist, archive,
        report, lastRanked, compared, details, briefs, shown, out, briefing, passes, touched,
        answered, blanked, told, excused>>
    BY <1>10 DEF PutKit, outputs, kept, memory, files, counters, telling, observed
  <2> QED
    BY <1>10, <2>1
<1>11. CASE KitsDone(p)
  <2>1. UNCHANGED <<setting, raw, labeled, enriched, aiFile, ranking, fellBack, shortlist, archive,
        report, lastRanked, compared, details, answers, briefs, shown, todo, got, out, briefing,
        passes, touched, answered, blanked, told, excused>>
    BY <1>11 DEF KitsDone, outputs, kept, memory, files, caches, work, counters, telling, observed
  <2> QED
    BY <1>11, <2>1
<1>12. CASE Insights(p)
  <2>1. UNCHANGED <<setting, raw, labeled, enriched, aiFile, ranking, fellBack, shortlist, archive,
        report, lastRanked, compared, details, answers, briefs, shown, todo, got, out, briefing,
        passes, touched, answered, blanked, told, excused>>
    BY <1>12 DEF Insights, outputs, kept, memory, files, work, counters, telling, observed
  <2> QED
    BY <1>12, <2>1
<1>13. CASE Post(p)
  <2>1. UNCHANGED <<setting, raw, labeled, enriched, aiFile, ranking, fellBack, shortlist, archive,
        report, details, answers, briefs, shown, todo, got, out, briefing, passes, touched,
        answered, blanked>>
    BY <1>13 DEF Post, outputs, kept, caches, work, counters
  <2> QED
    BY <1>13, <2>1
<1>14. CASE Report(p)
  <2>1. UNCHANGED <<setting, raw, labeled, enriched, aiFile, ranking, fellBack, shortlist, archive,
        lastRanked, compared, details, answers, briefs, shown, todo, got, out, briefing,
        passes, touched, answered, blanked, told>>
    BY <1>14 DEF Report, outputs, memory, caches, work, counters
  <2> QED
    BY <1>14, <2>1
<1>15. CASE Scores(p)
  <2>1. UNCHANGED <<setting, raw, labeled, enriched, aiFile, archive, report, lastRanked,
        compared, details, answers, briefs, shown, got, out, briefing, passes, touched,
        answered, blanked, told, excused>>
    BY <1>15 DEF Scores, Score, kept, memory, caches, counters, telling, observed
  <2> QED
    BY <1>15, <2>1
<1>16. CASE Compares(p)
  <2>1. UNCHANGED <<setting, raw, labeled, enriched, aiFile, ranking, fellBack, archive, report, lastRanked,
        details, answers, briefs, shown, todo, got, out, briefing, passes, touched,
        answered, blanked, told, excused>>
    BY <1>16 DEF Compares, Compare, kept, caches, work, counters, telling, observed
  <2> QED
    BY <1>16, <2>1
<1>17. CASE StartsBriefs(p)
  <2>1. UNCHANGED <<setting, raw, labeled, enriched, aiFile, ranking, fellBack, shortlist, archive,
        report, lastRanked, compared, details, answers, briefs, shown, todo, got, out, passes,
        touched, answered, told, excused>>
    BY <1>17 DEF StartsBriefs, Briefs, outputs, kept, memory, files, caches, counters, telling
  <2> QED
    BY <1>17, <2>1
<1>18. CASE Brief(p)
  <2>1. UNCHANGED <<setting, raw, labeled, enriched, aiFile, ranking, fellBack, shortlist, archive,
        report, lastRanked, compared, details, answers, shown, todo, got, out, passes, touched,
        answered, blanked, told, excused>>
    BY <1>18 DEF Brief, outputs, kept, memory, files, counters, telling, observed
  <2> QED
    BY <1>18, <2>1
<1>19. CASE BriefsDone(p)
  <2>1. UNCHANGED <<setting, raw, labeled, enriched, aiFile, ranking, fellBack, shortlist, archive,
        report, lastRanked, compared, details, answers, briefs, todo, got, out, passes, touched,
        answered, blanked, told, excused>>
    BY <1>19 DEF BriefsDone, outputs, kept, memory, files, counters, telling, observed
  <2> QED
    BY <1>19, <2>1
<1>20. CASE TextsSkipped(p)
  <2>1. UNCHANGED <<setting, raw, labeled, aiFile, ranking, fellBack, shortlist, archive,
        report, lastRanked, compared, details, answers, briefs, shown, todo, got, out, briefing,
        passes, touched, answered, blanked, told, excused>>
    BY <1>20 DEF TextsSkipped, outputs, kept, memory, caches, work, counters, observed, telling
  <2> QED
    BY <1>20, <2>1
<1>21. CASE Suppress(p)
  <2>1. UNCHANGED <<setting, raw, labeled, enriched, aiFile, ranking, fellBack, shortlist, archive,
        report, compared, details, answers, briefs, shown, todo, got, out, briefing,
        passes, touched, answered, blanked, told>>
    BY <1>21 DEF Suppress, outputs, kept, caches, work, counters
  <2> QED
    BY <1>21, <2>1
<1> QED
  BY <1>1, <1>2, <1>3, <1>4, <1>5, <1>6, <1>7, <1>8, <1>9, <1>10, <1>11, <1>12, <1>13, <1>14, <1>15,
     <1>16, <1>17, <1>18, <1>19, <1>20, <1>21
     DEF Step, Scores, Compares, StartsBriefs

\* Where a program goes when it ends.
After(p, program) == IF p = "daily" THEN Following(program) ELSE "idle"

\* From which program a step leads, and where to.
LEMMA Moves ==
  ASSUME NEW p \in Procs, Step(p), prog = [q \in Procs |-> prog[q]]
  PROVE  /\ prog' = [q \in Procs |-> prog'[q]] /\ \A q \in Procs \ {p} : prog'[q] = prog[q]
         /\ prog[p] # "idle"
         /\ Stops(p) => prog'[p] = "idle"
         /\ Classify(p) => prog[p] = "classify" /\ prog'[p] = After(p, "classify")
         /\ Enrich(p) => prog[p] = "enrich" /\ prog'[p] = After(p, "enrich")
         /\ Texts(p) \/ TextsSkipped(p) => prog[p] = "texts" /\ prog'[p] = After(p, "texts")
         /\ Suppress(p) => prog[p] = "compare" /\ prog'[p] = "report"
         /\ Augment(p) => prog[p] = "augment" /\ prog'[p] = "augmenting"
         /\ ReadEntry(p) => prog[p] \in Loops /\ prog'[p] = prog[p]
         /\ SaveEntry(p) => prog[p] = "augmenting" /\ prog'[p] = "augmenting"
         /\ WriteAiFile(p) => prog[p] = "augmenting" /\ prog'[p] = After(p, "augmenting")
         /\ Archive(p) => prog[p] = "archive" /\ prog'[p] = After(p, "archive")
         /\ PutKit(p) => prog[p] = "kitting" /\ prog'[p] = "kitting"
         /\ KitsDone(p) => prog[p] = "kitting" /\ prog'[p] = After(p, "kitting")
         /\ Insights(p) => prog[p] = "insights" /\ prog'[p] = After(p, "insights")
         /\ Post(p) => prog[p] = "post" /\ prog'[p] = After(p, "post")
         /\ Report(p) => prog[p] = "report" /\ prog'[p] = After(p, "report")
         /\ Scores(p) => prog[p] = "score" /\ prog'[p] = IF p = "daily" THEN "compare" ELSE "kitting"
         /\ Compares(p) => prog[p] = "compare" /\ prog'[p] = After(p, "compare")
         /\ StartsBriefs(p) => prog[p] = "briefs" /\ prog'[p] = "briefing"
         /\ Brief(p) => prog[p] = "briefing" /\ prog'[p] = "briefing"
         /\ BriefsDone(p) => prog[p] = "briefing" /\ prog'[p] = After(p, "briefing")
<1> DEFINE Goes(to) == prog' = [prog EXCEPT ![p] = to]
           Stays == prog' = prog
<1>1. ASSUME NEW to, Goes(to)
      PROVE  /\ prog' = [q \in Procs |-> prog'[q]] /\ \A q \in Procs \ {p} : prog'[q] = prog[q]
             /\ prog'[p] = to
  BY <1>1
<1>2. ASSUME Stays
      PROVE  /\ prog' = [q \in Procs |-> prog'[q]] /\ \A q \in Procs \ {p} : prog'[q] = prog[q]
             /\ prog'[p] = prog[p]
  BY <1>2
<1>3. ASSUME Done(p) PROVE Goes(After(p, prog[p]))
  BY <1>3 DEF Done, After
<1>4. Stops(p) => prog[p] # "idle" /\ Goes("idle")
  BY <1>3 DEF Stops
<1>5. Classify(p) => prog[p] = "classify" /\ Goes(After(p, "classify"))
  BY <1>3 DEF Classify
<1>6. Enrich(p) => prog[p] = "enrich" /\ Goes(After(p, "enrich"))
  BY <1>3 DEF Enrich
<1>7. Texts(p) \/ TextsSkipped(p) => prog[p] = "texts" /\ Goes(After(p, "texts"))
  BY <1>3 DEF Texts, TextsSkipped
<1>8. Suppress(p) => prog[p] = "compare" /\ Goes("report")
  BY DEF Suppress
<1>9. Augment(p) => prog[p] = "augment" /\ Goes("augmenting")
  BY <1>3 DEF Augment
<1>10. WriteAiFile(p) => prog[p] = "augmenting" /\ Goes(After(p, "augmenting"))
  BY <1>3 DEF WriteAiFile
<1>11. Archive(p) => prog[p] = "archive" /\ Goes(After(p, "archive"))
  BY <1>3 DEF Archive
<1>12. KitsDone(p) => prog[p] = "kitting" /\ Goes(After(p, "kitting"))
  BY <1>3 DEF KitsDone
<1>13. Insights(p) => prog[p] = "insights" /\ Goes(After(p, "insights"))
  BY <1>3 DEF Insights
<1>14. Post(p) => prog[p] = "post" /\ Goes(After(p, "post"))
  BY <1>3 DEF Post
<1>15. Report(p) => prog[p] = "report" /\ Goes(After(p, "report"))
  BY <1>3 DEF Report
<1>16. Scores(p) => prog[p] = "score" /\ Goes(IF p = "daily" THEN "compare" ELSE "kitting")
  BY <1>3 DEF Scores, Score, Done, Following
<1>17. Compares(p) => prog[p] = "compare" /\ Goes(After(p, "compare"))
  BY <1>3 DEF Compares, Compare
<1>18. StartsBriefs(p) => prog[p] = "briefs" /\ Goes("briefing")
  BY <1>3 DEF StartsBriefs, Briefs
<1>19. BriefsDone(p) => prog[p] = "briefing" /\ Goes(After(p, "briefing"))
  BY <1>3 DEF BriefsDone
<1>20. ReadEntry(p) => prog[p] \in Loops /\ Stays
  BY DEF ReadEntry
<1>21. SaveEntry(p) => prog[p] = "augmenting" /\ Stays
  BY DEF SaveEntry
<1>22. PutKit(p) => prog[p] = "kitting" /\ Stays
  BY DEF PutKit
<1>23. Brief(p) => prog[p] = "briefing" /\ Stays
  BY DEF Brief
<1> HIDE DEF Goes, Stays, After
<1>24. prog[p] # "idle"
  BY <1>4, <1>5, <1>6, <1>7, <1>9, <1>10, <1>11, <1>12, <1>13, <1>14, <1>15, <1>16, <1>17, <1>18,
     <1>19, <1>20, <1>21, <1>22, <1>23, <1>8 DEF Step, Scores, Compares, StartsBriefs, Loops
<1>25. Stays \/ \E to : Goes(to)
  BY <1>4, <1>5, <1>6, <1>7, <1>9, <1>10, <1>11, <1>12, <1>13, <1>14, <1>15, <1>16, <1>17, <1>18,
     <1>19, <1>20, <1>21, <1>22, <1>23, <1>8 DEF Step, Scores, Compares, StartsBriefs
<1> QED
  BY <1>1, <1>2, <1>4, <1>5, <1>6, <1>7, <1>9, <1>10, <1>11, <1>12, <1>13, <1>14, <1>15, <1>16, <1>17,
     <1>18, <1>19, <1>20, <1>21, <1>22, <1>23, <1>8, <1>24, <1>25

-----------------------------------------------------------------------------
(* What the files hold.                                                    *)

FinitePart(S, T) == IsFiniteSet(S) /\ S \subseteq T
Augmenteds == [who : Postings, relevance : Relevances, chars : Lengths,
               status : {"none", "enriched", "unavailable"}, ai : 0 .. 100]
RankingTyped(list) == IsRanking(list) /\ \A e \in Members(list) : e.chars \in Lengths

\* What a process has in hand.
InHand(p) ==
    /\ got[p] # None => prog[p] \in Loops
    /\ prog[p] # "augmenting" => out[p] = {}
    /\ prog[p] = "augmenting" =>
          /\ todo[p] \subseteq Enriched
          /\ FinitePart(out[p], Augmenteds)
          /\ got[p] # None => got[p].job \in todo[p]

Handling ==
    /\ todo = [p \in Procs |-> todo[p]] /\ got = [p \in Procs |-> got[p]]
    /\ out = [p \in Procs |-> out[p]]
    /\ \A p \in Procs : InHand(p)

FilesTyped ==
    /\ raw \subseteq Postings
    /\ labeled = Absent \/ FinitePart(labeled, Labeled)
    /\ enriched = Absent \/ FinitePart(enriched, Enriched)
    /\ aiFile = Absent \/ FinitePart(aiFile, Augmenteds)
    /\ RankingTyped(ranking)

LEMMA LengthsIs ==
  ASSUME setting \in Settings
  PROVE  /\ 0 \in Lengths /\ Lengths \subseteq Nat
         /\ \A q \in Postings : Site[q].text \in Lengths
<1>1. \A q \in Postings : Site[q].text \in Nat
  BY SiteIs DEF Listing
<1> QED
  BY <1>1 DEF Lengths

LEMMA ClassifyTyped ==
  ASSUME setting \in Settings, raw \subseteq Postings, NEW p \in Procs, Classify(p)
  PROVE  FinitePart(labeled', Labeled) /\ {j.who : j \in labeled'} = raw
<1>1. PICK kind, maybe : labeled' = {[who |-> q, relevance |-> IF q \in maybe /\ Similar(q, kind)
                                                  THEN "RELEVANT" ELSE Site[q].label] : q \in raw}
  BY DEF Classify
<1> DEFINE Row(q) == [who |-> q, relevance |-> IF q \in maybe /\ Similar(q, kind)
                                                  THEN "RELEVANT" ELSE Site[q].label]
           f == [q \in raw |-> Row(q)]
<1>2. labeled' = {f[q] : q \in raw}
  BY <1>1
<1>3. \A q \in raw : f[q] \in Labeled /\ f[q].who = q
  BY SiteIs DEF Labeled, Listing, Relevances
<1> HIDE DEF f
<1>4. labeled' \subseteq Labeled
  BY <1>2, <1>3
<1>5. {j.who : j \in labeled'} = raw
  BY <1>2, <1>3
<1>6. IsFiniteSet(raw)
  BY SiteIs, FS_Subset
<1>7. IsFiniteSet({f[q] : q \in raw})
  BY <1>6, ImageFinite
<1> QED
  BY <1>2, <1>4, <1>5, <1>7 DEF FinitePart

LEMMA EnrichTyped ==
  ASSUME setting \in Settings, FinitePart(labeled, Labeled), NEW p \in Procs, Enrich(p)
  PROVE  FinitePart(enriched', Enriched) /\ {j.who : j \in enriched'} = {j.who : j \in labeled}
<1> DEFINE Row(j) == [who |-> j.who, relevance |-> j.relevance, chars |-> 0, status |-> "none"]
           f == [j \in labeled |-> Row(j)]
<1>1. enriched' = {f[j] : j \in labeled}
  BY DEF Enrich
<1>2. \A j \in labeled : Row(j) \in Enriched /\ Row(j).who = j.who
  BY LengthsIs DEF FinitePart, Labeled, Enriched
<1>3. \A j \in labeled : f[j] \in Enriched /\ f[j].who = j.who
  BY <1>2
<1> HIDE DEF f
<1>4. enriched' \subseteq Enriched
  BY <1>1, <1>3
<1>5. {j.who : j \in enriched'} = {j.who : j \in labeled}
  BY <1>1, <1>3
<1>6. IsFiniteSet({f[j] : j \in labeled})
  BY ImageFinite DEF FinitePart
<1> QED
  BY <1>1, <1>4, <1>5, <1>6 DEF FinitePart

LEMMA TextsTyped ==
  ASSUME setting \in Settings, FinitePart(labeled, Labeled), NEW p \in Procs, Texts(p) \/ TextsSkipped(p)
  PROVE  FinitePart(enriched', Enriched)
<1>1. PICK from : enriched' = {Described(j, HasText(j, from)) : j \in Wanted}
  <2>1. CASE Texts(p)
    BY <2>1 DEF Texts
  <2>2. CASE TextsSkipped(p)
    <3>1. \A j : Described(j, HasText(j, {})) = Described(j, FALSE)
      BY DEF Described, HasText
    <3>2. enriched' = {Described(j, HasText(j, {})) : j \in Wanted}
      BY <2>2, <3>1 DEF TextsSkipped
    <3> QED
      BY <3>2
  <2> QED
    BY <2>1, <2>2
<1> DEFINE f == [j \in Wanted |-> Described(j, HasText(j, from))]
<1>2. enriched' = {f[j] : j \in Wanted}
  BY <1>1
<1>3. \A j \in Wanted : Described(j, HasText(j, from)) \in Enriched
  BY LengthsIs DEF FinitePart, Labeled, Enriched, Described, Wanted
<1>4. enriched' \subseteq Enriched
  BY <1>2, <1>3
<1>5. IsFiniteSet(Wanted)
  BY FS_Subset DEF FinitePart, Wanted
<1> HIDE DEF f
<1>6. IsFiniteSet({f[j] : j \in Wanted})
  BY <1>5, ImageFinite
<1> QED
  BY <1>2, <1>4, <1>6 DEF FinitePart

LEMMA MatchScoreInRange ==
  ASSUME setting \in Settings, NEW j \in Enriched, NEW e
  PROVE  MatchScore(e, j) \in 0 .. 100
<1>1. Site[j.who] \in Listing
  BY SiteIs DEF Enriched
<1>2. Site[j.who].match \in 0 .. 100
  BY <1>1 DEF Listing
<1> QED
  BY <1>2, JobStagesAssumption DEF MatchScore

LEMMA WithAiIs ==
  /\ setting \in Settings =>
        \A j \in Enriched : \A ai \in 0 .. 100 : WithAi(j, ai) \in Augmenteds /\ WithAi(j, ai).who = j.who
  /\ setting \in Settings => \A j \in Enriched : WithAi(j, None) \in Rows /\ WithAi(j, None).who = j.who
  /\ setting \in Settings => Augmenteds \subseteq Rows
<1>1. \A j, ai : /\ WithAi(j, ai).who = j.who /\ WithAi(j, ai).chars = j.chars
                 /\ WithAi(j, ai) = [who |-> j.who, relevance |-> j.relevance, chars |-> j.chars,
                                     status |-> j.status, ai |-> ai]
  BY DEF WithAi
<1>2. ASSUME setting \in Settings, NEW j \in Enriched, NEW ai \in 0 .. 100
      PROVE  WithAi(j, ai) \in Augmenteds
  BY DEF Enriched, Augmenteds, WithAi
<1>3. ASSUME setting \in Settings, NEW j \in Enriched
      PROVE  WithAi(j, None) \in Rows
  BY <1>3, LengthsIs DEF Enriched, Rows, WithAi
<1>4. ASSUME setting \in Settings PROVE Augmenteds \subseteq Rows
  BY <1>4, LengthsIs DEF Augmenteds, Rows
<1> QED
  BY <1>1, <1>2, <1>3, <1>4

\* The rows that score_jobs ranks.
InputTyped(js) == FinitePart(js, Rows) /\ \A j \in js : j.chars \in Lengths

LEMMA InputIs ==
  ASSUME setting \in Settings, FilesTyped, NEW p \in Procs, prog[p] = "score", HasInput(p)
  PROVE  InputTyped(Input(p))
<1>1. CASE p = "daily" /\ setting.ai
  <2>1. Input(p) = aiFile /\ aiFile # Absent
    BY <1>1 DEF Input, HasInput
  <2>2. \A j \in Augmenteds : j.chars \in Lengths
    BY DEF Augmenteds
  <2> QED
    BY <2>1, <2>2, WithAiIs DEF InputTyped, FinitePart, FilesTyped
<1>2. CASE ~(p = "daily" /\ setting.ai)
  <2> DEFINE f == [j \in enriched |-> WithAi(j, None)]
  <2>1. enriched # Absent
    BY <1>2 DEF HasInput
  <2>2. Input(p) = {f[j] : j \in enriched}
    BY <1>2 DEF Input
  <2>3. FinitePart(enriched, Enriched)
    BY <2>1 DEF FilesTyped
  <2>4. \A j \in enriched : WithAi(j, None) \in Rows /\ WithAi(j, None).chars \in Lengths
    BY <2>3, WithAiIs DEF FinitePart, Enriched, WithAi
  <2>5. \A j \in enriched : f[j] \in Rows /\ f[j].chars \in Lengths
    BY <2>4
  <2> HIDE DEF f
  <2>6. IsFiniteSet({f[j] : j \in enriched})
    BY <2>3, ImageFinite DEF FinitePart
  <2> QED
    BY <2>2, <2>5, <2>6 DEF InputTyped, FinitePart
<1> QED
  BY <1>1, <1>2

LEMMA RankingTypedOf ==
  ASSUME setting \in Settings, NEW js, InputTyped(js)
  PROVE  RankingTyped(Ranking(js))
<1>1. js \in SUBSET Rows /\ IsFiniteSet(js)
  BY DEF InputTyped, FinitePart
<1>2. /\ IsRanking(Ranking(js))
      /\ \A e \in Members(Ranking(js)) : \E w \in KeptOf(js) : e.who = w.who /\ e.chars = w.chars
  BY <1>1, RankingOf
<1>3. \A w \in KeptOf(js) : \E j \in js : w.chars = j.chars
  BY <1>1, WholeIs DEF KeptOf, Kept, UsFiltered
<1> QED
  BY <1>2, <1>3 DEF RankingTyped, InputTyped

LEMMA InHandSteps ==
  ASSUME prog = [q \in Procs |-> prog[q]], setting \in Settings, FilesTyped, Handling,
         NEW p \in Procs, Step(p)
  PROVE  Handling'
<1> DEFINE Alike(q) == prog'[q] = prog[q] /\ todo'[q] = todo[q] /\ got'[q] = got[q] /\ out'[q] = out[q]
<1>1. setting' = setting /\ Postings' = Postings /\ Lengths' = Lengths
      /\ Enriched' = Enriched /\ Augmenteds' = Augmenteds
  BY Frames DEF Postings, Lengths, Enriched, Augmenteds, Site
<1>2. prog' = [q \in Procs |-> prog'[q]] /\ \A q \in Procs \ {p} : prog'[q] = prog[q]
  BY Moves
<1>3. ASSUME NEW q \in Procs, Alike(q) PROVE InHand(q)'
  BY <1>1, <1>3 DEF Handling, InHand
<1>4. InHand(p)
  BY DEF Handling
<1>5. ASSUME \A q \in Procs \ {p} : Alike(q), InHand(p)',
             todo' = [q \in Procs |-> todo'[q]], got' = [q \in Procs |-> got'[q]],
             out' = [q \in Procs |-> out'[q]]
      PROVE  Handling'
  BY <1>3, <1>5 DEF Handling
<1>6. CASE Stops(p)
  <2>1. /\ prog' = [prog EXCEPT ![p] = "idle"] /\ todo' = [todo EXCEPT ![p] = {}]
        /\ got' = [got EXCEPT ![p] = None] /\ out' = [out EXCEPT ![p] = {}]
    BY <1>6 DEF Stops
  <2>2. prog'[p] = "idle" /\ got'[p] = None /\ out'[p] = {}
    BY <2>1 DEF Handling
  <2>3. InHand(p)'
    BY <2>2 DEF InHand
  <2> QED
    BY <1>2, <1>5, <2>1, <2>3 DEF Handling
<1>7. CASE Augment(p)
  <2>1. /\ prog[p] = "augment" /\ enriched # Absent /\ prog'[p] = "augmenting"
        /\ todo' = [todo EXCEPT ![p] = enriched] /\ UNCHANGED <<got, out>>
    BY <1>7, Moves DEF Augment, HasInput
  <2>2. todo'[p] = enriched /\ got'[p] = None /\ out'[p] = {}
    BY <1>4, <2>1 DEF Handling, InHand, Loops
  <2>3. FinitePart(enriched, Enriched) /\ IsFiniteSet({})
    BY <2>1, FS_EmptySet DEF FilesTyped
  <2>4. InHand(p)'
    BY <1>1, <2>1, <2>2, <2>3 DEF InHand, FinitePart
  <2> QED
    BY <1>2, <1>5, <2>1, <2>4 DEF Handling
<1>8. CASE ReadEntry(p)
  <2>1. PICK j \in todo[p] : got' = [got EXCEPT ![p] = [job |-> j, entry |-> answers[KeyOf(j)]]]
    BY <1>8 DEF ReadEntry
  <2>2. prog[p] \in Loops /\ UNCHANGED <<prog, todo, out>>
    BY <1>8 DEF ReadEntry
  <2>3. got'[p].job = j
    BY <2>1 DEF Handling
  <2>4. InHand(p)'
    BY <1>1, <1>4, <2>2, <2>3 DEF InHand
  <2> QED
    BY <1>2, <1>5, <2>1, <2>2, <2>4 DEF Handling
<1>9. CASE SaveEntry(p)
  <2>1. /\ prog[p] = "augmenting" /\ got[p] # None /\ prog'[p] = "augmenting"
        /\ todo' = [todo EXCEPT ![p] = @ \ {got[p].job}] /\ got' = [got EXCEPT ![p] = None]
    BY <1>9, Moves DEF SaveEntry
  <2>2. PICK e : out' = [out EXCEPT ![p] = @ \cup {WithAi(got[p].job, MatchScore(e, got[p].job))}]
    BY <1>9 DEF SaveEntry
  <2>3. todo'[p] \subseteq todo[p] /\ got'[p] = None
        /\ out'[p] = out[p] \cup {WithAi(got[p].job, MatchScore(e, got[p].job))}
    BY <2>1, <2>2 DEF Handling
  <2>4. got[p].job \in Enriched
    BY <1>4, <2>1 DEF InHand
  <2>5. WithAi(got[p].job, MatchScore(e, got[p].job)) \in Augmenteds
    BY <2>4, MatchScoreInRange, WithAiIs
  <2>6. FinitePart(out'[p], Augmenteds)
    BY <1>4, <2>1, <2>3, <2>5, FS_AddElement DEF InHand, FinitePart
  <2>7. InHand(p)'
    BY <1>1, <1>4, <2>1, <2>3, <2>6 DEF InHand, FinitePart
  <2> QED
    BY <1>2, <1>5, <2>1, <2>2, <2>7 DEF Handling
<1>10. CASE WriteAiFile(p)
  <2>1. /\ prog[p] = "augmenting" /\ got[p] = None /\ prog'[p] \notin Loops
        /\ out' = [out EXCEPT ![p] = {}] /\ UNCHANGED <<todo, got>>
    BY <1>10, Moves DEF WriteAiFile, work, After, Following, Loops
  <2>2. InHand(p)'
    BY <2>1 DEF Handling, InHand, Loops
  <2> QED
    BY <1>2, <1>5, <2>1, <2>2 DEF Handling
<1>11. CASE PutKit(p)
  <2>1. /\ prog[p] = "kitting" /\ prog'[p] = "kitting" /\ out' = out
        /\ todo' = [todo EXCEPT ![p] = @ \ {got[p].job}] /\ got' = [got EXCEPT ![p] = None]
    BY <1>11, Moves DEF PutKit
  <2>2. InHand(p)'
    BY <1>4, <2>1 DEF Handling, InHand
  <2> QED
    BY <1>2, <1>5, <2>1, <2>2 DEF Handling
<1>12. CASE Scores(p)
  <2>1. prog[p] = "score" /\ prog'[p] # "augmenting" /\ UNCHANGED <<got, out>>
    BY <1>12, Moves DEF Scores, Score
  <2>2. todo' = [q \in Procs |-> todo'[q]] /\ \A q \in Procs \ {p} : todo'[q] = todo[q]
    <3>1. PICK marks : Score(p, marks)
      BY <1>12 DEF Scores
    <3>2. todo' = todo \/ \E left : todo' = [todo EXCEPT ![p] = left]
      BY <3>1 DEF Score
    <3> QED
      BY <3>2 DEF Handling
  <2>3. InHand(p)'
    BY <1>4, <2>1 DEF Handling, InHand, Loops
  <2> QED
    BY <1>2, <1>5, <2>1, <2>2, <2>3 DEF Handling
<1>13. ASSUME ~Stops(p), ~Augment(p), ~ReadEntry(p), ~SaveEntry(p), ~WriteAiFile(p), ~PutKit(p), ~Scores(p)
       PROVE  Handling'
  <2>1. UNCHANGED <<todo, got, out>>
    BY <1>13, Frames
  <2>2. prog'[p] # "augmenting" /\ (KitsDone(p) \/ prog[p] \notin Loops)
    BY <1>13, Moves DEF Step, Scores, Compares, StartsBriefs, After, Following, Loops
  <2>3. got[p] = None /\ prog[p] # "augmenting"
    BY <1>4, <2>2, Moves DEF InHand, KitsDone, Loops
  <2>4. InHand(p)'
    BY <1>4, <2>1, <2>2, <2>3 DEF InHand
  <2> QED
    BY <1>2, <1>5, <2>1, <2>4 DEF Handling
<1> QED
  BY <1>6, <1>7, <1>8, <1>9, <1>10, <1>11, <1>12, <1>13

LEMMA FilesTypedStep ==
  ASSUME prog = [q \in Procs |-> prog[q]], setting \in Settings, FilesTyped, Handling,
         NEW p \in Procs, Step(p)
  PROVE  FilesTyped'
<1>1. /\ setting' = setting /\ raw' = raw /\ Postings' = Postings /\ Labeled' = Labeled
      /\ Enriched' = Enriched /\ Augmenteds' = Augmenteds
      /\ \A list : RankingTyped(list)' <=> RankingTyped(list)
  <2>1. setting' = setting /\ raw' = raw
    BY Frames
  <2>2. Site' = Site
    BY <2>1 DEF Site
  <2>3. Postings' = Postings /\ Lengths' = Lengths
    BY <2>2 DEF Postings, Lengths
  <2>4. Labeled' = Labeled /\ Enriched' = Enriched /\ Augmenteds' = Augmenteds
    BY <2>3 DEF Labeled, Enriched, Augmenteds
  <2>5. \A list : RankingTyped(list)' <=> RankingTyped(list)
    <3>1. ListEntries' = ListEntries
      BY <2>2, <2>3 DEF ListEntries
    <3> QED
      BY <2>3, <3>1 DEF RankingTyped, IsRanking
  <2> QED
    BY <2>1, <2>3, <2>4, <2>5
<1>2. labeled' = Absent \/ FinitePart(labeled', Labeled)
  BY Frames, ClassifyTyped DEF FilesTyped
<1>3. enriched' = Absent \/ FinitePart(enriched', Enriched)
  <2>1. CASE Enrich(p) \/ Texts(p) \/ TextsSkipped(p)
    <3>1. labeled # Absent
      BY <2>1 DEF Enrich, Texts, TextsSkipped, HasInput
    <3> QED
      BY <2>1, <3>1, EnrichTyped, TextsTyped DEF FilesTyped
  <2> QED
    BY <2>1, Frames DEF FilesTyped
<1>4. aiFile' = Absent \/ FinitePart(aiFile', Augmenteds)
  <2>1. CASE WriteAiFile(p)
    <3>1. prog[p] = "augmenting" /\ aiFile' = out[p]
      BY <2>1 DEF WriteAiFile
    <3> QED
      BY <3>1 DEF Handling, InHand
  <2> QED
    BY <2>1, Frames DEF FilesTyped
<1>5. RankingTyped(ranking')
  <2>1. ASSUME NEW marks, Score(p, marks) PROVE RankingTyped(ranking')
    <3>1. ranking' = Ranking(Input(p)) /\ prog[p] = "score" /\ HasInput(p)
      BY <2>1 DEF Score
    <3> QED
      BY <3>1, InputIs, RankingTypedOf
  <2> QED
    BY <2>1, Frames DEF FilesTyped, Scores
<1> QED
  BY <1>1, <1>2, <1>3, <1>4, <1>5 DEF FilesTyped

-----------------------------------------------------------------------------
(* What always holds of the files.                                         *)

\* What by hand is run is one of the programs.
OperatorType == setting \in Settings /\ prog = [p \in Procs |-> prog[p]] /\ prog["operator"] \notin OfDaily

Typed == OperatorType /\ FilesTyped /\ Handling

LEMMA StartIs ==
  ASSUME Typed,
         (\E listed \in setting.listings : StartDaily(listed))
            \/ (\E program \in setting.byHand : StartByHand(program))
  PROVE  /\ UNCHANGED <<setting, labeled, enriched, aiFile, ranking, report, lastRanked, compared, todo,
                        got, out, briefing, briefs, shown, blanked, told, excused>>
         /\ raw' \subseteq Postings
         /\ prog' = [p \in Procs |-> prog'[p]]
         /\ \A p \in Procs : prog'[p] = prog[p] \/ (prog[p] = "idle" /\ prog'[p] \in Programs)
         /\ prog'["daily"] # prog["daily"] => prog'["daily"] = "classify"
<1>1. ASSUME NEW listed \in setting.listings, StartDaily(listed)
      PROVE  /\ UNCHANGED <<setting, labeled, enriched, aiFile, ranking, report, lastRanked, compared,
                            todo, got, out, briefing, briefs, shown, blanked, told, excused>>
             /\ prog["daily"] = "idle" /\ prog' = [prog EXCEPT !["daily"] = "classify"] /\ raw' = listed
  BY <1>1 DEF StartDaily, outputs, kept, memory, caches, work, telling
<1>2. \A listed \in setting.listings : listed \subseteq Postings
  BY SettingsAssumption DEF Typed, OperatorType, Postings, Site
<1>3. ASSUME NEW program \in setting.byHand, StartByHand(program)
      PROVE  /\ UNCHANGED <<setting, raw, labeled, enriched, aiFile, ranking, report, lastRanked, compared,
                            todo, got, out, briefing, briefs, shown, blanked, told, excused>>
             /\ prog["operator"] = "idle" /\ prog' = [prog EXCEPT !["operator"] = program]
  BY <1>3 DEF StartByHand, outputs, kept, memory, files, caches, work, telling
<1>4. setting.byHand \subseteq Programs
  BY SettingsAssumption DEF Typed, OperatorType
<1>5. CASE \E listed \in setting.listings : StartDaily(listed)
  <2>1. PICK listed \in setting.listings : StartDaily(listed)
    BY <1>5
  <2> QED
    BY <1>1, <1>2, <2>1 DEF Typed, OperatorType, Procs, Programs
<1>6. CASE \E program \in setting.byHand : StartByHand(program)
  <2>1. PICK program \in setting.byHand : StartByHand(program)
    BY <1>6
  <2> QED
    BY <1>3, <1>4, <2>1 DEF Typed, OperatorType, Procs, FilesTyped
<1> QED
  BY <1>5, <1>6

LEMMA TypedStep ==
  ASSUME Typed, [Next]_vars
  PROVE  Typed'
<1>1. CASE UNCHANGED vars
  <2>1. UNCHANGED <<setting, raw, labeled, enriched, aiFile, ranking, prog, todo, got, out>>
    BY <1>1 DEF vars, files, outputs, process, work
  <2> QED
    <3>1. /\ Postings' = Postings /\ Labeled' = Labeled /\ Enriched' = Enriched
          /\ Augmenteds' = Augmenteds /\ (RankingTyped(ranking)' <=> RankingTyped(ranking))
      BY <2>1 DEF Postings, Lengths, Labeled, Enriched, Augmenteds, Site, RankingTyped, IsRanking,
                  ListEntries
    <3>2. OperatorType' /\ FilesTyped'
      BY <2>1, <3>1 DEF Typed, OperatorType, FilesTyped
    <3>3. ASSUME NEW p \in Procs PROVE InHand(p)'
      BY <2>1, <3>1 DEF Typed, Handling, InHand
    <3>4. Handling'
      BY <2>1, <3>3 DEF Typed, Handling
    <3> QED
      BY <3>2, <3>4 DEF Typed
<1>2. CASE \/ \E listed \in setting.listings : StartDaily(listed)
           \/ \E program \in setting.byHand : StartByHand(program)
  <2>1. /\ UNCHANGED <<setting, labeled, enriched, aiFile, ranking, todo, got, out>>
        /\ raw' \subseteq Postings
        /\ prog' = [p \in Procs |-> prog'[p]]
        /\ \A p \in Procs : prog'[p] = prog[p] \/ (prog[p] = "idle" /\ prog'[p] \in Programs)
    BY <1>2, StartIs
  <2>2. OperatorType'
    BY <2>1 DEF Typed, OperatorType, Procs, Programs, OfDaily
  <2>3. FilesTyped'
    BY <2>1 DEF Typed, FilesTyped, Postings, Lengths, Labeled, Enriched,
                Augmenteds, Site, RankingTyped, IsRanking, ListEntries
  <2>4. Enriched' = Enriched /\ Augmenteds' = Augmenteds
    BY <2>1 DEF Enriched, Augmenteds, Postings, Lengths, Site
  <2>5. ASSUME NEW p \in Procs PROVE InHand(p)'
    BY <2>1, <2>4 DEF Typed, Handling, InHand, Programs, Loops
  <2>6. Handling'
    BY <2>1, <2>5 DEF Typed, Handling
  <2> QED
    BY <2>2, <2>3, <2>6 DEF Typed
<1>3. ASSUME NEW p \in Procs, Step(p) PROVE Typed'
  <2>1. FilesTyped' /\ Handling'
    BY <1>3, FilesTypedStep, InHandSteps DEF Typed, OperatorType
  <2>2. /\ prog' = [q \in Procs |-> prog'[q]] /\ \A q \in Procs \ {p} : prog'[q] = prog[q]
        /\ setting' = setting
    BY <1>3, Moves, Frames DEF Typed, OperatorType
  <2>3. ASSUME p = "operator"
        PROVE  prog'[p] \in {"idle", "augmenting", "kitting", "briefing", prog[p]}
    BY <1>3, <2>3, Moves DEF Typed, OperatorType, OfDaily, Step, Scores, Compares, StartsBriefs, After
  <2>4. OperatorType'
    BY <2>2, <2>3 DEF Typed, OperatorType, Procs, OfDaily
  <2> QED
    BY <2>1, <2>4 DEF Typed
<1> QED
  BY <1>1, <1>2, <1>3 DEF Next

LEMMA TypedAlways == Spec => []Typed
<1>1. Init => Typed
  <2> SUFFICES ASSUME Init PROVE Typed
    OBVIOUS
  <2>1. IsRanking(<<>>)
    BY DEF IsRanking, OnePerId
  <2>2. RankingTyped(ranking) /\ raw \subseteq Postings
    BY <2>1 DEF Init, RankingTyped, Members
  <2> QED
    BY <2>2 DEF Init, Typed, OperatorType, FilesTyped, Handling, InHand, Procs, OfDaily
<1> QED
  BY <1>1, TypedStep, PTL DEF Spec

-----------------------------------------------------------------------------
(* An undisturbed run ranks what the site lists.                           *)

Whos(js) == {j.who : j \in js}

Flowing ==
    ~touched =>
        /\ prog["operator"] = "idle"
        /\ prog["daily"] = "enrich" => Whos(labeled) = raw
        /\ prog["daily"] \in {"augment", "augmenting", "archive", "score"} => Whos(enriched) = raw
        /\ prog["daily"] = "augmenting" => Whos(todo["daily"]) \cup Whos(out["daily"]) = raw
        /\ prog["daily"] \in {"archive", "score"} /\ setting.ai => Whos(aiFile) = raw

LEMMA FlowingStep ==
  ASSUME Typed, Flowing, [Next]_vars
  PROVE  Flowing'
<1>1. CASE UNCHANGED vars
  <2>1. UNCHANGED <<setting, raw, labeled, enriched, aiFile, prog, todo, out, touched>>
    BY <1>1 DEF vars, files, process, work, observed
  <2> QED
    BY <2>1 DEF Flowing, Whos
<1>2. ASSUME NEW listed, StartDaily(listed) PROVE Flowing'
  <2>1. prog["daily"] = "idle" /\ prog' = [prog EXCEPT !["daily"] = "classify"]
        /\ touched' = (prog["operator"] # "idle")
    BY <1>2 DEF StartDaily
  <2>2. prog'["daily"] = "classify" /\ prog'["operator"] = prog["operator"]
    BY <2>1 DEF Typed, OperatorType, Procs
  <2>3. ~touched' => prog["operator"] = "idle"
    BY <2>1, Zenon
  <2> QED
    BY <2>2, <2>3 DEF Flowing
<1>3. ASSUME NEW program, StartByHand(program) PROVE Flowing'
  BY <1>3 DEF StartByHand, Flowing
<1>4. ASSUME NEW p \in Procs, Step(p) PROVE Flowing'
  <2>1. /\ prog' = [q \in Procs |-> prog'[q]] /\ \A q \in Procs \ {p} : prog'[q] = prog[q]
        /\ UNCHANGED <<setting, raw, touched>> /\ prog[p] # "idle"
    BY <1>4, Moves, Frames DEF Typed, OperatorType
  <2>2. SUFFICES ASSUME ~touched PROVE Flowing'
    BY <2>1 DEF Flowing
  <2>3. p = "daily" /\ prog'["operator"] = "idle"
    BY <2>1, <2>2 DEF Flowing, Procs
  <2> USE <2>1, <2>2, <2>3 DEF Flowing
  <2>4. CASE Classify(p)
    <3>1. prog'["daily"] = "enrich"
      BY <1>4, <2>4, Moves DEF After, Following, Typed, OperatorType
    <3>2. Whos(labeled') = raw
      BY <2>4, ClassifyTyped DEF Typed, OperatorType, FilesTyped, Whos
    <3> QED
      BY <3>1, <3>2
  <2>5. CASE Enrich(p)
    <3>1. prog["daily"] = "enrich" /\ prog'["daily"] \in {"augment", "archive"}
          /\ (setting.ai => prog'["daily"] = "augment")
      BY <1>4, <2>5, Moves DEF After, Following, Typed, OperatorType
    <3>2. labeled # Absent
      BY <2>5, <3>1 DEF Enrich, HasInput
    <3>3. Whos(enriched') = raw
      BY <2>5, <3>1, <3>2, EnrichTyped DEF Typed, OperatorType, FilesTyped, Whos
    <3> QED
      BY <3>1, <3>3
  <2>6. CASE Augment(p)
    <3>1. prog["daily"] = "augment" /\ prog'["daily"] = "augmenting"
      BY <1>4, <2>6, Moves DEF Typed, OperatorType
    <3>2. todo'["daily"] = enriched /\ out'["daily"] = {} /\ enriched' = enriched
      BY <2>6, <3>1 DEF Augment, files, Typed, Handling, InHand, Procs
    <3> QED
      BY <3>1, <3>2 DEF Whos
  <2>7. CASE ReadEntry(p)
    <3>1. UNCHANGED <<prog, todo, out, enriched, labeled, aiFile>>
      BY <2>7 DEF ReadEntry, files
    <3> QED
      BY <3>1 DEF Whos
  <2>8. CASE SaveEntry(p)
    <3>1. prog["daily"] = "augmenting" /\ prog'["daily"] = "augmenting" /\ got[p] # None
          /\ todo' = [todo EXCEPT ![p] = @ \ {got[p].job}] /\ UNCHANGED enriched
      BY <1>4, <2>8, Moves DEF Typed, OperatorType, SaveEntry, files
    <3>2. PICK e : out' = [out EXCEPT ![p] = @ \cup {WithAi(got[p].job, MatchScore(e, got[p].job))}]
      BY <2>8 DEF SaveEntry
    <3> DEFINE j == got[p].job
               row == WithAi(j, MatchScore(e, j))
    <3>3. todo'["daily"] = todo["daily"] \ {j} /\ out'["daily"] = out["daily"] \cup {row}
      BY <3>1, <3>2 DEF Typed, Handling, Procs
    <3>4. j \in todo["daily"] /\ row.who = j.who
      BY <3>1 DEF Typed, Handling, InHand, Procs, WithAi
    <3> HIDE DEF j, row
    <3>5. Whos(todo["daily"] \ {j}) \cup Whos(out["daily"] \cup {row})
            = Whos(todo["daily"]) \cup Whos(out["daily"])
      BY <3>4 DEF Whos
    <3> QED
      BY <3>1, <3>3, <3>5
  <2>9. CASE WriteAiFile(p)
    <3>1. prog["daily"] = "augmenting" /\ prog'["daily"] = "archive" /\ todo["daily"] = {}
          /\ aiFile' = out["daily"] /\ UNCHANGED enriched
      BY <1>4, <2>9, Moves DEF Typed, OperatorType, WriteAiFile, After, Following
    <3>2. Whos(aiFile') = raw
      BY <3>1 DEF Whos
    <3> QED
      BY <3>1, <3>2
  <2>10. CASE Archive(p)
    <3>1. prog["daily"] = "archive" /\ prog'["daily"] = "score" /\ UNCHANGED <<enriched, aiFile>>
      BY <1>4, <2>10, Moves DEF Typed, OperatorType, Archive, After, Following
    <3> QED
      BY <3>1 DEF Whos
  <2>11. ASSUME ~Classify(p), ~Enrich(p), ~Augment(p), ~ReadEntry(p), ~SaveEntry(p), ~WriteAiFile(p), ~Archive(p)
         PROVE  prog'["daily"] \notin {"enrich", "augment", "augmenting", "archive", "score"}
    BY <1>4, <2>11, Moves DEF Typed, OperatorType, Step, Scores, Compares, StartsBriefs, After, Following
  <2> QED
    BY <2>4, <2>5, <2>6, <2>7, <2>8, <2>9, <2>10, <2>11
<1> QED
  BY <1>1, <1>2, <1>3, <1>4 DEF Next

LEMMA FlowingAlways == Spec => [](Typed /\ Flowing)
<1>1. Init => Flowing
  BY DEF Init, Flowing, Procs
<1> QED
  BY <1>1, FlowingStep, TypedAlways, PTL DEF Spec

\* What main keeps is what the options leave of the listing.
LEMMA KeptIsExpected ==
  ASSUME setting \in Settings, NEW js, InputTyped(js), Whos(js) = raw
  PROVE  /\ Whos(KeptOf(js)) = Expected(raw)
         /\ \A w \in KeptOf(js) : GroupOf(w) = GroupOf(Site[w.who])
<1> DEFINE ws == Whole(js)
<1>1. /\ \A w \in ws : /\ GroupOf(w) = GroupOf(Site[w.who]) /\ w.us = Site[w.who].us
                       /\ \E j \in js : w.who = j.who
      /\ \A j \in js : \E w \in ws : w.who = j.who
  BY WholeIs DEF InputTyped, FinitePart
<1> HIDE DEF ws
<1>2. Whos(ws) = raw
  BY <1>1 DEF Whos
<1> DEFINE here == {q \in raw : Site[q].us = "us"}
           usOnes == {w \in ws : w.us = "us"}
<1>3. Whos(usOnes) = here
  BY <1>1, <1>2 DEF Whos
<1>4. KeptOf(js) \subseteq ws
  BY DEF KeptOf, Kept, UsFiltered, ws
<1>5. KeptOf(js) = IF setting.us_only /\ usOnes # {} THEN usOnes ELSE ws
  BY DEF KeptOf, Kept, UsFiltered, ws
<1>6. Expected(raw) = IF setting.us_only /\ here # {} THEN here ELSE raw
  BY DEF Expected
<1>7. (usOnes # {}) <=> (here # {})
  BY <1>3 DEF Whos
<1> HIDE DEF usOnes, here
<1> QED
  BY <1>1, <1>2, <1>3, <1>4, <1>5, <1>6, <1>7

LEMMA RankingOfListing ==
  ASSUME setting \in Settings, NEW js, InputTyped(js), Whos(js) = raw
  PROVE  /\ {Ranking(js)[n].who : n \in DOMAIN Ranking(js)} \subseteq Expected(raw)
         /\ \A q \in Expected(raw) :
               Cardinality({n \in DOMAIN Ranking(js) : Ranking(js)[n].job_id =
                        IF Site[q].id # None THEN Site[q].id ELSE Site[q].url}) = 1
<1> DEFINE list == Ranking(js)
<1>1. /\ IsRanking(list)
      /\ \A e \in Members(list) : \E w \in KeptOf(js) : e.who = w.who
      /\ \A w \in KeptOf(js) : \E e \in Members(list) : e.job_id = GroupOf(w)
  BY RankingOf DEF InputTyped, FinitePart
<1>2. Whos(KeptOf(js)) = Expected(raw) /\ \A w \in KeptOf(js) : GroupOf(w) = GroupOf(Site[w.who])
  BY KeptIsExpected
<1> HIDE DEF list
<1>3. {list[n].who : n \in DOMAIN list} \subseteq Expected(raw)
  BY <1>1, <1>2 DEF Members, Whos
<1>4. ASSUME NEW q \in Expected(raw)
      PROVE  Cardinality({n \in DOMAIN list : list[n].job_id = GroupOf(Site[q])}) = 1
  <2>1. PICK w \in KeptOf(js) : w.who = q
    BY <1>2 DEF Whos
  <2>2. PICK e \in Members(list) : e.job_id = GroupOf(Site[q])
    BY <1>1, <1>2, <2>1
  <2>3. PICK k \in DOMAIN list : list[k].job_id = GroupOf(Site[q])
    BY <2>2 DEF Members
  <2>4. {n \in DOMAIN list : list[n].job_id = GroupOf(Site[q])} = {k}
    BY <1>1, <2>3 DEF IsRanking, OnePerId
  <2> QED
    BY <2>4, FS_Singleton
<1> QED
  BY <1>3, <1>4 DEF list, GroupOf

\* A daily run during which nobody ran anything by hand ranks each posting that
\* the site lists and the options keep once.
THEOREM PassesRankTheirListing == Spec => PassRanksItsListing
<1>1. Typed /\ Flowing =>
        [(\E marks \in setting.marks : Score("daily", marks)) /\ ~touched =>
          /\ {ranking'[n].who : n \in DOMAIN ranking'} \subseteq Expected(raw)
          /\ \A q \in Expected(raw) :
                Cardinality({n \in DOMAIN ranking' : ranking'[n].job_id =
                        IF Site[q].id # None THEN Site[q].id ELSE Site[q].url}) = 1]_vars
  <2> SUFFICES ASSUME Typed, Flowing, ~touched, NEW marks, Score("daily", marks)
               PROVE  /\ {ranking'[n].who : n \in DOMAIN ranking'} \subseteq Expected(raw)
                      /\ \A q \in Expected(raw) :
                            Cardinality({n \in DOMAIN ranking' : ranking'[n].job_id =
                                IF Site[q].id # None THEN Site[q].id ELSE Site[q].url}) = 1
    OBVIOUS
  <2>1. ranking' = Ranking(Input("daily")) /\ prog["daily"] = "score" /\ HasInput("daily")
    BY DEF Score
  <2>2. InputTyped(Input("daily"))
    BY <2>1, InputIs DEF Typed, OperatorType, Procs
  <2>3. Whos(Input("daily")) = raw
    <3>1. CASE setting.ai
      BY <2>1, <3>1 DEF Input, Flowing
    <3>2. CASE ~setting.ai
      <4>1. Input("daily") = {WithAi(j, None) : j \in enriched}
        BY <3>2 DEF Input
      <4>2. \A j \in enriched : WithAi(j, None).who = j.who
        BY DEF WithAi
      <4>3. Whos(Input("daily")) = Whos(enriched)
        BY <4>1, <4>2 DEF Whos
      <4> QED
        BY <2>1, <4>3 DEF Flowing
    <3> QED
      BY <3>1, <3>2
  <2> QED
    BY <2>1, <2>2, <2>3, RankingOfListing DEF Typed, OperatorType
<1> QED
  BY <1>1, FlowingAlways, PTL DEF PassRanksItsListing

-----------------------------------------------------------------------------
(* What is remembered was told.                                            *)

\* Postings with a score and an id, no two with the same.
JobSet(js) ==
    /\ IsFiniteSet(js)
    /\ \A e \in js : e.score \in Int /\ e.job_id # None /\ \A f \in js : e.job_id = f.job_id => e = f

\* With ids, the keys of all the comparisons are the ids.
LEMMA KeysAreIds ==
  ASSUME NEW js, JobSet(js), NEW j \in js
  PROVE  LET k == <<j.job_id>>
         IN /\ LegacyIdentity(j) = k /\ At(LegacyIdentity, js, k) = j
            /\ IdentityKey(j) = k /\ At(IdentityKey, js, k) = j
            /\ DeltaKey(j) = k /\ At(DeltaKey, js, k) = j
<1> DEFINE k == <<j.job_id>>
<1>1. \A i \in js : LegacyIdentity(i) = <<i.job_id>> /\ IdentityKey(i) = <<i.job_id>>
                    /\ DeltaKey(i) = <<i.job_id>>
  BY DEF JobSet, LegacyIdentity, IdentityKey, DeltaKey
<1>2. \A i \in js : <<i.job_id>> = k => i = j
  BY DEF JobSet
<1> HIDE DEF k
<1>3. At(LegacyIdentity, js, k) = j
  BY <1>1, <1>2 DEF At, k
<1>4. At(IdentityKey, js, k) = j
  BY <1>1, <1>2 DEF At, k
<1>5. At(DeltaKey, js, k) = j
  BY <1>1, <1>2 DEF At, k
<1> QED
  BY <1>1, <1>3, <1>4, <1>5 DEF k

LEMMA MessageNames ==
  ASSUME NEW c, JobSet(c.prev), JobSet(c.curr), NEW j \in c.curr
  PROVE  \/ j \in Silent(c) \/ j \in Told(c)
         \/ \E i \in c.prev : i.job_id = j.job_id /\ Content(i) = Content(j)
<1> DEFINE k == <<j.job_id>>
           diff == Diff(c.prev, c.curr)
           reported == DiffReport(c.prev, c.curr, c.marks)
           message == Message(c.prev, c.curr, c.marks, c.first)
<1>1. SUFFICES ASSUME j \notin Silent(c),
                      \A i \in c.prev : i.job_id = j.job_id => Content(i) # Content(j)
               PROVE  j \in Told(c)
  OBVIOUS
<1>2. LegacyIdentity(j) = k /\ At(LegacyIdentity, c.curr, k) = j /\ At(IdentityKey, c.curr, k) = j
      /\ IdentityKey(j) = k
  BY KeysAreIds
<1>3. j.score >= MinAlert /\ j.job_id \notin c.marks.ignored
      /\ (j.job_id \in c.marks.applied => k \notin Added(LegacyIdentity, c.prev, c.curr))
  <2>1. j.score \in Int /\ MinAlert \in Int
    BY JobDiffAssumption DEF JobSet
  <2> HIDE DEF k
  <2> QED
    BY <1>1, <1>2, <2>1 DEF Silent
<1> HIDE DEF k
<1>4. k \in KeysOf(LegacyIdentity, c.curr) /\ k \in KeysOf(IdentityKey, c.curr)
  BY <1>2 DEF KeysOf
<1>5. k \notin Ignored(c.marks, c.curr)
  <2>1. \A id \in c.marks.ignored : <<id>> # k
    BY <1>3 DEF k
  <2> QED
    BY <2>1 DEF Ignored
<1>6. CASE k \in Added(LegacyIdentity, c.prev, c.curr)
  <2>1. k \notin Suppressed(c.marks, c.curr)
    <3>1. \A id \in c.marks.ignored \cup c.marks.applied : <<id>> # k
      BY <1>3, <1>6 DEF k
    <3> QED
      BY <3>1 DEF Suppressed
  <2>2. k \in Added(IdentityKey, c.prev, c.curr)
    <3>1. \A i \in c.prev : LegacyIdentity(i) = IdentityKey(i)
      BY KeysAreIds
    <3>2. \A i \in c.prev : LegacyIdentity(i) # k
      BY <1>6 DEF Added, KeysOf
    <3> QED
      BY <1>4, <3>1, <3>2 DEF Added, KeysOf
  <2>3. k \in reported.added
    BY <1>5, <2>2 DEF DiffReport
  <2>4. ShouldNotify(reported, c.first)
    BY <2>3 DEF ShouldNotify
  <2>5. diff.new = Added(LegacyIdentity, c.prev, c.curr)
    BY DEF Diff
  <2>6. message.new = AtAlertLevel(diff.new \ Suppressed(c.marks, c.curr), c.curr)
    BY <2>4 DEF Message
  <2>7. k \in message.new
    BY <1>2, <1>3, <1>6, <2>1, <2>5, <2>6 DEF AtAlertLevel
  <2> QED
    BY <1>2, <2>7 DEF Told
<1>7. CASE k \notin Added(LegacyIdentity, c.prev, c.curr)
  <2>1. k \in KeysOf(LegacyIdentity, c.prev)
    BY <1>4, <1>7 DEF Added
  <2>2. PICK i \in c.prev : LegacyIdentity(i) = k
    BY <2>1 DEF KeysOf
  <2>3. /\ i.job_id = j.job_id /\ At(LegacyIdentity, c.prev, k) = i /\ At(IdentityKey, c.prev, k) = i
        /\ IdentityKey(i) = k
    <3>1. LegacyIdentity(i) = <<i.job_id>> /\ At(LegacyIdentity, c.prev, <<i.job_id>>) = i
          /\ At(IdentityKey, c.prev, <<i.job_id>>) = i /\ IdentityKey(i) = <<i.job_id>>
      BY KeysAreIds
    <3>2. k = <<i.job_id>>
      BY <2>2, <3>1
    <3>3. i.job_id = j.job_id
      BY <3>2 DEF k
    <3> QED
      BY <3>1, <3>2, <3>3
  <2>4. Content(i) # Content(j)
    BY <1>1, <2>3
  <2>5. ReportFields(i) # ReportFields(j)
    BY <2>4 DEF Content, ReportFields
  <2>6. k \in Changed(LegacyIdentity, Content, c.prev, c.curr)
    BY <1>2, <1>4, <2>1, <2>3, <2>4 DEF Changed
  <2>7. k \in KeysOf(IdentityKey, c.prev)
    BY <2>3 DEF KeysOf
  <2>8. k \in Changed(IdentityKey, ReportFields, c.prev, c.curr)
    BY <1>2, <1>4, <2>3, <2>5, <2>7 DEF Changed
  <2>9. k \in reported.changed
    BY <1>5, <2>8 DEF DiffReport
  <2>10. ShouldNotify(reported, c.first)
    BY <2>9 DEF ShouldNotify
  <2>11. diff.changed = Changed(LegacyIdentity, Content, c.prev, c.curr)
    BY DEF Diff
  <2>12. message.changed = AtAlertLevel(diff.changed \ Ignored(c.marks, c.curr), c.curr)
    BY <2>10 DEF Message
  <2>13. k \in message.changed
    BY <1>2, <1>3, <1>5, <2>6, <2>11, <2>12 DEF AtAlertLevel
  <2> QED
    BY <1>2, <2>13 DEF Told
<1> QED
  BY <1>6, <1>7

Covered(js) == ContentOf(js) \subseteq told \cup excused

\* What a run compares its ranking with.
Baseline == IF Earlier = Absent THEN {} ELSE Members(Earlier)

\* Between the comparison and the message.
Untold == {"insights", "briefs", "briefing", "post"}

Comparing ==
    prog["daily"] \in Untold =>
        /\ compared.curr = Members(compared.list)
        /\ JobSet(compared.curr) /\ JobSet(compared.prev)
        /\ setting.webhook => Covered(compared.prev)
        /\ prog["daily"] = "insights" => compared.prev = Baseline

Remembered ==
    /\ report # Absent => JobSet(Members(report.ranked))
    /\ lastRanked # Absent => JobSet(Members(lastRanked))
    /\ setting.webhook =>
          /\ report # Absent => Covered(Members(report.ranked))
          /\ lastRanked # Absent \/ prog["daily"] = "report" => Covered(Members(lastRanked))

LEMMA RankingIsJobSet ==
  ASSUME NEW list, IsRanking(list)
  PROVE  JobSet(Members(list))
<1>1. \A n \in DOMAIN list : list[n] \in ListEntries
  BY LenProperties DEF IsRanking
<1>2. \A e \in ListEntries : e.score \in Int /\ e.job_id \in Identifiers
  BY DEF ListEntries
<1>3. \A n \in DOMAIN list : list[n].score \in Int /\ list[n].job_id # None
  BY <1>1, <1>2, ScoringAssumption
<1>4. IsFiniteSet(Members(list))
  <2>1. DOMAIN list = 1 .. Len(list) /\ Len(list) \in Nat
    BY LenProperties DEF IsRanking
  <2>2. IsFiniteSet(DOMAIN list)
    BY <2>1, FS_Interval
  <2> QED
    BY <2>2, ImageFinite DEF Members
<1> QED
  BY <1>3, <1>4 DEF JobSet, Members, IsRanking, OnePerId

LEMMA CoveredStays ==
  ASSUME told \subseteq told', excused \subseteq excused', NEW js, Covered(js)
  PROVE  ContentOf(js) \subseteq told' \cup excused'
  BY DEF Covered

LEMMA PostCovers ==
  ASSUME Comparing, setting.webhook, NEW p \in Procs, prog["daily"] = "post", Post(p)
  PROVE  ContentOf(compared.curr) \subseteq told' \cup excused'
<1>1. /\ told' = told \cup ContentOf(Told(compared))
      /\ excused' = excused \cup ContentOf(Silent(compared))
  BY DEF Post
<1>2. JobSet(compared.curr) /\ JobSet(compared.prev) /\ Covered(compared.prev)
  BY DEF Comparing, Untold
<1> DEFINE Of(j) == <<j.job_id, j.title, j.us, j.chars>>
<1>3. SUFFICES ASSUME NEW j \in compared.curr PROVE Of(j) \in told' \cup excused'
  BY DEF ContentOf
<1>4. CASE j \in Silent(compared)
  BY <1>1, <1>4 DEF ContentOf
<1>5. CASE j \in Told(compared)
  BY <1>1, <1>5 DEF ContentOf
<1>6. CASE \E i \in compared.prev : i.job_id = j.job_id /\ Content(i) = Content(j)
  <2>1. PICK i \in compared.prev : i.job_id = j.job_id /\ Content(i) = Content(j)
    BY <1>6
  <2>2. Of(i) \in told \cup excused
    BY <1>2, <2>1 DEF Covered, ContentOf
  <2>3. i.title = j.title /\ i.us = j.us /\ i.chars = j.chars
    BY <2>1 DEF Content
  <2>4. Of(i) = Of(j)
    BY <2>1, <2>3
  <2> QED
    BY <1>1, <2>2, <2>4
<1> QED
  BY <1>2, <1>4, <1>5, <1>6, MessageNames

LEMMA RememberedStep ==
  ASSUME Typed, Comparing, Remembered, [Next]_vars
  PROVE  Comparing' /\ Remembered'
<1>1. CASE UNCHANGED vars
  <2>1. UNCHANGED <<setting, report, lastRanked, compared, prog, told, excused>>
    BY <1>1 DEF vars, files, kept, memory, process, observed, telling
  <2> QED
    BY <2>1 DEF Comparing, Remembered, Covered, Baseline, Earlier
<1>2. CASE \/ \E listed \in setting.listings : StartDaily(listed)
           \/ \E program \in setting.byHand : StartByHand(program)
  <2>1. /\ UNCHANGED <<setting, report, lastRanked, compared, told, excused>>
        /\ prog'["daily"] # prog["daily"] => prog'["daily"] = "classify"
    BY <1>2, StartIs
  <2> QED
    BY <2>1 DEF Comparing, Remembered, Covered, Untold, Baseline, Earlier
<1>3. ASSUME NEW p \in Procs, Step(p) PROVE Comparing' /\ Remembered'
  <2>1. /\ prog' = [q \in Procs |-> prog'[q]] /\ \A q \in Procs \ {p} : prog'[q] = prog[q]
        /\ setting' = setting
    BY <1>3, Moves, Frames DEF Typed, OperatorType
  <2>2. p = "operator" => prog[p] \notin {"post", "report", "compare"}
    BY DEF Typed, OperatorType, OfDaily
  <2>3. CASE Compares(p)
    <3>1. p = "daily" /\ prog["daily"] = "compare"
      BY <1>3, <2>2, <2>3, Moves DEF Procs, Typed, OperatorType
    <3>2. PICK marks : compared' = [first |-> Earlier = Absent, seen |-> lastSeen, marks |-> marks,
                    prev |-> IF Earlier = Absent THEN {} ELSE Members(Earlier),
                    list |-> ranking, curr |-> Members(ranking)]
      BY <2>3 DEF Compares, Compare, Comparison
    <3>3. compared'.prev = (IF Earlier = Absent THEN {} ELSE Members(Earlier))
          /\ compared'.curr = Members(ranking) /\ compared'.list = ranking
      BY <3>2
    <3>4. JobSet(Members(ranking))
      BY RankingIsJobSet DEF Typed, FilesTyped, RankingTyped
    <3>5. Earlier # Absent => JobSet(Members(Earlier)) /\ (setting.webhook => Covered(Members(Earlier)))
      BY DEF Remembered, Earlier
    <3>6. JobSet({}) /\ Covered({})
      BY FS_EmptySet DEF JobSet, Covered, ContentOf
    <3>7. JobSet(compared'.prev) /\ (setting.webhook => Covered(compared'.prev))
      BY <3>3, <3>5, <3>6
    <3>8. UNCHANGED <<report, lastRanked, told, excused>> /\ prog'["daily"] # "report"
      BY <1>3, <2>3, <3>1, Moves DEF Compares, Compare, kept, observed, telling, After, Following, Typed,
                                     OperatorType
    <3>9. Comparing'
      BY <2>1, <3>3, <3>4, <3>7, <3>8 DEF Comparing, Covered, Baseline, Earlier
    <3>10. Remembered'
      BY <2>1, <3>8 DEF Remembered, Covered
    <3> QED
      BY <3>9, <3>10
  <2>4. CASE Post(p)
    <3>1. p = "daily" /\ prog["daily"] = "post" /\ prog'["daily"] = "report"
      BY <1>3, <2>2, <2>4, Moves DEF Procs, After, Following, Typed, OperatorType
    <3>2. lastRanked' = compared.list /\ UNCHANGED report
      BY <2>4 DEF Post, kept
    <3>3. compared.curr = Members(compared.list) /\ JobSet(compared.curr)
      BY <3>1 DEF Comparing, Untold
    <3>4. told \subseteq told' /\ excused \subseteq excused'
      BY <2>4 DEF Post
    <3>5. setting.webhook => ContentOf(Members(lastRanked')) \subseteq told' \cup excused'
      BY <2>4, <3>1, <3>2, <3>3, PostCovers
    <3>6. Remembered'
      BY <2>1, <3>2, <3>3, <3>4, <3>5, CoveredStays DEF Remembered, Covered
    <3>7. Comparing'
      BY <3>1 DEF Comparing, Untold
    <3> QED
      BY <3>6, <3>7
  <2>5. CASE Report(p)
    <3>1. p = "daily" /\ prog["daily"] = "report" /\ prog'["daily"] = "idle"
      BY <1>3, <2>2, <2>5, Moves DEF Procs, After, Following, Typed, OperatorType
    <3>2. UNCHANGED <<lastRanked, told>> /\ report'.ranked = ranking
      BY <2>5 DEF Report, memory
    <3>3. excused' = IF setting.webhook /\ ranking # lastRanked
                     THEN excused \cup ContentOf(Members(ranking)) ELSE excused
      BY <2>5 DEF Report
    <3>4. told \subseteq told' /\ excused \subseteq excused'
      BY <3>2, <3>3
    <3>5. setting.webhook => ContentOf(Members(ranking)) \subseteq told' \cup excused'
      <4>1. CASE ranking = lastRanked
        BY <3>1, <3>2, <3>3, <4>1 DEF Remembered, Covered
      <4>2. CASE ranking # lastRanked
        BY <3>3, <4>2
      <4> QED
        BY <4>1, <4>2
    <3>6. JobSet(Members(ranking))
      BY RankingIsJobSet DEF Typed, FilesTyped, RankingTyped
    <3>7. Remembered'
      BY <2>1, <3>1, <3>2, <3>4, <3>5, <3>6, CoveredStays DEF Remembered, Covered
    <3>8. Comparing'
      BY <3>1 DEF Comparing, Untold
    <3> QED
      BY <3>7, <3>8
  <2>6. CASE Suppress(p)
    <3>1. p = "daily" /\ prog'["daily"] = "report"
      BY <1>3, <2>2, <2>6, Moves DEF Procs, Typed, OperatorType
    <3>2. lastRanked' = ranking /\ UNCHANGED <<report, told>>
      BY <2>6 DEF Suppress, kept
    <3>3. excused' = IF setting.webhook THEN excused \cup ContentOf(Members(ranking)) ELSE excused
      BY <2>6 DEF Suppress
    <3>4. told \subseteq told' /\ excused \subseteq excused'
      BY <3>2, <3>3
    <3>5. setting.webhook => ContentOf(Members(lastRanked')) \subseteq told' \cup excused'
      BY <3>2, <3>3
    <3>6. JobSet(Members(ranking))
      BY RankingIsJobSet DEF Typed, FilesTyped, RankingTyped
    <3>7. Remembered'
      BY <2>1, <3>2, <3>4, <3>5, <3>6, CoveredStays DEF Remembered, Covered
    <3>8. Comparing'
      BY <3>1 DEF Comparing, Untold
    <3> QED
      BY <3>7, <3>8
  <2>7. ASSUME ~Compares(p), ~Post(p), ~Report(p), ~Suppress(p) PROVE Comparing' /\ Remembered'
    <3>1. UNCHANGED <<report, lastRanked, told, excused>>
      BY <1>3, <2>7, Frames
    <3>2. prog'["daily"] = "report" => prog["daily"] = "report"
      BY <1>3, <2>1, <2>7, Moves DEF Procs, Step, Scores, Compares, StartsBriefs, After, Following, Typed,
                                     OperatorType, Loops
    <3>3. prog'["daily"] \in Untold => prog["daily"] \in Untold
      BY <1>3, <2>1, <2>7, Moves DEF Procs, Step, Scores, Compares, StartsBriefs, After, Following, Typed,
                                     OperatorType, Untold, Loops
    <3>4. prog'["daily"] = "insights" => prog["daily"] = "insights"
      BY <1>3, <2>1, <2>7, Moves DEF Procs, Step, Scores, Compares, StartsBriefs, After, Following, Typed,
                                     OperatorType, Loops
    <3>5. prog'["daily"] \in Untold => compared' = compared
      <4>1. CASE Stops(p)
        <5>1. CASE p = "daily"
          BY <1>3, <4>1, <5>1, Moves DEF Untold, Typed, OperatorType
        <5>2. CASE p # "daily"
          BY <4>1, <5>2 DEF Stops
        <5> QED
          BY <5>1, <5>2
      <4> QED
        BY <1>3, <2>7, <4>1, Frames
    <3>6. Remembered'
      BY <2>1, <3>1, <3>2 DEF Remembered, Covered
    <3>7. Comparing'
      BY <2>1, <3>1, <3>3, <3>4, <3>5 DEF Comparing, Covered, Baseline, Earlier
    <3> QED
      BY <3>6, <3>7
  <2> QED
    BY <2>3, <2>4, <2>5, <2>6, <2>7
<1> QED
  BY <1>1, <1>2, <1>3 DEF Next

LEMMA RememberedAlways == Spec => [](Typed /\ Comparing /\ Remembered)
<1>1. Init => Comparing /\ Remembered
  BY DEF Init, Comparing, Remembered, Procs, Untold
<1> QED
  BY <1>1, RememberedStep, TypedAlways, PTL DEF Spec

\* Neither a run that is killed nor the choice of an older list to compare with
\* loses a posting: all that the next run takes for known was told or excused.
THEOREM KnownWasToldAlways == Spec => []KnownWasTold
<1>1. Remembered => KnownWasTold
  BY DEF Remembered, KnownWasTold, Earlier, Covered, ContentOf
<1> QED
  BY <1>1, RememberedAlways, PTL

-----------------------------------------------------------------------------
(* The comparisons agree.                                                  *)

LEMMA KeyedIs ==
  ASSUME NEW A, NEW B
  PROVE  /\ Keyed(A) \ Keyed(B) = Keyed(A \ B)
         /\ Keyed(A) \cap Keyed(B) = Keyed(A \cap B)
         /\ A \subseteq B => Keyed(A) \subseteq Keyed(B)
         /\ \A id : <<id>> \in Keyed(A) <=> id \in A
<1>1. \A m, n : <<m>> = <<n>> => m = n
  OBVIOUS
<1>2. ASSUME NEW k PROVE k \in Keyed(A) \ Keyed(B) <=> k \in Keyed(A \ B)
  BY <1>1, Zenon DEF Keyed
<1>3. ASSUME NEW k PROVE k \in Keyed(A) \cap Keyed(B) <=> k \in Keyed(A \cap B)
  BY <1>1, Zenon DEF Keyed
<1>4. ASSUME A \subseteq B PROVE Keyed(A) \subseteq Keyed(B)
  BY <1>4 DEF Keyed
<1>5. \A id : <<id>> \in Keyed(A) <=> id \in A
  BY <1>1, Zenon DEF Keyed
<1>6. Keyed(A) \ Keyed(B) = Keyed(A \ B)
  BY <1>2
<1>7. Keyed(A) \cap Keyed(B) = Keyed(A \cap B)
  BY <1>3
<1> QED
  BY <1>4, <1>5, <1>6, <1>7

LEMMA KeysOfIds ==
  ASSUME NEW js, JobSet(js)
  PROVE  /\ KeysOf(LegacyIdentity, js) = Keyed(Ids(js))
         /\ KeysOf(IdentityKey, js) = Keyed(Ids(js))
         /\ KeysOf(DeltaKey, js) = Keyed(Ids(js))
<1>1. \A j \in js : /\ LegacyIdentity(j) = <<j.job_id>> /\ IdentityKey(j) = <<j.job_id>>
                    /\ DeltaKey(j) = <<j.job_id>>
  BY KeysAreIds
<1> DEFINE keys == {<<j.job_id>> : j \in js}
<1>2. keys = Keyed(Ids(js))
  BY DEF Keyed, Ids
<1>3. KeysOf(LegacyIdentity, js) = keys
  BY <1>1 DEF KeysOf
<1>4. KeysOf(IdentityKey, js) = keys
  BY <1>1 DEF KeysOf
<1>5. KeysOf(DeltaKey, js) = keys
  BY <1>1 DEF KeysOf
<1> QED
  BY <1>2, <1>3, <1>4, <1>5

\* The postings of two lists that share an id.
LEMMA PairOf ==
  ASSUME NEW prev, NEW curr, JobSet(prev), JobSet(curr), NEW id, id \in Ids(prev), id \in Ids(curr)
  PROVE  \E i \in prev : \E j \in curr :
            /\ At(LegacyIdentity, prev, <<id>>) = i /\ At(LegacyIdentity, curr, <<id>>) = j
            /\ At(IdentityKey, prev, <<id>>) = i /\ At(IdentityKey, curr, <<id>>) = j
            /\ At(DeltaKey, prev, <<id>>) = i /\ At(DeltaKey, curr, <<id>>) = j
            /\ \A m \in prev : \A n \in curr : (m.job_id = id /\ n.job_id = id) <=> (m = i /\ n = j)
<1>1. PICK i \in prev, j \in curr : i.job_id = id /\ j.job_id = id
  BY DEF Ids
<1>2. \A m \in prev : \A n \in curr : (m.job_id = id /\ n.job_id = id) <=> (m = i /\ n = j)
  BY <1>1 DEF JobSet
<1>3. /\ At(LegacyIdentity, prev, <<id>>) = i /\ At(LegacyIdentity, curr, <<id>>) = j
      /\ At(IdentityKey, prev, <<id>>) = i /\ At(IdentityKey, curr, <<id>>) = j
      /\ At(DeltaKey, prev, <<id>>) = i /\ At(DeltaKey, curr, <<id>>) = j
  BY <1>1, KeysAreIds
<1> QED
  BY <1>2, <1>3

\* What is new, and what is gone, is so for every key.
LEMMA AddedAre ==
  ASSUME NEW prev, NEW curr, JobSet(prev), JobSet(curr)
  PROVE  LET new == Keyed(Ids(curr) \ Ids(prev))
         IN /\ Added(LegacyIdentity, prev, curr) = new
            /\ Added(IdentityKey, prev, curr) = new
            /\ Added(DeltaKey, prev, curr) = new
<1>1. /\ KeysOf(LegacyIdentity, prev) = Keyed(Ids(prev)) /\ KeysOf(LegacyIdentity, curr) = Keyed(Ids(curr))
      /\ KeysOf(IdentityKey, prev) = Keyed(Ids(prev)) /\ KeysOf(IdentityKey, curr) = Keyed(Ids(curr))
      /\ KeysOf(DeltaKey, prev) = Keyed(Ids(prev)) /\ KeysOf(DeltaKey, curr) = Keyed(Ids(curr))
  BY KeysOfIds
<1>2. Keyed(Ids(curr)) \ Keyed(Ids(prev)) = Keyed(Ids(curr) \ Ids(prev))
  BY KeyedIs, Zenon
<1> QED
  BY <1>1, <1>2, Zenon DEF Added

\* What has changed is so where the fields differ.
LEMMA ChangedAre ==
  ASSUME NEW prev, NEW curr, JobSet(prev), JobSet(curr)
  PROVE  LET both == Ids(prev) \cap Ids(curr)
         IN /\ Changed(LegacyIdentity, Content, prev, curr) = Keyed(both \ Same(prev, curr, Content))
            /\ Changed(IdentityKey, ReportFields, prev, curr) = Keyed(both \ Same(prev, curr, ReportFields))
            /\ Changed(DeltaKey, DeltaFields, prev, curr) = Keyed(both \ Same(prev, curr, DeltaFields))
            /\ Changed(DeltaKey, InsightFields, prev, curr)
                  \subseteq Keyed(both \ Same(prev, curr, ReportFields))
<1> DEFINE both == Ids(prev) \cap Ids(curr)
<1>1. /\ KeysOf(LegacyIdentity, prev) \cap KeysOf(LegacyIdentity, curr) = Keyed(both)
      /\ KeysOf(IdentityKey, prev) \cap KeysOf(IdentityKey, curr) = Keyed(both)
      /\ KeysOf(DeltaKey, prev) \cap KeysOf(DeltaKey, curr) = Keyed(both)
  <2>1. /\ KeysOf(LegacyIdentity, prev) = Keyed(Ids(prev)) /\ KeysOf(LegacyIdentity, curr) = Keyed(Ids(curr))
        /\ KeysOf(IdentityKey, prev) = Keyed(Ids(prev)) /\ KeysOf(IdentityKey, curr) = Keyed(Ids(curr))
        /\ KeysOf(DeltaKey, prev) = Keyed(Ids(prev)) /\ KeysOf(DeltaKey, curr) = Keyed(Ids(curr))
    BY KeysOfIds
  <2>2. Keyed(Ids(prev)) \cap Keyed(Ids(curr)) = Keyed(both)
    BY KeyedIs, Zenon
  <2> QED
    BY <2>1, <2>2, Zenon
<1>2. \A A, k : k \in Keyed(A) <=> \E id \in A : k = <<id>>
  BY DEF Keyed
<1>3. \A A, id : <<id>> \in Keyed(A) <=> id \in A
  BY KeyedIs
<1>4. Changed(LegacyIdentity, Content, prev, curr) = Keyed(both \ Same(prev, curr, Content))
  <2> DEFINE Differ(k) == Content(At(LegacyIdentity, prev, k)) # Content(At(LegacyIdentity, curr, k))
             same == Same(prev, curr, Content)
  <2>1. ASSUME NEW id \in both PROVE Differ(<<id>>) <=> id \notin same
    <3>1. PICK i \in prev, j \in curr :
             /\ At(LegacyIdentity, prev, <<id>>) = i /\ At(LegacyIdentity, curr, <<id>>) = j
             /\ \A m \in prev : \A n \in curr : (m.job_id = id /\ n.job_id = id) <=> (m = i /\ n = j)
      BY <2>1, PairOf
    <3>2. id \in same <=> Content(i) = Content(j)
      BY <2>1, <3>1 DEF Same
    <3> QED
      BY <3>1, <3>2
  <2>2. Changed(LegacyIdentity, Content, prev, curr) = {k \in Keyed(both) : Differ(k)}
    BY <1>1 DEF Changed
  <2> HIDE DEF both, Differ, same
  <2>3. {k \in Keyed(both) : Differ(k)} = Keyed(both \ same)
    BY <1>2, <1>3, <2>1
  <2> QED
    BY <2>2, <2>3 DEF both, same
<1>5. Changed(IdentityKey, ReportFields, prev, curr) = Keyed(both \ Same(prev, curr, ReportFields))
  <2> DEFINE Differ(k) == ReportFields(At(IdentityKey, prev, k)) # ReportFields(At(IdentityKey, curr, k))
             same == Same(prev, curr, ReportFields)
  <2>1. ASSUME NEW id \in both PROVE Differ(<<id>>) <=> id \notin same
    <3>1. PICK i \in prev, j \in curr :
             /\ At(IdentityKey, prev, <<id>>) = i /\ At(IdentityKey, curr, <<id>>) = j
             /\ \A m \in prev : \A n \in curr : (m.job_id = id /\ n.job_id = id) <=> (m = i /\ n = j)
      BY <2>1, PairOf
    <3>2. id \in same <=> ReportFields(i) = ReportFields(j)
      BY <2>1, <3>1 DEF Same
    <3> QED
      BY <3>1, <3>2
  <2>2. Changed(IdentityKey, ReportFields, prev, curr) = {k \in Keyed(both) : Differ(k)}
    BY <1>1 DEF Changed
  <2> HIDE DEF both, Differ, same
  <2>3. {k \in Keyed(both) : Differ(k)} = Keyed(both \ same)
    BY <1>2, <1>3, <2>1
  <2> QED
    BY <2>2, <2>3 DEF both, same
<1>6. Changed(DeltaKey, DeltaFields, prev, curr) = Keyed(both \ Same(prev, curr, DeltaFields))
  <2> DEFINE Differ(k) == DeltaFields(At(DeltaKey, prev, k)) # DeltaFields(At(DeltaKey, curr, k))
             same == Same(prev, curr, DeltaFields)
  <2>1. ASSUME NEW id \in both PROVE Differ(<<id>>) <=> id \notin same
    <3>1. PICK i \in prev, j \in curr :
             /\ At(DeltaKey, prev, <<id>>) = i /\ At(DeltaKey, curr, <<id>>) = j
             /\ \A m \in prev : \A n \in curr : (m.job_id = id /\ n.job_id = id) <=> (m = i /\ n = j)
      BY <2>1, PairOf
    <3>2. id \in same <=> DeltaFields(i) = DeltaFields(j)
      BY <2>1, <3>1 DEF Same
    <3> QED
      BY <3>1, <3>2
  <2>2. Changed(DeltaKey, DeltaFields, prev, curr) = {k \in Keyed(both) : Differ(k)}
    BY <1>1 DEF Changed
  <2> HIDE DEF both, Differ, same
  <2>3. {k \in Keyed(both) : Differ(k)} = Keyed(both \ same)
    BY <1>2, <1>3, <2>1
  <2> QED
    BY <2>2, <2>3 DEF both, same
<1>7. Changed(DeltaKey, InsightFields, prev, curr) \subseteq Keyed(both \ Same(prev, curr, ReportFields))
  <2> DEFINE Differ(k) == InsightFields(At(DeltaKey, prev, k)) # InsightFields(At(DeltaKey, curr, k))
             same == Same(prev, curr, ReportFields)
  <2>1. ASSUME NEW id \in both PROVE Differ(<<id>>) => id \notin same
    <3>1. PICK i \in prev, j \in curr :
             /\ At(DeltaKey, prev, <<id>>) = i /\ At(DeltaKey, curr, <<id>>) = j
             /\ \A m \in prev : \A n \in curr : (m.job_id = id /\ n.job_id = id) <=> (m = i /\ n = j)
      BY <2>1, PairOf
    <3>2. id \in same <=> ReportFields(i) = ReportFields(j)
      BY <2>1, <3>1 DEF Same
    <3> QED
      BY <3>1, <3>2 DEF InsightFields, ReportFields
  <2>2. Changed(DeltaKey, InsightFields, prev, curr) = {k \in Keyed(both) : Differ(k)}
    BY <1>1 DEF Changed
  <2> HIDE DEF both, Differ, same
  <2>3. {k \in Keyed(both) : Differ(k)} \subseteq Keyed(both \ same)
    BY <1>2, <1>3, <2>1
  <2> QED
    BY <2>2, <2>3 DEF both, same
<1> QED
  BY <1>4, <1>5, <1>6, <1>7

LEMMA IgnoredIs ==
  ASSUME NEW js, JobSet(js), NEW user
  PROVE  /\ Ignored(user, js) = Keyed(Ids(js) \cap user.ignored)
         /\ Suppressed(user, js) = Keyed(Ids(js) \cap (user.ignored \cup user.applied))
<1>1. /\ {<<id>> : id \in user.ignored} = Keyed(user.ignored)
      /\ {<<id>> : id \in user.ignored \cup user.applied} = Keyed(user.ignored \cup user.applied)
  BY DEF Keyed
<1>2. KeysOf(LegacyIdentity, js) = Keyed(Ids(js))
  BY KeysOfIds
<1>3. Keyed(Ids(js)) \cap Keyed(user.ignored) = Keyed(Ids(js) \cap user.ignored)
  BY KeyedIs, Zenon
<1>4. Keyed(Ids(js)) \cap Keyed(user.ignored \cup user.applied)
         = Keyed(Ids(js) \cap (user.ignored \cup user.applied))
  <2> DEFINE marked == user.ignored \cup user.applied
  <2> HIDE DEF marked
  <2>1. Keyed(Ids(js)) \cap Keyed(marked) = Keyed(Ids(js) \cap marked)
    BY KeyedIs, Zenon
  <2> QED
    BY <2>1 DEF marked
<1> QED
  BY <1>1, <1>2, <1>3, <1>4, Zenon DEF Ignored, Suppressed

LEMMA ReportIs ==
  ASSUME NEW prev, NEW curr, JobSet(prev), JobSet(curr), NEW user
  PROVE  LET both == Ids(prev) \cap Ids(curr)
         IN DiffReport(prev, curr, user) =
                [added |-> Keyed((Ids(curr) \ Ids(prev)) \ user.ignored),
                 removed |-> Keyed(Ids(prev) \ Ids(curr)),
                 changed |-> Keyed(both \ (Same(prev, curr, ReportFields) \cup user.ignored))]
<1> DEFINE both == Ids(prev) \cap Ids(curr)
           new == Ids(curr) \ Ids(prev)
           gone == Ids(prev) \ Ids(curr)
           changed == both \ Same(prev, curr, ReportFields)
           hidden == Ids(curr) \cap user.ignored
<1>1. /\ new \ hidden = new \ user.ignored
      /\ changed \ hidden = both \ (Same(prev, curr, ReportFields) \cup user.ignored)
      /\ gone \ hidden = gone
  OBVIOUS
<1>2. /\ Added(IdentityKey, prev, curr) = Keyed(new)
      /\ Added(IdentityKey, curr, prev) = Keyed(gone)
      /\ Changed(IdentityKey, ReportFields, prev, curr) = Keyed(changed)
      /\ Ignored(user, curr) = Keyed(hidden)
  BY AddedAre, ChangedAre, IgnoredIs
<1>3. /\ Keyed(new) \ Keyed(hidden) = Keyed(new \ hidden)
      /\ Keyed(changed) \ Keyed(hidden) = Keyed(changed \ hidden)
      /\ Keyed(gone) \ Keyed(hidden) = Keyed(gone \ hidden)
  <2> HIDE DEF new, changed, gone, hidden
  <2>1. \A A : Keyed(A) \ Keyed(hidden) = Keyed(A \ hidden)
    BY KeyedIs, Zenon
  <2> QED
    BY <2>1, Zenon
<1>4. DiffReport(prev, curr, user) =
         [added |-> Keyed(new \ user.ignored), removed |-> Keyed(gone),
          changed |-> Keyed(both \ (Same(prev, curr, ReportFields) \cup user.ignored))]
  <2>1. DiffReport(prev, curr, user) =
           [added |-> Keyed(new) \ Keyed(hidden), changed |-> Keyed(changed) \ Keyed(hidden),
            removed |-> Keyed(gone) \ Keyed(hidden)]
    BY <1>2, Zenon DEF DiffReport
  <2> QED
    BY <1>1, <1>3, <2>1
<1> QED
  BY <1>4

LEMMA ListsDo ==
  ASSUME NEW c, JobSet(c.prev), JobSet(c.curr)
  PROVE  ListsAgree(c)
<1>1. Diff(c.prev, c.curr) =
         [new |-> Keyed(Ids(c.curr) \ Ids(c.prev)), removed |-> Keyed(Ids(c.prev) \ Ids(c.curr)),
          changed |-> Keyed((Ids(c.prev) \cap Ids(c.curr)) \ Same(c.prev, c.curr, Content))]
  BY AddedAre, ChangedAre DEF Diff
<1>2. c.prev # {} => /\ Delta(c.prev, c.curr).new = Diff(c.prev, c.curr).new
                     /\ Delta(c.prev, c.curr).removed = Diff(c.prev, c.curr).removed
  BY AddedAre DEF Delta, Diff
<1>3. Ignored(c.marks, c.curr) \subseteq Suppressed(c.marks, c.curr)
  BY DEF Ignored, Suppressed
<1>4. LET message == Message(c.prev, c.curr, c.marks, c.first)
          section == ChangesSection(c.prev, c.curr, c.marks)
      IN message.new \subseteq section.new /\ message.changed \subseteq section.changed
  BY <1>3 DEF Message, ChangesSection, AtAlertLevel
<1> QED
  BY <1>1, <1>2, <1>4, ReportIs DEF ListsAgree

\* A sum of zeros and ones counts the ones.
LEMMA SumCounts ==
  ASSUME NEW S, IsFiniteSet(S), NEW f \in [S -> {0, 1}]
  PROVE  FoldFunction(+, 0, f) = Cardinality({k \in S : f[k] = 1})
<1> DEFINE Some(s) == CHOOSE x \in s : TRUE
           Sums(g, s) == IF s = {} THEN 0 ELSE f[Some(s)] + g[s \ {Some(s)}]
           IsSum(g) == g = [s \in SUBSET S |-> Sums(g, s)]
           sum == CHOOSE g : IsSum(g)
           Ones(s) == {k \in s : f[k] = 1}
           count == [s \in SUBSET S |-> Cardinality(Ones(s))]
<1>1. FoldFunction(+, 0, f) = sum[S]
  BY DEF FoldFunction, FoldFunctionOnSet, MapThenFoldSet
<1>2. ASSUME NEW s \in SUBSET S
      PROVE  IsFiniteSet(Ones(s)) /\ Cardinality(Ones(s)) \in Nat
  BY <1>2, FS_Subset, FS_CardinalityType
<1>3. ASSUME NEW s \in SUBSET S, s # {}
      PROVE  Some(s) \in s /\ s \ {Some(s)} \in SUBSET S
  BY <1>3
<1>4. ASSUME NEW s \in SUBSET S, NEW x \in s
      PROVE  Cardinality(Ones(s)) = f[x] + Cardinality(Ones(s \ {x}))
  <2>1. f[x] \in {0, 1} /\ IsFiniteSet(Ones(s \ {x})) /\ Cardinality(Ones(s \ {x})) \in Nat
    BY <1>2
  <2>2. CASE f[x] = 1
    <3>1. Ones(s) = Ones(s \ {x}) \cup {x} /\ x \notin Ones(s \ {x})
      BY <2>2
    <3> HIDE DEF Ones
    <3>2. Cardinality(Ones(s \ {x}) \cup {x}) = Cardinality(Ones(s \ {x})) + 1
      BY <2>1, <3>1, FS_AddElement
    <3> QED
      BY <2>1, <2>2, <3>1, <3>2
  <2>3. CASE f[x] = 0
    <3>1. Ones(s) = Ones(s \ {x})
      BY <2>3
    <3> HIDE DEF Ones
    <3> QED
      BY <2>1, <2>3, <3>1
  <2> QED
    BY <2>1, <2>2, <2>3
<1>5. Cardinality(Ones({})) = 0
  <2>1. Ones({}) = {}
    OBVIOUS
  <2> QED
    BY <2>1, FS_EmptySet
<1> HIDE DEF Some, Ones
<1>6. IsSum(count)
  <2>1. ASSUME NEW s \in SUBSET S PROVE count[s] = Sums(count, s)
    <3>1. CASE s = {}
      BY <1>5, <3>1
    <3>2. CASE s # {}
      BY <1>3, <1>4, <3>2
    <3> QED
      BY <3>1, <3>2
  <2> QED
    BY <2>1
<1> HIDE DEF count
<1>7. IsSum(sum)
  BY <1>6
<1> HIDE DEF sum
<1>8. ASSUME NEW s \in SUBSET S PROVE sum[s] = count[s]
  <2> DEFINE D == {Cardinality(t) : t \in {u \in SUBSET S : sum[u] # count[u]}}
  <2>1. SUFFICES ASSUME sum[s] # count[s] PROVE FALSE
    OBVIOUS
  <2>2. \A u \in SUBSET S : IsFiniteSet(u) /\ Cardinality(u) \in Nat
    BY FS_Subset, FS_CardinalityType
  <2>3. D \in SUBSET Nat /\ D # {}
    BY <2>1, <2>2
  <2>4. PICK m \in D : \A n \in D : m <= n
    BY <2>3, HasLeast
  <2>5. PICK t \in SUBSET S : sum[t] # count[t] /\ m = Cardinality(t)
    BY <2>4
  <2>6. t # {}
    BY <2>5, <1>6, <1>7
  <2>7. /\ Cardinality(t \ {Some(t)}) = m - 1 /\ m \in Nat
        /\ sum[t] = f[Some(t)] + sum[t \ {Some(t)}] /\ count[t] = f[Some(t)] + count[t \ {Some(t)}]
    <3>1. Cardinality(t \ {Some(t)}) = m - 1 /\ m \in Nat
      BY <1>3, <2>2, <2>5, <2>6, FS_RemoveElement
    <3> QED
      BY <1>6, <1>7, <2>6, <3>1
  <2>8. sum[t \ {Some(t)}] # count[t \ {Some(t)}]
    BY <2>5, <2>7
  <2>9. m - 1 \in D
    BY <1>3, <2>6, <2>7, <2>8
  <2> QED
    BY <2>4, <2>7, <2>9
<1> QED
  BY <1>1, <1>8 DEF count, Ones

\* The orders of no posting and of one.
LEMMA OrderOf ==
  /\ Len(InOrder({})) = 0
  /\ \A j : Len(InOrder({j})) = 1 /\ InOrder({j})[1] = j
<1>1. Len(InOrder({})) = 0
  <2> DEFINE Sorted(s) == \A m, n \in DOMAIN s : m < n => s[m].who <= s[n].who
             none == [n \in 1 .. 0 |-> n]
  <2>1. SetToSeqs({}) = [1 .. 0 -> {}]
    BY FS_EmptySet DEF SetToSeqs
  <2>2. none \in SetToSeqs({}) /\ Sorted(none)
    <3>1. \A n \in 1 .. 0 : FALSE
      OBVIOUS
    <3>2. none \in [1 .. 0 -> {}] /\ DOMAIN none = 1 .. 0
      BY <3>1
    <3> HIDE DEF none
    <3> QED
      BY <2>1, <3>1, <3>2
  <2>3. InOrder({}) \in SetToSeqs({})
    BY <2>2 DEF InOrder
  <2>4. InOrder({}) \in Seq({}) /\ DOMAIN InOrder({}) = 1 .. 0
    BY <2>1, <2>3
  <2> QED
    BY <2>4, LenProperties
<1>2. ASSUME NEW j PROVE Len(InOrder({j})) = 1 /\ InOrder({j})[1] = j
  <2> DEFINE Sorted(s) == \A m, n \in DOMAIN s : m < n => s[m].who <= s[n].who
             one == [n \in 1 .. 1 |-> j]
  <2>1. \A f : f \in SetToSeqs({j}) <=> f \in [1 .. 1 -> {j}]
    <3>1. Cardinality({j}) = 1
      BY FS_Singleton
    <3>2. \A m, n \in 1 .. 1 : m = n
      OBVIOUS
    <3> QED
      BY <3>1, <3>2 DEF SetToSeqs
  <2>2. one \in SetToSeqs({j}) /\ Sorted(one)
    BY <2>1
  <2>3. InOrder({j}) \in SetToSeqs({j})
    BY <2>2 DEF InOrder
  <2>4. InOrder({j}) \in [1 .. 1 -> {j}]
    BY <2>1, <2>3
  <2>5. InOrder({j}) \in Seq({j}) /\ DOMAIN InOrder({j}) = 1 .. 1
    BY <2>4, SeqDef
  <2> QED
    BY <2>4, <2>5, LenProperties
<1> QED
  BY <1>1, <1>2

\* Of a list that has no id twice, the group of an id has one posting or none.
LEMMA GroupIs ==
  ASSUME NEW js, JobSet(js), NEW id
  PROVE  /\ id \in Ids(js) => Group(js, <<id>>) = {At(IdentityKey, js, <<id>>)}
         /\ id \notin Ids(js) => Group(js, <<id>>) = {}
<1>1. \A j \in js : IdentityKey(j) = <<j.job_id>>
  BY KeysAreIds
<1>2. ASSUME id \in Ids(js) PROVE Group(js, <<id>>) = {At(IdentityKey, js, <<id>>)}
  <2>1. PICK j \in js : j.job_id = id
    BY <1>2 DEF Ids
  <2>2. At(IdentityKey, js, <<id>>) = j
    BY <2>1, KeysAreIds
  <2>3. \A i \in js : IdentityKey(i) = <<id>> <=> i = j
    BY <1>1, <2>1 DEF JobSet
  <2>4. Group(js, <<id>>) = {j}
    BY <2>3 DEF Group
  <2> QED
    BY <2>2, <2>4
<1>3. ASSUME id \notin Ids(js) PROVE Group(js, <<id>>) = {}
  BY <1>1, <1>3 DEF Group, Ids
<1> QED
  BY <1>2, <1>3

LEMMA GroupSize ==
  ASSUME NEW js, JobSet(js), NEW id
  PROVE  /\ Cardinality(Group(js, <<id>>)) = IF id \in Ids(js) THEN 1 ELSE 0
         /\ Len(InOrder(Group(js, <<id>>))) = IF id \in Ids(js) THEN 1 ELSE 0
<1>1. CASE id \in Ids(js)
  <2>1. PICK j : Group(js, <<id>>) = {j}
    BY <1>1, GroupIs
  <2> QED
    BY <1>1, <2>1, OrderOf, FS_Singleton
<1>2. CASE id \notin Ids(js)
  BY <1>2, GroupIs, OrderOf, FS_EmptySet
<1> QED
  BY <1>1, <1>2

LEMMA IdsFinite ==
  ASSUME NEW js, JobSet(js)
  PROVE  IsFiniteSet(Ids(js))
<1> DEFINE f == [j \in js |-> j.job_id]
<1>1. Ids(js) = {f[j] : j \in js}
  BY DEF Ids
<1> HIDE DEF f
<1> QED
  BY <1>1, ImageFinite DEF JobSet

LEMMA KeyedFinite ==
  ASSUME NEW A, IsFiniteSet(A)
  PROVE  IsFiniteSet(Keyed(A)) /\ Cardinality(Keyed(A)) = Cardinality(A)
<1> DEFINE f == [id \in A |-> <<id>>]
<1>1. f \in Bijection(A, Keyed(A))
  <2>1. \A k \in Keyed(A) : \E id \in A : f[id] = k
    BY DEF Keyed
  <2>2. f \in [A -> Keyed(A)]
    BY DEF Keyed
  <2>3. \A m, n \in A : f[m] = f[n] => m = n
    OBVIOUS
  <2> HIDE DEF f
  <2> QED
    BY <2>1, <2>2, <2>3 DEF Bijection, Injection, Surjection, IsInjective
<1> QED
  BY <1>1, FS_Bijection DEF ExistsBijection

\* No risk is no fewer than seven tenths, and no half that has changed.
LEMMA NoRisk ==
  ASSUME NEW total \in Nat, NEW candidate \in Nat, NEW churned \in Nat, NEW overlap \in Nat,
         NEW changed \in Nat, NEW common \in Nat, total > 0, changed <= common,
         Risk(total, candidate, churned, overlap, changed, common) = 0
  PROVE  /\ 10 * (total - candidate) < 3 * total
         /\ changed > 0 => 2 * changed < common
<1> DEFINE lost == total - candidate
           drop == CASE Reaches(lost, total, 6) -> 40
                     [] Reaches(lost, total, 3) /\ ~Reaches(lost, total, 6) -> 20
                     [] OTHER -> 0
           churn == CASE Reaches(churned, overlap, 3) -> 30
                      [] Reaches(churned, overlap, 1) /\ ~Reaches(churned, overlap, 3) -> 15
                      [] OTHER -> 0
           incomplete == (IF total > 0 /\ candidate = 0 THEN 15 ELSE 0)
                         + (IF candidate = 0 THEN 10 ELSE 0)
           fields == IF Reaches(changed, common, 5) THEN 10 ELSE 0
<1>1. LeastOf(drop + churn + incomplete + fields, 100) = 0
  BY DEF Risk
<1>2. drop \in {0, 20, 40} /\ (drop = 0 => ~Reaches(lost, total, 6) /\ ~Reaches(lost, total, 3))
  OBVIOUS
<1>3. churn \in {0, 15, 30}
  OBVIOUS
<1>4. incomplete \in {0, 10, 15, 25}
  OBVIOUS
<1>5. fields \in {0, 10} /\ (fields = 0 => ~Reaches(changed, common, 5))
  OBVIOUS
<1> HIDE DEF drop, churn, incomplete, fields
<1>6. drop = 0 /\ fields = 0
  BY <1>1, <1>2, <1>3, <1>4, <1>5 DEF LeastOf
<1>7. ~Reaches(lost, total, 3) /\ ~Reaches(changed, common, 5)
  BY <1>2, <1>5, <1>6
<1> QED
  BY <1>7 DEF Reaches

LEMMA CountsDo ==
  ASSUME NEW c, JobSet(c.prev), JobSet(c.curr)
  PROVE  CountsAgree(c)
<1> DEFINE prev == c.prev
           curr == c.curr
           keys == AllKeys(prev, curr)
           Old(k) == Cardinality(Group(prev, k))
           New(k) == Cardinality(Group(curr, k))
           new == Ids(curr) \ Ids(prev)
           gone == Ids(prev) \ Ids(curr)
           both == Ids(prev) \cap Ids(curr)
           changed == both \ Same(prev, curr, DeltaFields)
           came == [k \in keys |-> IF New(k) > Old(k) THEN New(k) - Old(k) ELSE 0]
           went == [k \in keys |-> IF Old(k) > New(k) THEN Old(k) - New(k) ELSE 0]
           pairs == [k \in keys |-> ChangedPairs(prev, curr, k)]
           common == [k \in keys |-> LeastOf(Old(k), New(k))]
           churned == Cardinality(Churn(prev, curr))
           overlap == Cardinality(KeysOf(DeltaFields, prev) \cap KeysOf(DeltaFields, curr))
           risk == Risk(Cardinality(prev), Cardinality(curr), churned, overlap,
                        FoldFunction(+, 0, pairs), FoldFunction(+, 0, common))
<1>1. /\ SafetyDiff(prev, curr).new = FoldFunction(+, 0, came)
      /\ SafetyDiff(prev, curr).removed = FoldFunction(+, 0, went)
      /\ SafetyDiff(prev, curr).changed = FoldFunction(+, 0, pairs)
      /\ SafetyDiff(prev, curr).risk = risk
  BY DEF SafetyDiff, SumOver
<1>2. /\ IsFiniteSet(keys)
      /\ \A k : k \in keys <=> \E id \in Ids(prev) \cup Ids(curr) : k = <<id>>
  <2>1. keys = Keyed(Ids(prev)) \cup Keyed(Ids(curr))
    BY KeysOfIds, Zenon DEF AllKeys
  <2>2. IsFiniteSet(Keyed(Ids(prev))) /\ IsFiniteSet(Keyed(Ids(curr)))
    BY IdsFinite, KeyedFinite
  <2>3. IsFiniteSet(keys)
    BY <2>1, <2>2, FS_Union
  <2>4. \A A, k : k \in Keyed(A) <=> \E id \in A : k = <<id>>
    BY DEF Keyed
  <2> QED
    BY <2>1, <2>3, <2>4
<1>3. ASSUME NEW id
      PROVE  /\ Old(<<id>>) = IF id \in Ids(prev) THEN 1 ELSE 0
             /\ New(<<id>>) = IF id \in Ids(curr) THEN 1 ELSE 0
  BY GroupSize
<1>4. ASSUME NEW id PROVE ChangedPairs(prev, curr, <<id>>) = IF id \in changed THEN 1 ELSE 0
  <2> DEFINE old_ == InOrder(Group(prev, <<id>>))
             new_ == InOrder(Group(curr, <<id>>))
             differ == {n \in 1 .. LeastOf(Len(old_), Len(new_)) :
                           DeltaFields(old_[n]) # DeltaFields(new_[n])}
  <2>1. ChangedPairs(prev, curr, <<id>>) = Cardinality(differ)
    BY DEF ChangedPairs
  <2>2. CASE id \in both
    <3>1. PICK i \in prev, j \in curr :
             /\ At(IdentityKey, prev, <<id>>) = i /\ At(IdentityKey, curr, <<id>>) = j
             /\ \A m \in prev : \A n \in curr : (m.job_id = id /\ n.job_id = id) <=> (m = i /\ n = j)
      BY <2>2, PairOf
    <3>2. id \in changed <=> DeltaFields(i) # DeltaFields(j)
      BY <2>2, <3>1 DEF Same
    <3>3. Group(prev, <<id>>) = {i} /\ Group(curr, <<id>>) = {j}
      BY <2>2, <3>1, GroupIs
    <3>4. Len(old_) = 1 /\ old_[1] = i /\ Len(new_) = 1 /\ new_[1] = j
      BY <3>3, OrderOf
    <3>5. LeastOf(Len(old_), Len(new_)) = 1
      BY <3>4 DEF LeastOf
    <3>6. \A n : n \in differ <=> n = 1 /\ DeltaFields(i) # DeltaFields(j)
      <4> HIDE DEF old_, new_
      <4>1. \A n : n \in 1 .. 1 <=> n = 1
        OBVIOUS
      <4> QED
        BY <3>4, <3>5, <4>1
    <3>7. differ = IF id \in changed THEN {1} ELSE {}
      <4> HIDE DEF differ, changed
      <4> QED
        BY <3>2, <3>6
    <3>8. Cardinality(differ) = IF id \in changed THEN 1 ELSE 0
      <4> HIDE DEF differ, changed
      <4>1. Cardinality({1}) = 1 /\ Cardinality({}) = 0
        BY FS_Singleton, FS_EmptySet
      <4> QED
        BY <3>7, <4>1, Zenon
    <3> QED
      BY <2>1, <3>8, Zenon
  <2>3. CASE id \notin both
    <3>1. Len(old_) = 0 \/ Len(new_) = 0
      BY <2>3, GroupSize
    <3>2. Len(old_) \in {0, 1} /\ Len(new_) \in {0, 1}
      BY GroupSize
    <3>3. LeastOf(Len(old_), Len(new_)) = 0
      BY <3>1, <3>2 DEF LeastOf
    <3>4. differ = {}
      <4>1. \A n \in 1 .. 0 : FALSE
        OBVIOUS
      <4> QED
        BY <3>3, <4>1
    <3> QED
      BY <2>1, <2>3, <3>4, FS_EmptySet
  <2> QED
    BY <2>2, <2>3
<1>5. \A A, k : k \in Keyed(A) <=> \E id \in A : k = <<id>>
  BY DEF Keyed
<1> HIDE DEF keys
<1>6. FoldFunction(+, 0, came) = Cardinality(Keyed(new))
  <2>1. \A id : <<id>> \in keys => (came[<<id>>] = IF id \in new THEN 1 ELSE 0)
    BY <1>3, <1>4 DEF LeastOf
  <2> HIDE DEF came
  <2>2. came \in [keys -> {0, 1}]
    BY <1>2, <2>1 DEF came
  <2>3. {k \in keys : came[k] = 1} = Keyed(new)
    BY <1>2, <1>5, <2>1
  <2> QED
    BY <1>2, <2>2, <2>3, SumCounts
<1>7. FoldFunction(+, 0, went) = Cardinality(Keyed(gone))
  <2>1. \A id : <<id>> \in keys => (went[<<id>>] = IF id \in gone THEN 1 ELSE 0)
    BY <1>3, <1>4 DEF LeastOf
  <2> HIDE DEF went
  <2>2. went \in [keys -> {0, 1}]
    BY <1>2, <2>1 DEF went
  <2>3. {k \in keys : went[k] = 1} = Keyed(gone)
    BY <1>2, <1>5, <2>1
  <2> QED
    BY <1>2, <2>2, <2>3, SumCounts
<1>8. FoldFunction(+, 0, pairs) = Cardinality(Keyed(changed))
  <2>1. \A id : <<id>> \in keys => (pairs[<<id>>] = IF id \in changed THEN 1 ELSE 0)
    BY <1>3, <1>4 DEF LeastOf
  <2> HIDE DEF pairs
  <2>2. pairs \in [keys -> {0, 1}]
    BY <1>2, <2>1 DEF pairs
  <2>3. {k \in keys : pairs[k] = 1} = Keyed(changed)
    BY <1>2, <1>5, <2>1
  <2> QED
    BY <1>2, <2>2, <2>3, SumCounts
<1>9. FoldFunction(+, 0, common) = Cardinality(Keyed(both))
  <2>1. \A id : <<id>> \in keys => (common[<<id>>] = IF id \in both THEN 1 ELSE 0)
    BY <1>3, <1>4 DEF LeastOf
  <2> HIDE DEF common
  <2>2. common \in [keys -> {0, 1}]
    BY <1>2, <2>1 DEF common
  <2>3. {k \in keys : common[k] = 1} = Keyed(both)
    BY <1>2, <1>5, <2>1
  <2> QED
    BY <1>2, <2>2, <2>3, SumCounts
<1>10. prev # {} => /\ Delta(prev, curr).new = Keyed(new) /\ Delta(prev, curr).removed = Keyed(gone)
                   /\ Delta(prev, curr).changed = Keyed(changed)
  BY AddedAre, ChangedAre DEF Delta
<1>11. /\ Cardinality(Keyed(changed)) \in Nat /\ Cardinality(Keyed(both)) \in Nat
       /\ Cardinality(Keyed(changed)) <= Cardinality(Keyed(both))
       /\ Cardinality(Keyed(both)) = Cardinality(both)
  <2>1. IsFiniteSet(both)
    BY IdsFinite, FS_Subset
  <2>2. changed \subseteq both
    OBVIOUS
  <2> HIDE DEF both, changed
  <2>3. /\ IsFiniteSet(changed) /\ Cardinality(changed) <= Cardinality(both)
        /\ Cardinality(changed) \in Nat /\ Cardinality(both) \in Nat
    BY <2>1, <2>2, FS_Subset, FS_CardinalityType
  <2> QED
    BY <2>1, <2>3, KeyedFinite
<1>12. Cardinality(prev) \in Nat /\ Cardinality(curr) \in Nat /\ (prev # {} => Cardinality(prev) > 0)
  BY FS_EmptySet, FS_CardinalityType DEF JobSet
<1>13. churned \in Nat /\ overlap \in Nat
  <2> DEFINE fields == [j \in prev |-> DeltaFields(j)]
  <2>1. KeysOf(DeltaFields, prev) = {fields[j] : j \in prev}
    BY DEF KeysOf
  <2> HIDE DEF fields
  <2>2. IsFiniteSet(KeysOf(DeltaFields, prev))
    BY <2>1, ImageFinite DEF JobSet
  <2>3. /\ Churn(prev, curr) \subseteq KeysOf(DeltaFields, prev)
        /\ KeysOf(DeltaFields, prev) \cap KeysOf(DeltaFields, curr) \subseteq KeysOf(DeltaFields, prev)
    BY DEF Churn
  <2> QED
    BY <2>2, <2>3, FS_Subset, FS_CardinalityType
<1>14. ASSUME prev # {}, risk = 0
       PROVE  /\ 10 * (Cardinality(prev) - Cardinality(curr)) < 3 * Cardinality(prev)
              /\ FoldFunction(+, 0, pairs) > 0 => 2 * FoldFunction(+, 0, pairs) < Cardinality(both)
  <2> HIDE DEF pairs, common, churned, overlap, both, changed, prev, curr
  <2> QED
    BY <1>8, <1>9, <1>11, <1>12, <1>13, <1>14, NoRisk
<1> HIDE DEF came, went, pairs, common, risk, changed
<1> QED
  BY <1>1, <1>6, <1>7, <1>8, <1>10, <1>14 DEF CountsAgree

LEMMA AlertsDo ==
  ASSUME NEW c, JobSet(c.prev), JobSet(c.curr)
  PROVE  AlertsAgree(c)
<1> SUFFICES ASSUME c.seen = LastSeen(c.prev)
             PROVE  LET alerts == MarkedAlerts(Alerts(c.seen, c.curr), c.marks, c.curr)
                        reported == DiffReport(c.prev, c.curr, c.marks)
                    IN /\ alerts.new = reported.added \ Keyed(c.marks.applied)
                       /\ alerts.removed = reported.removed
                       /\ alerts.retitled \subseteq reported.changed
                       /\ ScoreDelta > 0 => alerts.rescored \subseteq reported.changed
  BY DEF AlertsAgree
<1> DEFINE prev == c.prev
           curr == c.curr
           user == c.marks
           new == Ids(curr) \ Ids(prev)
           gone == Ids(prev) \ Ids(curr)
           both == Ids(prev) \cap Ids(curr)
           moved == both \ Same(prev, curr, ReportFields)
           hidden == Ids(curr) \cap user.ignored
           applied == Ids(curr) \cap (user.ignored \cup user.applied)
           alerts == Alerts(c.seen, curr)
           marked == MarkedAlerts(alerts, user, curr)
           reported == DiffReport(prev, curr, user)
           Then(k) == CHOOSE e \in c.seen : e.key = k
           Now(k) == At(LegacyIdentity, curr, k)
<1>1. /\ SeenKeys(c.seen) = Keyed(Ids(prev)) /\ KeysOf(LegacyIdentity, curr) = Keyed(Ids(curr))
      /\ Ignored(user, curr) = Keyed(hidden) /\ Suppressed(user, curr) = Keyed(applied)
  <2>1. SeenKeys(c.seen) = KeysOf(LegacyIdentity, prev)
    <3>1. ASSUME NEW k \in SeenKeys(c.seen) PROVE k \in KeysOf(LegacyIdentity, prev)
      <4>1. PICK e \in c.seen : e.key = k
        BY DEF SeenKeys
      <4>2. PICK j \in prev : e = [key |-> LegacyIdentity(j), score |-> j.score, hash |-> TitleHash(j)]
        BY DEF LastSeen
      <4>3. k = LegacyIdentity(j)
        BY <4>1, <4>2
      <4> QED
        BY <4>3 DEF KeysOf
    <3>2. ASSUME NEW j \in prev PROVE LegacyIdentity(j) \in SeenKeys(c.seen)
      <4> DEFINE e == [key |-> LegacyIdentity(j), score |-> j.score, hash |-> TitleHash(j)]
      <4>1. e \in c.seen /\ e.key = LegacyIdentity(j)
        BY DEF LastSeen
      <4> HIDE DEF e
      <4> QED
        BY <4>1 DEF SeenKeys
    <3>3. \A k \in KeysOf(LegacyIdentity, prev) : \E j \in prev : k = LegacyIdentity(j)
      BY DEF KeysOf
    <3> QED
      BY <3>1, <3>2, <3>3
  <2> QED
    BY <2>1, KeysOfIds, IgnoredIs
<1>2. \A A, B : Keyed(A) \ Keyed(B) = Keyed(A \ B) /\ Keyed(A) \cap Keyed(B) = Keyed(A \cap B)
  BY KeyedIs, Zenon
<1>3. \A A, k : k \in Keyed(A) <=> \E id \in A : k = <<id>>
  BY DEF Keyed
<1>4. /\ reported.added = Keyed(new \ user.ignored) /\ reported.removed = Keyed(gone)
      /\ reported.changed = Keyed(moved) \ Keyed(hidden)
  <2>1. moved \ hidden = both \ (Same(prev, curr, ReportFields) \cup user.ignored)
    OBVIOUS
  <2>2. Keyed(moved) \ Keyed(hidden) = Keyed(moved \ hidden)
    BY <1>2, Zenon
  <2>3. reported = [added |-> Keyed(new \ user.ignored), removed |-> Keyed(gone),
                    changed |-> Keyed(both \ (Same(prev, curr, ReportFields) \cup user.ignored))]
    BY ReportIs
  <2> HIDE DEF reported, moved, hidden, new, gone, both
  <2> QED
    BY <2>1, <2>2, <2>3
<1>5. marked.new = reported.added \ Keyed(user.applied)
  <2>1. marked.new = (Keyed(Ids(curr)) \ Keyed(Ids(prev))) \ Keyed(applied)
    BY <1>1 DEF MarkedAlerts, Alerts
  <2>2. (Keyed(Ids(curr)) \ Keyed(Ids(prev))) \ Keyed(applied) = Keyed(new \ applied)
    <3>1. Keyed(Ids(curr)) \ Keyed(Ids(prev)) = Keyed(new)
      BY <1>2, Zenon
    <3> HIDE DEF new, applied
    <3>2. Keyed(new) \ Keyed(applied) = Keyed(new \ applied)
      BY <1>2, Zenon
    <3> QED
      BY <3>1, <3>2, Zenon
  <2>3. Keyed(new \ user.ignored) \ Keyed(user.applied) = Keyed((new \ user.ignored) \ user.applied)
    BY <1>2, Zenon
  <2>4. new \ applied = (new \ user.ignored) \ user.applied
    OBVIOUS
  <2> QED
    BY <1>4, <2>1, <2>2, <2>3, <2>4
<1>6. marked.removed = reported.removed
  <2>1. marked.removed = (Keyed(Ids(prev)) \ Keyed(Ids(curr))) \ Keyed(hidden)
    BY <1>1 DEF MarkedAlerts, Alerts
  <2>2. (Keyed(Ids(prev)) \ Keyed(Ids(curr))) \ Keyed(hidden) = Keyed(gone \ hidden)
    <3>1. Keyed(Ids(prev)) \ Keyed(Ids(curr)) = Keyed(gone)
      BY <1>2, Zenon
    <3> HIDE DEF gone, hidden
    <3>2. Keyed(gone) \ Keyed(hidden) = Keyed(gone \ hidden)
      BY <1>2, Zenon
    <3> QED
      BY <3>1, <3>2, Zenon
  <2>3. gone \ hidden = gone
    OBVIOUS
  <2> QED
    BY <1>4, <2>1, <2>2, <2>3
<1>7. ASSUME NEW k \in Keyed(Ids(prev)) \cap Keyed(Ids(curr)),
             \/ TitleHash(Now(k)) # Then(k).hash
             \/ ScoreDelta > 0 /\ Abs(Now(k).score - Then(k).score) >= ScoreDelta
      PROVE  k \in Keyed(moved)
  <2>1. PICK id : id \in Ids(prev) /\ id \in Ids(curr) /\ k = <<id>>
    <3>1. k \in Keyed(both)
      BY <1>2, Zenon
    <3> QED
      BY <1>3, <3>1
  <2>2. PICK i \in prev, j \in curr :
           /\ At(LegacyIdentity, curr, k) = j
           /\ \A m \in prev : \A n \in curr : (m.job_id = id /\ n.job_id = id) <=> (m = i /\ n = j)
    BY <2>1, PairOf
  <2>3. Then(k) = [key |-> k, score |-> i.score, hash |-> TitleHash(i)]
    <3>1. i.job_id = id
      BY <2>2
    <3>2. LegacyIdentity(i) = k
      BY <2>1, <3>1, KeysAreIds
    <3>3. [key |-> k, score |-> i.score, hash |-> TitleHash(i)] \in c.seen
      BY <3>2 DEF LastSeen
    <3>4. ASSUME NEW e \in c.seen, e.key = k
          PROVE  e = [key |-> k, score |-> i.score, hash |-> TitleHash(i)]
      <4>1. PICK m \in prev : e = [key |-> LegacyIdentity(m), score |-> m.score, hash |-> TitleHash(m)]
        BY <3>4 DEF LastSeen
      <4>2. LegacyIdentity(m) = <<m.job_id>>
        BY KeysAreIds
      <4>3. m.job_id = id
        BY <2>1, <3>4, <4>1, <4>2
      <4>4. m = i
        BY <2>2, <4>3
      <4> QED
        BY <3>2, <4>1, <4>4
    <3>5. [key |-> k, score |-> i.score, hash |-> TitleHash(i)].key = k
      OBVIOUS
    <3> QED
      BY <3>3, <3>4, <3>5
  <2>4. ReportFields(i) # ReportFields(j)
    <3>1. i.score \in Int /\ j.score \in Int /\ ScoreDelta \in Int
      BY JobDiffAssumption DEF JobSet
    <3>2. CASE TitleHash(j) # TitleHash(i)
      BY <3>2 DEF TitleHash, ReportFields
    <3>3. CASE ScoreDelta > 0 /\ Abs(j.score - i.score) >= ScoreDelta
      <4>1. i.score # j.score
        BY <3>1, <3>3 DEF Abs
      <4> QED
        BY <4>1 DEF ReportFields
    <3>4. Now(k) = j
      BY <2>2
    <3> HIDE DEF Now, Then
    <3>5. Then(k).score = i.score /\ Then(k).hash = TitleHash(i)
      BY <2>3
    <3> QED
      BY <1>7, <3>2, <3>3, <3>4, <3>5
  <2>5. id \in moved
    BY <2>1, <2>2, <2>4 DEF Same
  <2> QED
    BY <1>3, <2>1, <2>5
<1>8. /\ alerts.retitled \subseteq Keyed(moved)
      /\ ScoreDelta > 0 => alerts.rescored \subseteq Keyed(moved)
  <2> HIDE DEF moved
  <2> QED
    BY <1>1, <1>7 DEF Alerts
<1>9. /\ marked.retitled = alerts.retitled \ Keyed(hidden)
      /\ marked.rescored = alerts.rescored \ Keyed(hidden)
  BY <1>1 DEF MarkedAlerts
<1> HIDE DEF alerts, marked, reported, moved, hidden
<1>10. marked.retitled \subseteq reported.changed /\ (ScoreDelta > 0 => marked.rescored \subseteq reported.changed)
  BY <1>4, <1>8, <1>9
<1> QED
  BY <1>5, <1>6, <1>10 DEF alerts, marked, reported

\* The insights of a run from the lists it has compared.
LEMMA InsightsDo ==
  ASSUME NEW c, JobSet(c.prev), JobSet(c.curr),
         insights' = [diff |-> InsightsDiff(c.prev, c.curr),
                      actions |-> Recommended(InsightsDiff(c.prev, c.curr), c.curr)]
  PROVE  InsightsAgree(c)
<1> DEFINE nothing == [ignored |-> {}, applied |-> {}]
           message == Message(c.prev, c.curr, c.marks, c.first)
           diff == InsightsDiff(c.prev, c.curr)
<1>1. /\ diff.new = Diff(c.prev, c.curr).new /\ diff.removed = Diff(c.prev, c.curr).removed
  BY AddedAre DEF InsightsDiff, Diff
<1>2. diff.changed \subseteq DiffReport(c.prev, c.curr, nothing).changed
  <2> DEFINE both == Ids(c.prev) \cap Ids(c.curr)
             same == Same(c.prev, c.curr, ReportFields)
  <2>1. nothing.ignored = {}
    OBVIOUS
  <2> HIDE DEF nothing, both, same
  <2>2. DiffReport(c.prev, c.curr, nothing).changed = Keyed(both \ (same \cup nothing.ignored))
    <3> DEFINE report_ == DiffReport(c.prev, c.curr, nothing)
               new == Keyed((Ids(c.curr) \ Ids(c.prev)) \ nothing.ignored)
               gone == Keyed(Ids(c.prev) \ Ids(c.curr))
               other == Keyed(both \ (same \cup nothing.ignored))
    <3>1. report_ = [added |-> new, removed |-> gone, changed |-> other]
      BY ReportIs, Zenon DEF both, same
    <3> HIDE DEF report_, new, gone, other
    <3>2. report_.changed = other
      BY <3>1
    <3> QED
      BY <3>2, Zenon DEF report_, other
  <2>3. Keyed(both \ (same \cup nothing.ignored)) = Keyed(both \ same)
    <3>1. both \ (same \cup nothing.ignored) = both \ same
      BY <2>1
    <3> QED
      BY <3>1, Zenon
  <2>4. Changed(DeltaKey, InsightFields, c.prev, c.curr) \subseteq Keyed(both \ same)
    BY ChangedAre DEF both, same
  <2>5. diff.changed = Changed(DeltaKey, InsightFields, c.prev, c.curr)
    BY DEF InsightsDiff
  <2> QED
    BY <2>2, <2>3, <2>4, <2>5
<1>3. message.new # {} => diff.new # {}
  BY <1>1 DEF Message, AtAlertLevel
<1>4. diff.new # {} => "reach out" \in Recommended(diff, c.curr)
  BY DEF Recommended
<1> HIDE DEF message, diff
<1>5. insights'.diff = diff /\ insights'.actions = Recommended(diff, c.curr)
  BY DEF diff
<1> QED
  BY <1>1, <1>2, <1>3, <1>4, <1>5 DEF InsightsAgree, message

\* The comparisons of a run agree, although each has a key of its own; a run
\* that compares nothing, for its US filter fell back, still writes alerts, and
\* they name what its diff would have named.
THEOREM ComparisonsDoAgree == Spec => ComparisonsAgree
<1>1. ASSUME Typed, Remembered, NEW marks
      PROVE  ListsAgree(Comparison(marks)) /\ CountsAgree(Comparison(marks))
                /\ AlertsAgree(Comparison(marks))
  <2>1. Comparison(marks).prev = Baseline /\ Comparison(marks).curr = Members(ranking)
    BY DEF Comparison, Baseline
  <2>2. JobSet(Members(ranking))
    BY <1>1, RankingIsJobSet DEF Typed, FilesTyped, RankingTyped
  <2>3. JobSet(Baseline)
    BY <1>1, FS_EmptySet DEF Remembered, Earlier, Baseline, JobSet
  <2> QED
    BY <2>1, <2>2, <2>3, ListsDo, CountsDo, AlertsDo
<1>2. ASSUME Comparing, Insights("daily"), lastRanked = Earlier, ranking = compared.list
      PROVE  InsightsAgree(compared)
  <2>1. prog["daily"] = "insights"
    BY <1>2 DEF Insights
  <2>2. /\ compared.curr = Members(ranking) /\ compared.prev = Baseline
        /\ JobSet(compared.curr) /\ JobSet(compared.prev)
    BY <1>2, <2>1 DEF Comparing, Untold
  <2>3. Baseline = IF lastRanked = Absent THEN {} ELSE Members(lastRanked)
    BY <1>2 DEF Baseline
  <2>4. insights' = [diff |-> InsightsDiff(compared.prev, compared.curr),
                     actions |-> Recommended(InsightsDiff(compared.prev, compared.curr), compared.curr)]
    BY <1>2, <2>2, <2>3 DEF Insights
  <2> QED
    BY <2>2, <2>4, InsightsDo
<1>3. Typed /\ Comparing /\ Remembered =>
         /\ \A marks \in setting.marks :
               /\ Compare("daily", marks) =>
                     ListsAgree(Comparison(marks)) /\ CountsAgree(Comparison(marks))
               /\ Compare("daily", marks) \/ Suppress("daily") => AlertsAgree(Comparison(marks))
         /\ Insights("daily") /\ lastRanked = Earlier /\ ranking = compared.list => InsightsAgree(compared)
  BY <1>1, <1>2
<1> QED
  BY <1>3, RememberedAlways, PTL DEF ComparisonsAgree

-----------------------------------------------------------------------------
(* Briefs without contents.                                                *)

Briefable == {e \in ListEntries : e.chars \in Lengths}

\* A run with AI that has found no brief without contents.
Filling(run) ==
    run \in [enabled : {TRUE}, left : Seq(Briefable), used : Int, results : Seq({"full"})]

\* Until somebody has made briefs without AI.
Filled ==
    /\ briefing = [p \in Procs |-> briefing[p]]
    /\ ~blanked =>
          /\ briefs \in [BriefKeys -> {"none", "full"}]
          /\ shown.results \in Seq({"full"})
          /\ \A p \in Procs : prog[p] = "briefing" =>
                Filling(briefing[p])

LEMMA BriefKeyIs ==
  ASSUME setting \in Settings, NEW e \in Briefable
  PROVE  BriefKeyOf(e) \in BriefKeys
  BY DEF Briefable, ListEntries, BriefKeyOf, BriefKeys

LEMMA SpentInt ==
  ASSUME NEW e \in Briefable, NEW used \in Int, NEW hit
  PROVE  Spent(used, e, hit) \in Int
<1>1. e.chars \in Nat
  BY DEF Briefable, ListEntries
<1>2. e.chars \div 4 \in Int /\ MaxTokens \in Int
  BY <1>1, JobStagesAssumption
<1>3. Tokens(e) \in Int
  BY <1>2 DEF Tokens
<1> QED
  BY <1>3 DEF Spent

LEMMA TopIs ==
  ASSUME NEW list, RankingTyped(list)
  PROVE  TopOf(list) \in Seq(Briefable)
<1> DEFINE n == IF Len(list) < MaxBriefs THEN Len(list) ELSE MaxBriefs
<1>1. Len(list) \in Nat /\ DOMAIN list = 1 .. Len(list)
  BY LenProperties DEF RankingTyped, IsRanking
<1>2. n \in Int /\ \A i \in 1 .. n : i \in DOMAIN list
  BY <1>1, JobStagesAssumption
<1>3. \A i \in DOMAIN list : list[i] \in Briefable
  BY <1>1, ElementOfSeq DEF RankingTyped, IsRanking, Members, Briefable
<1> HIDE DEF n
<1>4. \A i \in 1 .. n : list[i] \in Briefable
  BY <1>2, <1>3
<1>5. SubSeq(list, 1, n) \in Seq(Briefable)
  BY <1>2, <1>4, SubSeqProperties
<1> QED
  BY <1>5 DEF TopOf, n

LEMMA FilledStep ==
  ASSUME Typed, Filled, [Next]_vars
  PROVE  Filled'
<1>1. CASE UNCHANGED vars
  <2>1. UNCHANGED <<setting, briefs, shown, briefing, blanked, prog>>
    BY <1>1 DEF vars, caches, process, work, observed
  <2>2. BriefKeys' = BriefKeys /\ \A run : Filling(run)' <=> Filling(run)
    BY <2>1 DEF BriefKeys, Filling, Briefable, ListEntries, Postings, Lengths, Site
  <2> QED
    BY <2>1, <2>2 DEF Filled
<1>2. CASE \/ \E listed \in setting.listings : StartDaily(listed)
           \/ \E program \in setting.byHand : StartByHand(program)
  <2>1. /\ UNCHANGED <<setting, briefs, shown, briefing, blanked>>
        /\ \A p \in Procs : prog'[p] = prog[p] \/ prog'[p] \in Programs
    BY <1>2, StartIs
  <2>2. BriefKeys' = BriefKeys /\ \A run : Filling(run)' <=> Filling(run)
    BY <2>1 DEF BriefKeys, Filling, Briefable, ListEntries, Postings, Lengths, Site
  <2> QED
    BY <2>1, <2>2 DEF Filled, Programs
<1>3. ASSUME NEW p \in Procs, Step(p) PROVE Filled'
  <2>1. /\ prog' = [q \in Procs |-> prog'[q]] /\ \A q \in Procs \ {p} : prog'[q] = prog[q]
        /\ setting' = setting
    BY <1>3, Moves, Frames DEF Typed, OperatorType
  <2>2. BriefKeys' = BriefKeys /\ \A run : Filling(run)' <=> Filling(run)
    BY <2>1 DEF BriefKeys, Filling, Briefable, ListEntries, Postings, Lengths, Site
  <2>3. CASE StartsBriefs(p)
    <3>1. PICK enabled \in BOOLEAN : Briefs(p, enabled)
      BY <2>3 DEF StartsBriefs
    <3> DEFINE run == [enabled |-> enabled, left |-> TopOf(ranking), used |-> 0, results |-> <<>>]
    <3>2. /\ briefing' = [briefing EXCEPT ![p] = run] /\ UNCHANGED <<briefs, shown>>
          /\ blanked' = (blanked \/ ~enabled)
      BY <3>1 DEF Briefs, caches
    <3>3. ~blanked' => ~blanked /\ enabled = TRUE
      BY <3>2, Zenon
    <3>4. enabled = TRUE => Filling(run)
      BY TopIs DEF Typed, FilesTyped, Filling
    <3> HIDE DEF run
    <3>5. briefing' = [q \in Procs |-> briefing'[q]] /\ briefing'[p] = run
          /\ \A q \in Procs \ {p} : briefing'[q] = briefing[q]
      BY <3>2 DEF Filled
    <3> QED
      BY <2>1, <2>2, <3>2, <3>3, <3>4, <3>5 DEF Filled
  <2>4. CASE Brief(p)
    <3> DEFINE run == briefing[p]
               e == Head(run.left)
               key == BriefKeyOf(e)
               used == Spent(run.used, e, briefs[key] # "none")
               brief == IF briefs[key] # "none" THEN briefs[key] ELSE NewBrief(run.enabled)
    <3>1. /\ prog[p] = "briefing" /\ prog' = prog /\ run.left # <<>> /\ UNCHANGED <<shown, blanked>>
      BY <2>4 DEF Brief, observed
    <3>2. \/ /\ briefing' = [briefing EXCEPT ![p] = [run EXCEPT !.left = Tail(run.left)]]
             /\ UNCHANGED briefs
          \/ /\ briefing' = [briefing EXCEPT ![p] =
                                [enabled |-> run.enabled, left |-> Tail(run.left), used |-> used,
                                 results |-> Append(run.results, brief)]]
             /\ briefs' = [briefs EXCEPT ![key] = brief]
      BY <2>4 DEF Brief
    <3>3. SUFFICES ASSUME ~blanked PROVE Filled'
      BY <3>1, <3>2 DEF Filled
    <3>4. Filling(run) /\ briefs \in [BriefKeys -> {"none", "full"}]
      BY <3>1, <3>3 DEF Filled
    <3> HIDE DEF run
    <3>5. run.enabled = TRUE /\ run.left \in Seq(Briefable) /\ run.results \in Seq({"full"})
           /\ run.used \in Int
      BY <3>4 DEF Filling
    <3>6. e \in Briefable /\ Tail(run.left) \in Seq(Briefable)
      BY <3>1, <3>5, HeadTailProperties
    <3>7. key \in BriefKeys
      BY <3>6, BriefKeyIs DEF Typed, OperatorType
    <3>8. brief = "full"
      BY <3>4, <3>5, <3>7 DEF NewBrief
    <3>9. used \in Int
      BY <3>6, <3>5, SpentInt
    <3> HIDE DEF e, key, brief, used
    <3>10. briefs' \in [BriefKeys -> {"none", "full"}]
      BY <3>2, <3>4, <3>7, <3>8
    <3>11. Append(run.results, brief) \in Seq({"full"})
      BY <3>5, <3>8
    <3>12. PICK next : briefing' = [briefing EXCEPT ![p] = next] /\ Filling(next)
      <4>1. CASE briefing' = [briefing EXCEPT ![p] = [run EXCEPT !.left = Tail(run.left)]]
        <5>1. Filling([run EXCEPT !.left = Tail(run.left)])
          BY <3>4, <3>6 DEF Filling
        <5> QED
          BY <4>1, <5>1
      <4>2. CASE briefing' = [briefing EXCEPT ![p] =
                                [enabled |-> run.enabled, left |-> Tail(run.left), used |-> used,
                                 results |-> Append(run.results, brief)]]
        <5>1. Filling([enabled |-> run.enabled, left |-> Tail(run.left), used |-> used,
                       results |-> Append(run.results, brief)])
          BY <3>6, <3>11, <3>5, <3>9 DEF Filling
        <5> QED
          BY <4>2, <5>1
      <4> QED
        BY <3>2, <4>1, <4>2
    <3>13. briefing' = [q \in Procs |-> briefing'[q]] /\ briefing'[p] = next
           /\ \A q \in Procs \ {p} : briefing'[q] = briefing[q]
      BY <3>12 DEF Filled
    <3> QED
      BY <2>2, <3>1, <3>3, <3>10, <3>12, <3>13 DEF Filled
  <2>5. CASE BriefsDone(p)
    <3>1. /\ prog[p] = "briefing" /\ shown'.results = briefing[p].results
          /\ briefing' = [briefing EXCEPT ![p] = None] /\ UNCHANGED <<briefs, blanked>>
      BY <2>5 DEF BriefsDone, observed
    <3>2. ~blanked => briefing[p].results \in Seq({"full"})
      BY <3>1 DEF Filled, Filling
    <3>3. prog'[p] # "briefing"
      BY <1>3, <2>5, Moves DEF After, Following, Typed, OperatorType
    <3> QED
      BY <2>1, <2>2, <3>1, <3>3, <3>2 DEF Filled
  <2>6. ASSUME ~StartsBriefs(p), ~Brief(p), ~BriefsDone(p) PROVE Filled'
    <3>1. UNCHANGED <<briefs, shown, blanked>>
      BY <1>3, <2>6, Frames
    <3>2. prog'[p] # "briefing"
      BY <1>3, <2>6, Moves DEF Step, Scores, Compares, StartsBriefs, After, Following, Loops, Typed,
                               OperatorType
    <3>3. briefing' = [q \in Procs |-> briefing'[q]] /\ \A q \in Procs \ {p} : briefing'[q] = briefing[q]
      <4>1. briefing' = briefing \/ briefing' = [briefing EXCEPT ![p] = None]
        BY <1>3, <2>6, Frames DEF Stops
      <4> QED
        BY <4>1 DEF Filled
    <3> QED
      BY <2>1, <2>2, <3>1, <3>2, <3>3 DEF Filled
  <2> QED
    BY <2>3, <2>4, <2>5, <2>6
<1> QED
  BY <1>1, <1>2, <1>3 DEF Next

LEMMA FilledAlways == Spec => []Filled
<1>1. Init => Filled
  BY DEF Init, Filled, Procs
<1> QED
  BY <1>1, FilledStep, TypedAlways, PTL DEF Spec

\* A brief without contents is shown only after somebody has made briefs
\* without AI.
THEOREM EmptyBriefsAreOfDisabled == Spec => []EmptyBriefsOnlyAfterDisabled
<1>1. Filled => EmptyBriefsOnlyAfterDisabled
  <2> SUFFICES ASSUME ~blanked, shown.results \in Seq({"full"}), NEW n \in DOMAIN shown.results
               PROVE  shown.results[n] # "empty"
    BY DEF Filled, EmptyBriefsOnlyAfterDisabled
  <2>1. shown.results[n] \in {"full"}
    BY ElementOfSeq, LenProperties
  <2> QED
    BY <2>1
<1> QED
  BY <1>1, FilledAlways, PTL

-----------------------------------------------------------------------------
(* Texts.                                                                  *)

\* The cache of answers keeps each posting that the API has sent whole.
AnsweredAreKept == answered \subseteq {q \in Postings : details[q] = "whole"}

LEMMA AnsweredStep ==
  ASSUME Typed, AnsweredAreKept, NEW p \in Procs, Step(p), Texts(p)
  PROVE  AnsweredAreKept'
<1>1. PICK reply \in [Asked -> setting.replies] :
         /\ \A q \in Asked : details[q] # "none" => reply[q] = details[q]
         /\ details' = Keep(reply)
         /\ answered' = answered \cup {q \in Asked : reply[q] = "whole"}
  BY DEF Texts
<1>2. labeled \subseteq Labeled
  BY DEF Texts, HasInput, Typed, FilesTyped, FinitePart
<1>3. Asked \subseteq Postings
  BY <1>2 DEF Asked, Wanted, Labeled
<1>4. Postings' = Postings
  BY Frames DEF Postings, Site
<1>5. \A q \in Postings : details'[q] = IF q \in Asked THEN reply[q] ELSE details[q]
  BY <1>1 DEF Keep
<1> QED
  BY <1>1, <1>3, <1>4, <1>5 DEF AnsweredAreKept

LEMMA AnsweredAlways == Spec => []AnsweredAreKept
<1>1. Init => AnsweredAreKept
  BY DEF Init, AnsweredAreKept
<1>2. ASSUME Typed, AnsweredAreKept, [Next]_vars PROVE AnsweredAreKept'
  <2>1. ASSUME UNCHANGED <<setting, details, answered>> PROVE AnsweredAreKept'
    BY <1>2, <2>1 DEF AnsweredAreKept, Postings, Site
  <2>2. ASSUME NEW p \in Procs, Step(p) PROVE AnsweredAreKept'
    <3>1. CASE Texts(p)
      BY <1>2, <2>2, <3>1, AnsweredStep
    <3>2. CASE ~Texts(p)
      BY <2>1, <2>2, <3>2, Frames
    <3> QED
      BY <3>1, <3>2
  <2>3. ASSUME NEW listed, StartDaily(listed) PROVE AnsweredAreKept'
    BY <2>1, <2>3 DEF StartDaily, caches
  <2>4. ASSUME NEW program, StartByHand(program) PROVE AnsweredAreKept'
    BY <2>1, <2>4 DEF StartByHand, caches
  <2>5. CASE UNCHANGED vars
    BY <2>1, <2>5 DEF vars, caches, observed
  <2> QED
    BY <1>2, <2>2, <2>3, <2>4, <2>5 DEF Next
<1> QED
  BY <1>1, <1>2, TypedAlways, PTL DEF Spec

\* Whose text the API has sent once, without errors, keeps a text in every later
\* list that is written while a page is stored, whatever the network does then:
\* the cache is asked first, and neither an answer with errors nor a list without
\* texts takes anything out of it.
THEOREM FetchedTextsStay == Spec => TextsFetchedOnce
<1> DEFINE A == \A p \in Procs : Texts(p) =>
          \A j \in enriched' : j.who \in answered /\ Site[j.who].text > 0 => j.chars > 0
<1>1. ASSUME AnsweredAreKept, NEW p \in Procs, Texts(p),
             NEW i \in enriched', i.who \in answered, Site[i.who].text > 0
      PROVE  i.chars > 0
  <2>1. PICK reply \in [Asked -> setting.replies] :
          /\ \A q \in Asked : details[q] # "none" => reply[q] = details[q]
          /\ \E parsed \in SUBSET (Asked \ {q \in Asked : reply[q] = "whole"}) :
                enriched' = {Described(j, HasText(j, {q \in Asked : reply[q] = "whole"} \cup parsed)) :
                             j \in Wanted}
    BY <1>1 DEF Texts
  <2> DEFINE whole == {q \in Asked : reply[q] = "whole"}
  <2>2. PICK parsed : enriched' = {Described(j, HasText(j, whole \cup parsed)) : j \in Wanted}
    BY <2>1
  <2>3. PICK j \in Wanted : i = Described(j, HasText(j, whole \cup parsed))
    BY <1>1, <2>2
  <2>4. i.who = j.who /\ j.who \in Asked
    BY <2>3 DEF Described, Asked
  <2>5. reply[j.who] = "whole"
    BY <1>1, <2>1, <2>4 DEF AnsweredAreKept
  <2>6. HasText(j, whole \cup parsed)
    BY <1>1, <2>4, <2>5 DEF HasText
  <2>7. i.chars = Site[j.who].text
    BY <2>3, <2>6 DEF Described
  <2> QED
    BY <1>1, <2>4, <2>7
<1>2. AnsweredAreKept /\ [Next]_vars => [A]_vars
  BY <1>1
<1> QED
  BY <1>2, AnsweredAlways, PTL DEF Spec, TextsFetchedOnce

-----------------------------------------------------------------------------
(* The AI cache.                                                           *)

\* The cache holds entries, and so does who has read one from it.
EntriesOnly ==
    /\ answers = [key \in Keys |-> answers[key]]
    /\ \A key \in Keys : answers[key] \in Entries \cup {Missing}
    /\ got = [p \in Procs |-> got[p]]
    /\ \A p \in Procs : got[p] # None /\ KeyOf(got[p].job) \in Keys =>
          got[p].entry \in Entries \cup {Missing}

\* What augmentation makes of an entry.
LEMMA AugmentedTypes ==
  ASSUME NEW p, NEW e \in Entries \cup {Missing}, NEW f \in Augmented(p, e)
  PROVE  f \in Entries /\ KnownChange(e, f)
<1>1. CASE Hit(e)
  <2>1. e \in Entries /\ f = WithRules(p, Ensured(e))
    BY <1>1 DEF Augmented, Hit
  <2>2. Ensured(e) \in [by : {"stub", "live", "failed", "blank"}, skills : {"none", "rules", "answer"},
                        current : BOOLEAN]
        /\ (Ensured(e).by = e.by \/ (e.by = "kit" /\ Ensured(e).by = "blank"))
    BY <2>1 DEF Ensured, Entries
  <2> DEFINE d == Ensured(e)
  <2>3. f = d \/ f = [d EXCEPT !.skills = "rules", !.current = TRUE]
    BY <2>1 DEF WithRules
  <2> HIDE DEF d
  <2>4. f \in Entries /\ f.by = d.by
    BY <2>2, <2>3 DEF d, Entries
  <2> QED
    BY <2>2, <2>4 DEF d, KnownChange
<1>2. CASE ~Hit(e)
  <2>1. e = Missing
    BY <1>2 DEF Hit
  <2>2. \A by \in {"live", "failed", "stub"}, skills \in {"none", "answer"} :
           Extracted(by, skills) \in Entries
    BY DEF Extracted, Entries
  <2>3. f \in Entries
    BY <1>2, <2>2 DEF Augmented, Answered
  <2> QED
    BY <2>1, <2>3 DEF KnownChange
<1> QED
  BY <1>1, <1>2

\* The entry that a step of process p puts into the cache.
Puts(p, e) ==
    /\ got[p] # None /\ got' = [got EXCEPT ![p] = None]
    /\ answers' = [answers EXCEPT ![KeyOf(got[p].job)] = e]
    /\ \/ e \in Augmented(p, got[p].entry)
       \/ e = [by |-> "kit", skills |-> "none", current |-> FALSE]
       \/ e = answers[KeyOf(got[p].job)]

LEMMA PutsAnswers ==
  ASSUME NEW p \in Procs, SaveEntry(p) \/ PutKit(p)
  PROVE  \E e : Puts(p, e)
<1>1. CASE SaveEntry(p)
  BY <1>1 DEF SaveEntry, Puts
<1>2. CASE PutKit(p)
  BY <1>2 DEF PutKit, Puts
<1> QED
  BY <1>1, <1>2

LEMMA PutTypes ==
  ASSUME EntriesOnly, NEW p \in Procs, NEW e, Puts(p, e), KeyOf(got[p].job) \in Keys
  PROVE  /\ e \in Entries \cup {Missing}
         /\ e = answers[KeyOf(got[p].job)] \/ KnownChange(got[p].entry, e)
<1>1. got[p].entry \in Entries \cup {Missing} /\ answers[KeyOf(got[p].job)] \in Entries \cup {Missing}
  BY DEF EntriesOnly, Puts
<1>2. CASE e \in Augmented(p, got[p].entry)
  BY <1>1, <1>2, AugmentedTypes
<1>3. CASE e = [by |-> "kit", skills |-> "none", current |-> FALSE]
  BY <1>3 DEF Entries, KnownChange
<1>4. CASE e = answers[KeyOf(got[p].job)]
  BY <1>1, <1>4
<1> QED
  BY <1>2, <1>3, <1>4 DEF Puts

\* Only those steps change the cache, and a step reads at most one entry.
LEMMA OthersAnswer ==
  ASSUME [Next]_vars, ~\E p \in Procs : SaveEntry(p) \/ PutKit(p)
  PROVE  /\ answers' = answers /\ setting' = setting
         /\ \/ got' = got
            \/ \E p \in Procs : \E v : /\ got' = [got EXCEPT ![p] = v]
                                       /\ v = None \/ \E j : v = [job |-> j, entry |-> answers[KeyOf(j)]]
<1>1. ASSUME NEW listed, StartDaily(listed) PROVE answers' = answers /\ setting' = setting /\ got' = got
  BY <1>1 DEF StartDaily, caches, work
<1>2. ASSUME NEW program, StartByHand(program) PROVE answers' = answers /\ setting' = setting /\ got' = got
  BY <1>2 DEF StartByHand, caches, work
<1>3. UNCHANGED vars => answers' = answers /\ setting' = setting /\ got' = got
  BY DEF vars, caches, process, work
<1>4. ASSUME NEW p \in Procs, Step(p), ~SaveEntry(p), ~PutKit(p)
      PROVE  /\ answers' = answers /\ setting' = setting
             /\ got' = got \/ Stops(p) \/ ReadEntry(p)
  BY <1>4, Frames
<1>5. ASSUME NEW p \in Procs, Stops(p) PROVE got' = [got EXCEPT ![p] = None]
  BY <1>5 DEF Stops
<1>6. ASSUME NEW p \in Procs, ReadEntry(p)
      PROVE  \E j : got' = [got EXCEPT ![p] = [job |-> j, entry |-> answers[KeyOf(j)]]]
  BY <1>6 DEF ReadEntry
<1> QED
  BY <1>1, <1>2, <1>3, <1>4, <1>5, <1>6 DEF Next

LEMMA EntriesAlways == Spec => []EntriesOnly
<1>1. Init => EntriesOnly
  BY DEF Init, EntriesOnly
<1>2. ASSUME EntriesOnly, [Next]_vars PROVE EntriesOnly'
  <2>1. ASSUME NEW p \in Procs, SaveEntry(p) \/ PutKit(p) PROVE EntriesOnly'
    <3>1. PICK e : Puts(p, e)
      BY <2>1, PutsAnswers
    <3>2. setting' = setting
      BY <2>1 DEF SaveEntry, PutKit
    <3>3. Keys' = Keys /\ \A j : KeyOf(j)' = KeyOf(j)
      BY <3>2 DEF Keys, KeyOf, Site, Postings, Lengths
    <3>4. /\ answers' = [key \in Keys |-> answers'[key]]
          /\ \A key \in Keys : answers'[key] \in Entries \cup {Missing}
      BY <1>2, <3>1, PutTypes DEF EntriesOnly, Puts
    <3>5. got' = [q \in Procs |-> got'[q]] /\ got'[p] = None /\ \A q \in Procs \ {p} : got'[q] = got[q]
      BY <1>2, <3>1 DEF EntriesOnly, Puts
    <3> QED
      BY <1>2, <3>3, <3>4, <3>5 DEF EntriesOnly, KeyOf
  <2>2. ASSUME ~\E p \in Procs : SaveEntry(p) \/ PutKit(p) PROVE EntriesOnly'
    <3>1. /\ answers' = answers /\ setting' = setting
          /\ \/ got' = got
             \/ \E p \in Procs : \E v : /\ got' = [got EXCEPT ![p] = v]
                                        /\ v = None \/ \E j : v = [job |-> j, entry |-> answers[KeyOf(j)]]
      BY <1>2, <2>2, OthersAnswer
    <3>2. Keys' = Keys /\ \A j : KeyOf(j)' = KeyOf(j)
      BY <3>1 DEF Keys, KeyOf, Site, Postings, Lengths
    <3>3. CASE got' = got
      BY <1>2, <3>1, <3>2, <3>3 DEF EntriesOnly, KeyOf
    <3>4. ASSUME NEW p \in Procs, NEW v, got' = [got EXCEPT ![p] = v],
                 v = None \/ \E j : v = [job |-> j, entry |-> answers[KeyOf(j)]]
          PROVE  EntriesOnly'
      <4>1. got' = [q \in Procs |-> got'[q]] /\ got'[p] = v /\ \A q \in Procs \ {p} : got'[q] = got[q]
        BY <1>2, <3>4 DEF EntriesOnly
      <4>2. v # None /\ KeyOf(v.job) \in Keys => v.entry \in Entries \cup {Missing}
        BY <1>2, <3>4 DEF EntriesOnly
      <4> QED
        BY <1>2, <3>1, <3>2, <4>1, <4>2 DEF EntriesOnly, KeyOf
    <3> QED
      BY <3>1, <3>3, <3>4
  <2> QED
    BY <1>2, <2>1, <2>2
<1> QED
  BY <1>1, <1>2, PTL DEF Spec

\* An answer in the AI cache gives way only to what is known to replace it, or
\* to a write that goes by an entry another process has changed meanwhile.
THEOREM AnswersStay == Spec => AnswersReplacedInKnownWays
<1> DEFINE A == \A key \in Keys : answers'[key] # answers[key] =>
          \E p \in Procs :
              /\ got[p] # None /\ got'[p] = None /\ KeyOf(got[p].job) = key
              /\ Raced(p) \/ KnownChange(answers[key], answers'[key])
<1>1. ASSUME EntriesOnly, Next PROVE A
  <2> SUFFICES ASSUME NEW key \in Keys, answers'[key] # answers[key]
               PROVE  \E p \in Procs :
                         /\ got[p] # None /\ got'[p] = None /\ KeyOf(got[p].job) = key
                         /\ Raced(p) \/ KnownChange(answers[key], answers'[key])
    OBVIOUS
  <2>1. PICK p \in Procs : SaveEntry(p) \/ PutKit(p)
    BY <1>1, OthersAnswer
  <2>2. PICK e : Puts(p, e)
    BY <2>1, PutsAnswers
  <2>3. KeyOf(got[p].job) = key /\ answers'[key] = e
    BY <1>1, <2>2 DEF EntriesOnly, Puts
  <2>4. KnownChange(got[p].entry, e)
    BY <1>1, <2>2, <2>3, PutTypes
  <2>5. got[p] # None /\ got'[p] = None
    BY <1>1, <2>2 DEF EntriesOnly, Puts
  <2>6. Raced(p) \/ KnownChange(answers[key], answers'[key])
    BY <2>3, <2>4 DEF Raced
  <2> QED
    BY <2>3, <2>5, <2>6
<1>2. EntriesOnly /\ [Next]_vars => [A]_vars
  BY <1>1
<1> QED
  BY <1>2, EntriesAlways, PTL DEF Spec, AnswersReplacedInKnownWays

-----------------------------------------------------------------------------
(* The report and what it has hashed.                                      *)

\* The ranking under given settings, and the input of the daily run without AI.
RankedWith(s, js) ==
    LET whole == {[who |-> j.who, id |-> s.site[j.who].id, url |-> s.site[j.who].url,
                   title |-> s.site[j.who].title, body |-> s.site[j.who].body,
                   phd |-> s.site[j.who].phd, band |-> s.site[j.who].band, us |-> s.site[j.who].us,
                   sim |-> s.site[j.who].sim, relevance |-> j.relevance, chars |-> j.chars,
                   status |-> j.status, ai |-> j.ai] : j \in js}
        scored == Scored(whole, s.us_only)
    IN IF s.semantic = "on" THEN Boost(scored) ELSE scored
Plain(js) == {WithAi(j, None) : j \in js}

LEMMA RankingIs == \A js : Ranking(js) = RankedWith(setting, js)
  BY DEF Ranking, RankedWith, Whole, Site

LEMMA RecalculatedIs == \A r : Recalculated(r) = RankedWith(setting, Plain(r.input))
  BY RankingIs DEF Recalculated, ArchivedInput, Plain

AfterScore == {"compare", "insights", "briefs", "briefing", "post", "report"}

\* The control: a daily run that nobody disturbs is alone, and has ranked what
\* it has archived; and a report of the last run is of the outputs there are.
Undisturbed ==
    ~touched =>
        /\ prog["operator"] = "idle"
        /\ prog["daily"] = "score" => archive = enriched
        /\ prog["daily"] \in AfterScore /\ ~setting.ai =>
              ranking = RankedWith(setting, Plain(archive))
        /\ report # Absent /\ report.clean /\ report.run = passes =>
              prog["daily"] = "idle" /\ ranking = report.ranked /\ shortlist = report.shortlist

Reported ==
    report # Absent =>
        /\ report.run \in Nat /\ report.run <= passes
        /\ report.clean /\ ~setting.ai => RankedWith(setting, Plain(report.input)) = report.ranked

Verified == passes \in Nat /\ Undisturbed /\ Reported

LEMMA ReportStep ==
  ASSUME Typed, Verified, NEW p \in Procs, Step(p), Report(p)
  PROVE  Undisturbed' /\ Reported'
<1>1. /\ prog[p] = "report" /\ prog'[p] = After(p, "report") /\ UNCHANGED <<setting, passes, touched>>
      /\ prog' = [q \in Procs |-> prog'[q]] /\ \A q \in Procs \ {p} : prog'[q] = prog[q]
  BY Moves, Frames DEF Typed, OperatorType
<1>2. p = "daily" /\ prog'["daily"] = "idle" /\ prog'["operator"] = prog["operator"]
  BY <1>1 DEF Typed, OperatorType, OfDaily, Procs, After, Following
<1>3. /\ report' = [run |-> passes, input |-> archive, ranked |-> ranking, shortlist |-> shortlist,
                    clean |-> ~touched]
      /\ UNCHANGED <<ranking, shortlist>>
  BY DEF Report, outputs
<1>4. report'.run = passes /\ report'.input = archive /\ report'.ranked = ranking
      /\ report'.shortlist = shortlist /\ report'.clean = ~touched
  BY <1>3
<1>5. ~touched /\ ~setting.ai => RankedWith(setting, Plain(report'.input)) = ranking
  BY <1>1, <1>2, <1>4 DEF Verified, Undisturbed, AfterScore
<1>6. report'.clean => ~touched
  BY <1>4, Zenon
<1>7. Reported'
  BY <1>1, <1>4, <1>5, <1>6 DEF Verified, Reported
<1>8. Undisturbed'
  BY <1>1, <1>2, <1>3, <1>4 DEF Verified, Undisturbed, AfterScore
<1> QED
  BY <1>7, <1>8

\* By hand, nothing is undisturbed: only the daily run archives and reports.
LEMMA UndisturbedStep ==
  ASSUME Typed, Verified, NEW p \in Procs, Step(p), ~Report(p), ~touched
  PROVE  Undisturbed'
<1>1. /\ prog' = [q \in Procs |-> prog'[q]] /\ \A q \in Procs \ {p} : prog'[q] = prog[q]
      /\ prog[p] # "idle" /\ UNCHANGED <<setting, passes, touched, report>>
  BY Moves, Frames DEF Typed, OperatorType
<1>2. p = "daily" /\ prog'["operator"] = "idle" /\ prog["daily"] # "idle"
  BY <1>1 DEF Verified, Undisturbed, Procs
<1>3. ~(report # Absent /\ report.clean /\ report.run = passes)
  BY <1>2 DEF Verified, Undisturbed
<1>4. CASE Enrich(p) \/ Texts(p) \/ TextsSkipped(p) \/ Stops(p)
  <2>1. prog'["daily"] \notin AfterScore \cup {"score"}
    BY <1>2, <1>4, Moves DEF After, Following, Typed, OperatorType, AfterScore
  <2> QED
    BY <1>1, <1>2, <1>3, <2>1 DEF Undisturbed
<1>5. CASE Archive(p)
  <2>1. prog'["daily"] = "score" /\ archive' = enriched /\ enriched' = enriched
    BY <1>2, <1>5, Moves DEF Archive, After, Following, Typed, OperatorType
  <2> QED
    BY <1>1, <1>2, <1>3, <2>1 DEF Undisturbed, AfterScore
<1>6. CASE Scores(p)
  <2>1. prog["daily"] = "score" /\ prog'["daily"] = "compare"
    BY <1>2, <1>6, Moves DEF Typed, OperatorType
  <2>2. ranking' = Ranking(Input(p)) /\ archive' = archive
    BY <1>6 DEF Scores, Score, kept
  <2>3. ~setting.ai => ranking' = RankedWith(setting, Plain(archive))
    BY <1>2, <2>1, <2>2, RankingIs DEF Verified, Undisturbed, Input, Plain
  <2> QED
    BY <1>1, <1>2, <1>3, <2>1, <2>2, <2>3 DEF Undisturbed
<1>7. ASSUME ~Enrich(p), ~Texts(p), ~TextsSkipped(p), ~Stops(p), ~Archive(p), ~Scores(p) PROVE Undisturbed'
  <2>1. UNCHANGED <<enriched, archive, ranking>>
    BY <1>7, Frames
  <2>2. prog'["daily"] # "score" /\ (prog'["daily"] \in AfterScore => prog["daily"] \in AfterScore)
    BY <1>2, <1>7, Moves DEF Step, Scores, Compares, StartsBriefs, After, Following, Typed, OperatorType,
                             AfterScore, Loops
  <2> QED
    BY <1>1, <1>2, <1>3, <2>1, <2>2 DEF Verified, Undisturbed
<1> QED
  BY <1>4, <1>5, <1>6, <1>7

LEMMA VerifiedStep ==
  ASSUME Typed, Verified, [Next]_vars
  PROVE  Verified'
<1>1. CASE UNCHANGED vars
  <2>1. UNCHANGED <<setting, enriched, ranking, shortlist, archive, report, passes, touched, prog>>
    BY <1>1 DEF vars, files, outputs, kept, process, counters, observed
  <2> QED
    BY <2>1 DEF Verified, Undisturbed, Reported
<1>2. ASSUME NEW listed, StartDaily(listed) PROVE Verified'
  <2>1. /\ prog["daily"] = "idle" /\ prog' = [prog EXCEPT !["daily"] = "classify"]
        /\ passes' = passes + 1 /\ touched' = (prog["operator"] # "idle")
        /\ UNCHANGED <<setting, enriched, ranking, shortlist, archive, report>>
    BY <1>2 DEF StartDaily, outputs, kept
  <2>2. ~touched' => prog["operator"] = "idle"
    BY <2>1, Zenon
  <2>3. prog'["daily"] = "classify" /\ prog'["operator"] = prog["operator"]
    BY <2>1 DEF Typed, OperatorType, Procs
  <2>4. Reported' /\ passes' \in Nat /\ (report # Absent => report.run # passes')
    BY <2>1 DEF Verified, Reported
  <2>5. Undisturbed'
    BY <2>1, <2>2, <2>3, <2>4 DEF Undisturbed, AfterScore
  <2> QED
    BY <2>4, <2>5 DEF Verified
<1>3. ASSUME NEW program, StartByHand(program) PROVE Verified'
  <2>1. touched' = TRUE /\ UNCHANGED <<setting, report, passes>>
    BY <1>3 DEF StartByHand, files, kept
  <2>2. Undisturbed'
    BY <2>1 DEF Undisturbed
  <2>3. Reported'
    BY <2>1 DEF Verified, Reported
  <2> QED
    BY <2>1, <2>2, <2>3 DEF Verified
<1>4. ASSUME NEW p \in Procs, Step(p) PROVE Verified'
  <2>1. UNCHANGED <<setting, passes, touched>>
    BY <1>4, Frames
  <2>2. CASE Report(p)
    BY <1>4, <2>1, <2>2, ReportStep DEF Verified
  <2>3. CASE ~Report(p)
    <3>1. report' = report
      BY <1>4, <2>3, Frames
    <3>2. Reported'
      BY <2>1, <3>1 DEF Verified, Reported
    <3>3. Undisturbed'
      BY <1>4, <2>1, <2>3, UndisturbedStep DEF Undisturbed
    <3> QED
      BY <2>1, <3>2, <3>3 DEF Verified
  <2> QED
    BY <2>2, <2>3
<1> QED
  BY <1>1, <1>2, <1>3, <1>4 DEF Next

LEMMA VerifiedAlways == Spec => []Verified
<1>1. Init => Verified
  BY DEF Init, Verified, Undisturbed, Reported, Procs, AfterScore
<1> QED
  BY <1>1, VerifiedStep, TypedAlways, PTL DEF Spec

\* A report of a run that nobody disturbed is reproduced by what was archived,
\* and replay_run finds the outputs of the last one as they were hashed.
THEOREM ReportsAreVerified == Spec => []ReportsVerify
<1>1. Verified => ReportsVerify
  <2> SUFFICES ASSUME Verified, report # Absent, report.clean PROVE ReportsVerify
    BY DEF ReportsVerify
  <2>1. ~setting.ai => Recalculated(report) = report.ranked
    BY RecalculatedIs DEF Verified, Reported
  <2>2. report.run = passes /\ ~touched => ranking = report.ranked /\ shortlist = report.shortlist
    BY DEF Verified, Undisturbed
  <2>3. ranking = report.ranked /\ shortlist = report.shortlist => ExitCode(Replayed(report), TRUE) = 0
    BY DEF ExitCode, Replayed
  <2> QED
    BY <2>1, <2>2, <2>3 DEF ReportsVerify
<1> QED
  BY <1>1, VerifiedAlways, PTL

-----------------------------------------------------------------------------
(* The rest of the type.                                                   *)

\* A daily run that has archived its input, and has not ended.
Archived == {"score"} \cup AfterScore

Copies ==
    /\ archive = Absent \/ archive \subseteq Enriched
    /\ report = Absent \/ report.input \subseteq Enriched
    /\ prog["daily"] \in Archived => archive # Absent

Stores ==
    /\ vectors \in [Vectors -> {"none", "stub", "openai"}]
    /\ details \in [Postings -> Replies]
    /\ fellBack \in BOOLEAN
    /\ briefs \in [BriefKeys -> {"none", "full", "empty"}]

Counts == passes \in 0 .. setting.passes /\ byHand \in 0 .. MaxByHand

Running == prog \in [Procs -> Programs \cup OfDaily \cup Loops \cup {"briefing", "idle"}]

\* No step writes an archive but that of the daily run.
LEMMA CopiesStep ==
  ASSUME Typed, Copies, [Next]_vars
  PROVE  Copies'
<1>1. CASE UNCHANGED vars
  <2>1. UNCHANGED <<setting, archive, report, prog>>
    BY <1>1 DEF vars, files, kept, process
  <2> QED
    BY <2>1 DEF Copies, Enriched, Lengths, Postings, Site
<1>2. ASSUME (\E listed \in setting.listings : StartDaily(listed))
                \/ (\E program \in setting.byHand : StartByHand(program))
      PROVE  Copies'
  <2>1. UNCHANGED <<setting, archive, report>>
    BY <1>2 DEF StartDaily, StartByHand, kept, files
  <2>2. prog'["daily"] = prog["daily"] \/ prog'["daily"] = "classify"
    BY <1>2, StartIs DEF Procs
  <2> QED
    BY <2>1, <2>2 DEF Copies, Archived, AfterScore, Enriched, Lengths, Postings, Site
<1>3. ASSUME NEW p \in Procs, Step(p) PROVE Copies'
  <2>1. setting' = setting
    BY <1>3, Frames
  <2>2. Enriched' = Enriched
    BY <2>1 DEF Enriched, Lengths, Postings, Site
  <2>3. prog = [q \in Procs |-> prog[q]] /\ prog["operator"] \notin OfDaily
    BY DEF Typed, OperatorType
  <2>4. CASE Archive(p)
    <3>1. enriched # Absent /\ archive' = enriched /\ report' = report
      BY <2>4 DEF Archive, HasInput
    <3>2. enriched \subseteq Enriched
      BY <3>1 DEF Typed, FilesTyped, FinitePart
    <3> QED
      BY <2>2, <3>1, <3>2 DEF Copies
  <2>5. CASE Report(p)
    <3>1. prog[p] = "report" /\ report'.input = archive /\ archive' = archive
      BY <2>5 DEF Report
    <3>2. p = "daily"
      BY <2>3, <3>1 DEF Procs, OfDaily
    <3>3. archive # Absent
      BY <3>1, <3>2 DEF Copies, Archived, AfterScore
    <3> QED
      BY <2>2, <3>1, <3>3 DEF Copies
  <2>6. CASE ~Archive(p) /\ ~Report(p)
    <3>1. archive' = archive /\ report' = report
      BY <1>3, <2>6, Frames
    <3>2. prog'["daily"] \in Archived => prog["daily"] \in Archived
      <4>1. CASE p = "daily"
        <5> USE <4>1 DEF Archived, AfterScore, After, Following
        <5> QED
          BY <1>3, <2>3, <2>6, Moves DEF Step, Scores, Compares, StartsBriefs, Loops
      <4>2. CASE p # "daily"
        BY <1>3, <2>3, <4>2, Moves DEF Procs
      <4> QED
        BY <4>1, <4>2
    <3> QED
      BY <2>2, <3>1, <3>2 DEF Copies
  <2> QED
    BY <2>4, <2>5, <2>6
<1> QED
  BY <1>1, <1>2, <1>3 DEF Next

LEMMA StoresStep ==
  ASSUME Typed, Stores, [Next]_vars
  PROVE  Stores'
<1>1. ASSUME UNCHANGED <<setting, vectors, details, fellBack, briefs>> PROVE Stores'
  BY <1>1 DEF Stores, Vectors, BriefKeys, Lengths, Postings, Site, GroupOf
<1>2. CASE UNCHANGED vars
  BY <1>1, <1>2 DEF vars, caches, files, outputs
<1>3. ASSUME NEW listed, StartDaily(listed) PROVE Stores'
  BY <1>1, <1>3 DEF StartDaily, caches, outputs
<1>4. ASSUME NEW program, StartByHand(program) PROVE Stores'
  BY <1>1, <1>4 DEF StartByHand, caches, files, outputs
<1>5. ASSUME NEW p \in Procs, Step(p) PROVE Stores'
  <2>1. setting' = setting
    BY <1>5, Frames
  <2>2. Vectors' = Vectors /\ Postings' = Postings /\ BriefKeys' = BriefKeys
    BY <2>1 DEF Vectors, BriefKeys, Lengths, Postings, Site
  <2>3. CASE Classify(p)
    <3>1. \A v \in Vectors : vectors'[v] \in {vectors[v], "stub", "openai"}
      BY <2>3 DEF Classify, Cached, Embedder, Stores
    <3>2. vectors' = [v \in Vectors |-> vectors'[v]] /\ UNCHANGED <<details, fellBack, briefs>>
      BY <2>3 DEF Classify, Stores, outputs
    <3> QED
      BY <2>2, <3>1, <3>2 DEF Stores
  <2>4. CASE Texts(p)
    <3>1. labeled \subseteq Labeled
      BY <2>4 DEF Texts, HasInput, Typed, FilesTyped, FinitePart
    <3>2. Asked \subseteq Postings
      BY <3>1 DEF Asked, Wanted, Labeled
    <3>3. PICK reply \in [Asked -> setting.replies] : details' = Keep(reply)
      BY <2>4 DEF Texts
    <3>4. setting.replies \subseteq Replies
      BY SettingsAssumption DEF Typed, OperatorType
    <3>5. details' \in [Postings -> Replies]
      BY <3>2, <3>3, <3>4 DEF Keep, Stores
    <3>6. UNCHANGED <<vectors, fellBack, briefs>>
      BY <2>4 DEF Texts, outputs
    <3> QED
      BY <2>2, <3>5, <3>6 DEF Stores
  <2>5. CASE Brief(p)
    <3> DEFINE key == BriefKeyOf(Head(briefing[p].left))
               brief == IF briefs[key] # "none" THEN briefs[key] ELSE NewBrief(briefing[p].enabled)
    <3>1. UNCHANGED <<vectors, details, fellBack>>
      BY <2>5 DEF Brief, files, outputs
    <3>2. briefs' = briefs \/ briefs' = [briefs EXCEPT ![key] = brief]
      BY <2>5 DEF Brief
    <3>3. key \in BriefKeys => brief \in {"none", "full", "empty"}
      BY DEF Stores, NewBrief
    <3> HIDE DEF key, brief
    <3>4. briefs' \in [BriefKeys -> {"none", "full", "empty"}]
      BY <3>2, <3>3 DEF Stores
    <3> QED
      BY <2>2, <3>1, <3>4 DEF Stores
  <2>6. CASE Scores(p)
    <3>1. PICK marks : Score(p, marks)
      BY <2>6 DEF Scores
    <3>2. fellBack' = (fellBack \/ FallsBack(Whole(Input(p)), setting.us_only))
      BY <3>1 DEF Score
    <3>3. fellBack' \in BOOLEAN
      BY <3>2, Zenon
    <3>4. UNCHANGED <<vectors, details, briefs>>
      BY <3>1 DEF Score, caches
    <3> QED
      BY <2>2, <3>3, <3>4 DEF Stores
  <2>7. CASE ~Classify(p) /\ ~Texts(p) /\ ~Brief(p) /\ ~Scores(p)
    <3>1. UNCHANGED <<details, briefs, fellBack>>
      BY <1>5, <2>7, Frames
    <3>2. vectors' = vectors
      BY <1>5, <2>7 DEF Step, Stops, Enrich, TextsSkipped, Augment, ReadEntry, SaveEntry, WriteAiFile,
                        Archive, PutKit, KitsDone, Suppress, Insights, Post, Report, Score, Compare,
                        Briefs, BriefsDone, caches
    <3> QED
      BY <1>1, <2>1, <3>1, <3>2
  <2> QED
    BY <2>3, <2>4, <2>5, <2>6, <2>7
<1> QED
  BY <1>2, <1>3, <1>4, <1>5 DEF Next

LEMMA CountsStep ==
  ASSUME Typed, Counts, Running, [Next]_vars
  PROVE  Counts' /\ Running'
<1>1. CASE UNCHANGED vars
  <2>1. UNCHANGED <<setting, passes, byHand, prog>>
    BY <1>1 DEF vars, process, counters
  <2> QED
    BY <2>1 DEF Counts, Running
<1>2. ASSUME NEW listed \in setting.listings, StartDaily(listed) PROVE Counts' /\ Running'
  <2>1. setting.passes \in Nat
    BY SettingsAssumption DEF Typed, OperatorType
  <2>2. setting' = setting /\ passes' = passes + 1 /\ passes < setting.passes /\ byHand' = byHand
    BY <1>2 DEF StartDaily
  <2>3. prog' = [prog EXCEPT !["daily"] = "classify"]
    BY <1>2 DEF StartDaily
  <2>4. Counts'
    BY <2>1, <2>2 DEF Counts
  <2>5. Running'
    BY <2>3 DEF Running, Programs
  <2> QED
    BY <2>4, <2>5
<1>3. ASSUME NEW program \in setting.byHand, StartByHand(program) PROVE Counts' /\ Running'
  <2>1. program \in Programs
    BY SettingsAssumption DEF Typed, OperatorType
  <2>2. setting' = setting /\ byHand' = byHand + 1 /\ byHand < MaxByHand /\ passes' = passes
    BY <1>3 DEF StartByHand
  <2>3. prog' = [prog EXCEPT !["operator"] = program]
    BY <1>3 DEF StartByHand
  <2>4. Counts'
    BY <2>2, JobStagesAssumption DEF Counts
  <2>5. Running'
    BY <2>1, <2>3 DEF Running
  <2> QED
    BY <2>4, <2>5
<1>4. ASSUME NEW p \in Procs, Step(p) PROVE Counts' /\ Running'
  <2>1. UNCHANGED <<setting, passes, byHand>>
    BY <1>4 DEF Step, Stops, Classify, Enrich, Texts, TextsSkipped, Augment, ReadEntry, SaveEntry,
                WriteAiFile, Archive, PutKit, KitsDone, Suppress, Insights, Post, Report, Score,
                Compare, Briefs, Brief,
                BriefsDone, counters
  <2>2. /\ prog' = [q \in Procs |-> prog'[q]] /\ \A q \in Procs \ {p} : prog'[q] = prog[q]
    BY <1>4, Moves DEF Typed, OperatorType
  <2>3. prog'[p] \in Programs \cup OfDaily \cup Loops \cup {"briefing", "idle"}
    BY <1>4, Moves DEF Typed, OperatorType, Step, Scores, Compares, StartsBriefs, After, Following,
                       Programs, OfDaily, Loops
  <2> QED
    BY <2>1, <2>2, <2>3 DEF Counts, Running
<1> QED
  BY <1>1, <1>2, <1>3, <1>4 DEF Next

\* Files, caches, programs and counters of the stages stay in their types.
THEOREM StagesTypeCorrect == Spec => []TypeOK
<1>1. Init => Copies /\ Stores /\ Counts /\ Running
  <2> SUFFICES ASSUME Init PROVE Copies /\ Stores /\ Counts /\ Running
    OBVIOUS
  <2>1. Copies
    BY DEF Init, Copies, Archived, AfterScore, Procs
  <2>2. Stores
    BY DEF Init, Stores, Replies
  <2>3. setting.passes \in Nat
    BY SettingsAssumption DEF Init
  <2> QED
    BY <2>1, <2>2, <2>3, JobStagesAssumption DEF Init, Counts, Running
<1>2. /\ Typed /\ (Copies /\ Stores /\ Counts /\ Running) /\ [Next]_vars
      => (Copies /\ Stores /\ Counts /\ Running)'
  BY CopiesStep, StoresStep, CountsStep
<1>3. Typed /\ EntriesOnly /\ Copies /\ Stores /\ Counts /\ Running => TypeOK
  <2> SUFFICES ASSUME Typed, EntriesOnly, Copies, Stores, Counts, Running PROVE TypeOK
    OBVIOUS
  <2>1. \A n \in DOMAIN ranking : ranking[n].score \in 0 .. 100
    BY DEF Typed, FilesTyped, RankingTyped, IsRanking, ListEntries
  <2>2. aiFile = Absent \/ \A j \in aiFile : j.ai \in 0 .. 100
    BY DEF Typed, FilesTyped, FinitePart, Augmenteds
  <2>3. answers \in [Keys -> Entries \cup {Missing}]
    BY DEF EntriesOnly
  <2>4. /\ raw \subseteq Postings /\ setting \in Settings
        /\ labeled = Absent \/ labeled \subseteq Labeled
        /\ enriched = Absent \/ enriched \subseteq Enriched
    BY DEF Typed, OperatorType, FilesTyped, FinitePart
  <2> QED
    BY <2>1, <2>2, <2>3, <2>4 DEF TypeOK, Copies, Stores, Counts, Running
<1> QED
  BY <1>1, <1>2, <1>3, TypedAlways, EntriesAlways, PTL DEF Spec
=============================================================================
