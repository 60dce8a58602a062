------------------------------ MODULE RunLock ------------------------------
(***************************************************************************)
(* The run lock of scripts/run_daily.py: _pid_alive and _acquire_lock with *)
(* the cleanup it registers for the interpreter's exit.                    *)
(*                                                                         *)
(* A run is one execution of run_daily.main().  It has a pid on a host (a  *)
(* machine, or a container with its own pid namespace); the lock file may  *)
(* outlive it, because it is on a persistent volume in some deployments.   *)
(* A run dies without its exit handler in any step the constant KillPoints *)
(* names (SIGKILL, the out-of-memory killer, a node that goes away, or an  *)
(* error from the write of the pid).                                       *)
(***************************************************************************)
EXTENDS Naturals, FiniteSets

CONSTANTS
    Runs,        \* executions of run_daily.main(), each happens once
    Pids,        \* pids the hosts hand out, reused when the owner is gone
    NoPid,       \* what reading an empty, vanished or garbled file gives (0)
    Hosts,       \* pid namespaces that see the same state directory
    HostOf,      \* the host of each run
    Busy,        \* per host, the pids that programs other than runs hold
    PidReuse,    \* TRUE when a pid may come back (a container's first process
                 \* is always 1), FALSE when it does not within the model
    MayWait,     \* TRUE when _acquire_lock is called with timeout_sec > 0
    KillPoints   \* the steps a run may be killed in (bound of the model)

VARIABLES
    file,        \* the lock file: the set of directory entries at LOCK_PATH,
                 \* empty or one record of its content and its creator
    pc,          \* the step of each run
    pid,         \* the pid of each run
    seen,        \* existing_pid, as each run last read it
    clobbered    \* observation: a live run's lock file was removed by another

lockVars == <<file, pc, pid, seen, clobbered>>

\* "ready"     about to try the exclusive create
\* "created"   has created the file, has not written its pid
\* "reading"   the create failed with FileExistsError
\* "judging"   has read the file, has not decided
\* "removing"  has decided that the file is stale, has not unlinked it
\* "running"   holds the lock, main() is at work
\* "refused"   left with SystemExit
Steps == {"idle", "ready", "created", "reading", "judging", "removing",
          "running", "exited", "refused", "killed"}
Ended == {"exited", "refused", "killed"}
Killable == Steps \ ({"idle"} \cup Ended)

ASSUME RunLockAssumption ==
    /\ NoPid \notin Pids
    /\ HostOf \in [Runs -> Hosts]
    /\ Busy \in [Hosts -> SUBSET Pids]
    /\ PidReuse \in BOOLEAN
    /\ MayWait \in BOOLEAN
    /\ KillPoints \subseteq Killable

LockEntry == [pid : Pids \cup {NoPid}, creator : Runs]

IsLive(r) == pc[r] \in Killable
Holding(r) == pc[r] \in {"created", "running"}

\* _pid_alive(n) asked on host h.
PidAlive(n, h) ==
    n \in Busy[h] \/ \E q \in Runs : IsLive(q) /\ HostOf[q] = h /\ pid[q] = n

LockTypeOK ==
    /\ file \in SUBSET LockEntry
    /\ pc \in [Runs -> Steps]
    /\ pid \in [Runs -> Pids \cup {NoPid}]
    /\ seen \in [Runs -> Pids \cup {NoPid}]
    /\ clobbered \in BOOLEAN

LockInit ==
    /\ file = {}
    /\ pc = [r \in Runs |-> "idle"]
    /\ pid = [r \in Runs |-> NoPid]
    /\ seen = [r \in Runs |-> NoPid]
    /\ clobbered = FALSE

-----------------------------------------------------------------------------
Goto(r, step) == pc' = [pc EXCEPT ![r] = step]

\* unlink(missing_ok=True) of LOCK_PATH by run r, whoever created the file.
Unlink(r) ==
    /\ file' = {}
    /\ clobbered' = (clobbered \/ \E e \in file : e.creator # r /\ Holding(e.creator))

\* The operating system starts the process with a pid no live process has.
PidFree(n, r) ==
    /\ n \notin Busy[HostOf[r]]
    /\ \A q \in Runs \ {r} :
          pid[q] = n => PidReuse /\ ~(IsLive(q) /\ HostOf[q] = HostOf[r])

Start(r) ==
    /\ pc[r] = "idle"
    /\ \E n \in Pids :
         /\ PidFree(n, r)
         /\ pid' = [pid EXCEPT ![r] = n]
    /\ Goto(r, "ready")
    /\ UNCHANGED <<file, seen, clobbered>>

\* Mutant: the file is opened without O_EXCL.
CreateShared(r) ==
    /\ pc[r] = "ready"
    /\ file' = {[pid |-> NoPid, creator |-> r]}
    /\ Goto(r, "created")
    /\ UNCHANGED <<pid, seen, clobbered>>

\* os.open(LOCK_PATH, O_CREAT | O_EXCL | O_WRONLY) succeeds: an empty file.
Create(r) ==
    /\ pc[r] = "ready"
    /\ file = {}
    /\ file' = {[pid |-> NoPid, creator |-> r]}
    /\ Goto(r, "created")
    /\ UNCHANGED <<pid, seen, clobbered>>

\* ... or fails with FileExistsError.
CreateFails(r) ==
    /\ pc[r] = "ready"
    /\ file # {}
    /\ Goto(r, "reading")
    /\ UNCHANGED <<file, pid, seen, clobbered>>

\* f.write(str(pid)) goes to the file the run has open: if the directory entry
\* was unlinked meanwhile, the write changes nothing that anybody can read.
WritePid(r) ==
    /\ pc[r] = "created"
    /\ file' = {IF e.creator = r THEN [e EXCEPT !.pid = pid[r]] ELSE e : e \in file}
    /\ Goto(r, "running")
    /\ UNCHANGED <<pid, seen, clobbered>>

\* existing_pid = int(read_text() or "0"), 0 when the file is empty or gone.
ReadPid(r) ==
    /\ pc[r] = "reading"
    /\ \/ \E e \in file : seen' = [seen EXCEPT ![r] = e.pid]
       \/ file = {} /\ seen' = [seen EXCEPT ![r] = NoPid]
    /\ Goto(r, "judging")
    /\ UNCHANGED <<file, pid, clobbered>>

\* Mutant: no stale-lock detection.
StaleNever(r) == FALSE

Stale(r) == seen[r] # NoPid /\ ~PidAlive(seen[r], HostOf[r])

FindStale(r) ==
    /\ pc[r] = "judging"
    /\ Stale(r)
    /\ Goto(r, "removing")
    /\ UNCHANGED <<file, pid, seen, clobbered>>

RemoveStale(r) ==
    /\ pc[r] = "removing"
    /\ Unlink(r)
    /\ Goto(r, "ready")
    /\ UNCHANGED <<pid, seen>>

\* SystemExit: at once with timeout_sec = 0, else when the wait is over.
Refuse(r) ==
    /\ pc[r] = "judging"
    /\ ~Stale(r)
    /\ Goto(r, "refused")
    /\ UNCHANGED <<file, pid, seen, clobbered>>

\* time.sleep(2) and another round, while timeout_sec has not passed.
Wait(r) ==
    /\ MayWait
    /\ pc[r] = "judging"
    /\ ~Stale(r)
    /\ Goto(r, "ready")
    /\ UNCHANGED <<file, pid, seen, clobbered>>

\* main() is over: the interpreter runs _cleanup and the process ends.
Exit(r) ==
    /\ pc[r] = "running"
    /\ Unlink(r)
    /\ Goto(r, "exited")
    /\ UNCHANGED <<pid, seen>>

Kill(r) ==
    /\ pc[r] \in KillPoints
    /\ Goto(r, "killed")
    /\ UNCHANGED <<file, pid, seen, clobbered>>

LockStep(r) ==
    \/ Create(r) \/ CreateFails(r) \/ WritePid(r)
    \/ ReadPid(r) \/ FindStale(r) \/ RemoveStale(r)
    \/ Refuse(r) \/ Wait(r) \/ Exit(r)

LockNext == \E r \in Runs : Start(r) \/ LockStep(r) \/ Kill(r)

LockSpec == LockInit /\ [][LockNext]_lockVars

\* A live process keeps taking its steps.  Nothing forces a start or a kill,
\* and a wait is not for ever: timeout_sec bounds the rounds.
FairLockSpec ==
    /\ LockSpec
    /\ \A r \in Runs : WF_lockVars(LockStep(r)) /\ SF_lockVars(Refuse(r))

-----------------------------------------------------------------------------
\* "Prevent overlapping runs": no two runs are past _acquire_lock together.
MutualExclusion ==
    \A q, r \in Runs : pc[q] = "running" /\ pc[r] = "running" => q = r

\* Two runs overlap only when one of them unlinked the lock file of another
\* live run.  This names the one way in which _acquire_lock fails: unlink acts
\* on the path, not on the file whose pid was read.
OverlapOnlyByUnlink == clobbered \/ MutualExclusion

\* A run at work still has its own file, with its own pid in it, at LOCK_PATH,
\* so that later runs recognise it, unless it was unlinked by another run.
HolderIsOnFile ==
    clobbered \/ \A r \in Runs :
        pc[r] = "running" => file = {[pid |-> pid[r], creator |-> r]}

Alone(r) == \A q \in Runs \ {r} : ~IsLive(q)

\* The lock file of an earlier run that r takes for one in use: it is empty,
\* because its run was killed between the create and the write of the pid, or
\* its pid is that of a live process of r's host, r itself (a container's pid 1
\* on a persistent volume) and programs that are no runs among them.
LooksHeld(r) ==
    \E e \in file : e.creator # r /\ (e.pid = NoPid \/ PidAlive(e.pid, HostOf[r]))

\* A run that starts while no other run is alive gets the lock, whatever lock a
\* killed run left behind, unless that lock looks held; then it is refused, and
\* so is every later run it looks held to.  (Both unless the run is killed or a
\* third one shows up.)  The docstring's "detects stale locks" has these limits.
AloneIsAdmitted ==
    \A r \in Runs :
        /\ (pc[r] = "ready" /\ Alone(r) /\ ~LooksHeld(r))
              ~> (pc[r] \in {"running", "killed"} \/ ~Alone(r))
        /\ (pc[r] = "ready" /\ Alone(r) /\ LooksHeld(r))
              ~> (pc[r] \in {"refused", "killed"} \/ ~Alone(r))

\* The abstract lock: at most one holder, who releases it or dies with it.
Holder == {r \in Runs : Holding(r)}
Mutex == INSTANCE Mutex WITH holder <- Holder
ImplementsMutex == Mutex!Spec
=============================================================================
