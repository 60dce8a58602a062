------------------------------ MODULE RunIndex ------------------------------
(***************************************************************************)
(* The index of finished runs, ji_engine/run_repository.py: an SQLite file *)
(* rebuilt from the index.json of the run directories, and the queries     *)
(* that read it (dashboard, insights), rebuild it when they cannot, and    *)
(* fall back to the directories.                                           *)
(*                                                                         *)
(* Readers are threads of the dashboard or other processes; rebuilders are *)
(* invocations of scripts/rebuild_run_index.py.  One candidate; the legacy *)
(* place of the file and the limit of a listing are left out.  The daily   *)
(* runs, which write the directories one after the other, are the          *)
(* environment.                                                            *)
(***************************************************************************)
EXTENDS Naturals, FiniteSets

CONSTANTS
    Runs,         \* the daily runs, numbers in the order of their run_id
    Readers,      \* callers of list_runs and get_run
    Rebuilders    \* processes of rebuild_run_index.py

Procs == Readers \cup Rebuilders

VARIABLES
    dirs,         \* index.json of each run directory
    tmp,          \* run_index.tmp, the one temporary path of all rebuilds
    db,           \* run_index.sqlite
    pc,           \* the step of each process
    call,         \* its query
    found,        \* the entries its rebuild has scanned
    crossed,      \* processes whose open file another one has opened, removed
                  \* or renamed: SQLite promises them nothing
    result,       \* the runs its last query returned
    steady,       \* observation: runs whole since its call began
    alone         \* observation: processes whose call no other rebuild met

files == <<tmp, db, crossed>>
vars == <<dirs, files, pc, call, found, result, steady, alone>>

Rebuilding == {"checking", "unlinking", "scanning", "opening", "filling", "replacing"}
Steps == {"idle", "asking", "falling", "done", "raised"} \cup Rebuilding

\* A query: whether it lists or gets one run, and whether it has caught an
\* error before.  A rebuild of the script has no second chance.
Calls == [op : {"list", "get", "rebuild"}, run : Runs, again : BOOLEAN]

\* A path: no file, a file in which SQLite finds no table or finds it
\* malformed, or one with rows; and the processes that have the file open.
Files == [is : {"missing", "broken", "index"}, rows : SUBSET Runs, open : SUBSET Procs]
NoFile == [is |-> "missing", rows |-> {}, open |-> {}]

ASSUME IndexAssumption == Runs \subseteq Nat /\ Runs # {}

TypeOK ==
    /\ dirs \in [Runs -> {"absent", "writing", "whole", "torn"}]
    /\ tmp \in Files
    /\ db \in Files
    /\ pc \in [Procs -> Steps]
    /\ call \in [Procs -> Calls]
    /\ found \in [Procs -> SUBSET Runs]
    /\ crossed \subseteq Procs
    /\ result \in [Procs -> SUBSET Runs]
    /\ steady \in [Procs -> SUBSET Runs]
    /\ alone \subseteq Procs

\* The run field of a call that does not name a run.
AnyRun == CHOOSE r \in Runs : TRUE

Init ==
    /\ dirs = [r \in Runs |-> "absent"]
    /\ tmp = NoFile
    /\ db = NoFile
    /\ pc = [p \in Procs |-> "idle"]
    /\ call = [p \in Procs |-> [op |-> "rebuild", run |-> AnyRun, again |-> TRUE]]
    /\ found = [p \in Procs |-> {}]
    /\ crossed = {}
    /\ result = [p \in Procs |-> {}]
    /\ steady = [p \in Procs |-> {}]
    /\ alone = Procs

Goto(p, step) == pc' = [pc EXCEPT ![p] = step]

\* _scan_runs_from_filesystem: a missing or unreadable index.json is skipped.
Whole == {r \in Runs : dirs[r] = "whole"}

-----------------------------------------------------------------------------
\* A daily run starts to write its index.json, in place; so does the second
\* _finalize of a run whose publication failed.
BeginIndex(r) ==
    /\ \A q \in Runs : dirs[q] # "writing"
    /\ \A q \in Runs : q > r => dirs[q] = "absent"
    /\ dirs[r] # "torn"
    /\ dirs' = [dirs EXCEPT ![r] = "writing"]
    /\ steady' = [p \in Procs |-> steady[p] \ {r}]
    /\ UNCHANGED <<files, pc, call, found, result, alone>>

\* ... and ends, or is killed in between.
EndIndex(r, how) ==
    /\ dirs[r] = "writing"
    /\ dirs' = [dirs EXCEPT ![r] = how]
    /\ UNCHANGED <<files, pc, call, found, result, steady, alone>>

-----------------------------------------------------------------------------
\* A rebuild starts; it and those under way are no longer alone.
EnterRebuild(p) ==
    LET others == {q \in Procs \ {p} : pc[q] \in Rebuilding}
    IN  alone' = IF others = {} THEN alone ELSE alone \ (others \cup {p})

Query(p, op, r) ==
    /\ pc[p] \in {"idle", "done", "raised"}
    /\ call' = [call EXCEPT ![p] = [op |-> op, run |-> r, again |-> FALSE]]
    /\ Goto(p, "asking")
    /\ steady' = [steady EXCEPT ![p] = Whole]
    /\ alone' = alone \cup {p}
    /\ UNCHANGED <<dirs, files, found, result>>

List(p) == Query(p, "list", AnyRun)

Get(p, r) == Query(p, "get", r)

\* rebuild_run_index.py is started.
RunRebuild(p) ==
    LET others == {q \in Procs \ {p} : pc[q] \in Rebuilding} IN
    /\ pc[p] \in {"idle", "done", "raised"}
    /\ Goto(p, "checking")
    /\ steady' = [steady EXCEPT ![p] = Whole]
    /\ alone' = IF others = {} THEN alone \cup {p} ELSE alone \ (others \cup {p})
    /\ UNCHANGED <<dirs, files, call, found, result>>

\* _read_rows, _read_one: there is no file yet.
Missing(p) ==
    /\ pc[p] = "asking"
    /\ db.is = "missing"
    /\ Goto(p, "checking")
    /\ EnterRebuild(p)
    /\ UNCHANGED <<dirs, files, call, found, result, steady>>

\* Mutant: a run that the index does not have does not exist.
FallsBackWhenEmpty(c, rows) == c.op = "list" /\ rows = {} /\ ~c.again

\* A readable index sends the caller to the directories nevertheless.
FallsBack(c, rows) ==
    \/ c.op = "list" /\ rows = {} /\ ~c.again
    \/ c.op = "get" /\ c.run \notin rows

\* What a query makes of the rows of the index, or of the directories.
Answer(c, rows) == IF c.op = "get" THEN rows \cap {c.run} ELSE rows

\* The SELECT of _read_rows or _read_one.
Select(p) ==
    /\ pc[p] = "asking"
    /\ db.is = "index"
    /\ IF FallsBack(call[p], db.rows)
       THEN Goto(p, "falling") /\ UNCHANGED result
       ELSE Goto(p, "done") /\ result' = [result EXCEPT ![p] = Answer(call[p], db.rows)]
    /\ UNCHANGED <<dirs, files, call, found, steady, alone>>

\* The SELECT raises; the first time the index is rebuilt.
SelectFails(p) ==
    /\ pc[p] = "asking"
    /\ db.is = "broken"
    /\ IF call[p].again
       THEN Goto(p, "falling") /\ UNCHANGED <<call, alone>>
       ELSE /\ Goto(p, "checking")
            /\ call' = [call EXCEPT ![p].again = TRUE]
            /\ EnterRebuild(p)
    /\ UNCHANGED <<dirs, files, found, result, steady>>

\* _fallback, and the loop at the end of get_run.
ScanInstead(p) ==
    /\ pc[p] = "falling"
    /\ result' = [result EXCEPT ![p] = Answer(call[p], Whole)]
    /\ Goto(p, "done")
    /\ UNCHANGED <<dirs, files, call, found, steady, alone>>

-----------------------------------------------------------------------------
(* rebuild_index. *)

\* Mutant: the leftover is removed without asking whether there is one.
CheckNothing(p) ==
    /\ pc[p] = "checking"
    /\ Goto(p, "unlinking")
    /\ UNCHANGED <<dirs, files, call, found, result, steady, alone>>

CheckTmp(p) ==
    /\ pc[p] = "checking"
    /\ Goto(p, IF tmp.is = "missing" THEN "scanning" ELSE "unlinking")
    /\ UNCHANGED <<dirs, files, call, found, result, steady, alone>>

\* An exception leaves rebuild_index: a query that has caught none yet
\* rebuilds once more, the others let it pass.
Raises(p) ==
    IF ~call[p].again
    THEN /\ Goto(p, "checking")
         /\ call' = [call EXCEPT ![p].again = TRUE]
         /\ EnterRebuild(p)
    ELSE Goto(p, "raised") /\ UNCHANGED <<call, alone>>

UnlinkTmp(p) ==
    /\ pc[p] = "unlinking"
    /\ tmp.is # "missing"
    /\ crossed' = crossed \cup tmp.open
    /\ tmp' = NoFile
    /\ Goto(p, "scanning")
    /\ UNCHANGED <<dirs, db, call, found, result, steady, alone>>

\* Another rebuild has removed or renamed it since: FileNotFoundError.
UnlinkFails(p) ==
    /\ pc[p] = "unlinking"
    /\ tmp.is = "missing"
    /\ Raises(p)
    /\ UNCHANGED <<dirs, files, found, result, steady>>

Scan(p) ==
    /\ pc[p] = "scanning"
    /\ found' = [found EXCEPT ![p] = Whole]
    /\ Goto(p, "opening")
    /\ UNCHANGED <<dirs, files, call, result, steady, alone>>

\* Mutant: the index is filled in its place.
OpenInPlace(p) ==
    /\ pc[p] = "opening"
    /\ db' = [is |-> "broken", rows |-> {}, open |-> db.open \cup {p}]
    /\ Goto(p, "filling")
    /\ UNCHANGED <<dirs, tmp, crossed, call, found, result, steady, alone>>

\* sqlite3.connect: the file is created, or another's is opened.  Two open
\* files at one path share the path of their write-ahead log.
OpenTmp(p) ==
    LET filling == {q \in Procs \ {p} : pc[q] = "filling"} IN
    /\ pc[p] = "opening"
    /\ tmp' = IF tmp.is = "missing"
              THEN [is |-> "broken", rows |-> {}, open |-> {p}]
              ELSE [tmp EXCEPT !.open = @ \cup {p}]
    /\ crossed' = IF filling = {} THEN crossed \ {p} ELSE crossed \cup filling \cup {p}
    /\ Goto(p, "filling")
    /\ UNCHANGED <<dirs, db, call, found, result, steady, alone>>

Left(p, file) == [file EXCEPT !.open = @ \ {p}]

Filled(p, file, rows) == [Left(p, file) EXCEPT !.is = "index", !.rows = rows]

\* What the file of p may be once p has closed it: its transaction, or, when
\* others have meddled with it, anything that they might have left.
Outcomes(p, file) ==
    IF p \in crossed
    THEN {Left(p, file), [Left(p, file) EXCEPT !.is = "broken", !.rows = {}]}
            \cup {Filled(p, file, found[q]) : q \in Procs}
    ELSE {Filled(p, file, found[p])}

\* Schema, DELETE, INSERTs, commit, close: the log is copied into the file,
\* wherever its path leads by now.
CloseTmp(p) ==
    /\ pc[p] = "filling"
    /\ \/ p \in tmp.open /\ tmp' \in Outcomes(p, tmp) /\ UNCHANGED db
       \/ p \in db.open /\ db' \in Outcomes(p, db) /\ UNCHANGED tmp
       \/ p \notin tmp.open \cup db.open /\ UNCHANGED <<tmp, db>>
    /\ crossed' = crossed \ {p}
    /\ Goto(p, "replacing")
    /\ UNCHANGED <<dirs, call, found, result, steady, alone>>

\* SQLite notices that the file is not its own any more, or is busy.
FillFails(p) ==
    /\ pc[p] = "filling"
    /\ p \in crossed
    /\ tmp' = Left(p, tmp)
    /\ db' = Left(p, db)
    /\ crossed' = crossed \ {p}
    /\ Raises(p)
    /\ UNCHANGED <<dirs, found, result, steady>>

\* os.replace, and the return to the query or to the script.
Replace(p) ==
    /\ pc[p] = "replacing"
    /\ tmp.is # "missing"
    /\ db' = tmp
    /\ tmp' = NoFile
    /\ crossed' = crossed \cup tmp.open
    /\ Goto(p, IF call[p].op = "rebuild" THEN "done" ELSE "asking")
    /\ UNCHANGED <<dirs, call, found, result, steady, alone>>

ReplaceFails(p) ==
    /\ pc[p] = "replacing"
    /\ tmp.is = "missing"
    /\ Raises(p)
    /\ UNCHANGED <<dirs, files, found, result, steady>>

\* The process dies.  What it had open stays as it is.
Kill(p) ==
    /\ pc[p] \in Rebuilding
    /\ tmp' = Left(p, tmp)
    /\ db' = Left(p, db)
    /\ crossed' = crossed \ {p}
    /\ Goto(p, "idle")
    /\ UNCHANGED <<dirs, call, found, result, steady, alone>>

RebuildStep(p) ==
    \/ CheckTmp(p) \/ UnlinkTmp(p) \/ UnlinkFails(p) \/ Scan(p) \/ OpenTmp(p)
    \/ CloseTmp(p) \/ FillFails(p) \/ Replace(p) \/ ReplaceFails(p)

QueryStep(p) == Missing(p) \/ Select(p) \/ SelectFails(p) \/ ScanInstead(p)

Next ==
    \/ \E r \in Runs : BeginIndex(r) \/ \E how \in {"whole", "torn"} : EndIndex(r, how)
    \/ \E p \in Readers : List(p) \/ \E r \in Runs : Get(p, r)
    \/ \E p \in Rebuilders : RunRebuild(p)
    \/ \E p \in Procs : QueryStep(p) \/ RebuildStep(p) \/ Kill(p)

Spec == Init /\ [][Next]_vars

-----------------------------------------------------------------------------
\* However old the index is, get_run finds a run whose index.json is there
\* from the beginning of the call to its end.
GetFindsWhole ==
    \A p \in Readers :
        pc[p] = "done" /\ call[p].op = "get" /\ call[p].run \in steady[p]
            => result[p] = {call[p].run}

\* A query whose rebuilds meet no other rebuild never raises, whatever the
\* rebuilds before it have left: leftovers of killed ones, an unreadable file.
AvailableWhenAlone == \A p \in Procs : pc[p] = "raised" => p \notin alone

\* Readers come to see an index that is partly written only through two
\* rebuilds at a time; a rebuild that is alone, or killed, never causes it.
PartialNeedsOverlap ==
    [][db'.is = "broken" /\ db.is # "broken" =>
          \E p \in Procs : pc[p] \in {"filling", "replacing"} /\ p \notin alone]_vars
=============================================================================
