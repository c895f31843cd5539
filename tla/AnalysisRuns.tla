---------------------------- MODULE AnalysisRuns ----------------------------
(***************************************************************************)
(* The analyses of one project: their runs, the bucket where the input and *)
(* the results travel, the queue and its worker, and the pruning of old    *)
(* runs.                                                                   *)
(*                                                                         *)
(* A run is created by an administrator or by the scheduler, call by call. *)
(* Every replica receives every event of the queue and may handle it at    *)
(* any time; whoever closes a run prunes the oldest ones, call by call.  A *)
(* process that dies takes no further step.                                *)
(*                                                                         *)
(* What the project holds is its version: each change is a new one, and a  *)
(* fingerprint tells versions apart.  Left out: the filters, the contents  *)
(* and stages of an analysis, partial results, the feedback on insights,   *)
(* the messages of a failure, and when the scheduler fires.  Time is left  *)
(* out: a run may be found too old at any moment.                          *)
(***************************************************************************)
EXTENDS Integers, FiniteSets

CONSTANTS
    MaxRuns,      \* bound: runs ever created; a run is known by its place in that order
    MaxData,      \* bound: changes of the analysed details
    KeepRuns,     \* KEEP_RUNS, smaller
    Requests      \* bound: requests and firings that create runs in flight at once

Runs == 1 .. MaxRuns
DataVersion == 0 .. MaxData

VARIABLES
    data,         \* the version of the details of the project
    run,          \* the analysis_runs collection
    files,        \* what the bucket holds under the prefix of each run
    queue,        \* where the queue has each run, or how its worker ended
    prune,        \* the pruning whoever closed each run does
    req           \* where each request is, and what it has read

vars == <<data, run, files, queue, prune, req>>

Active == {"pending", "running"}
Finished == {"done", "failed"}
Run ==
    [status : Active \cup Finished, kind : {"full", "insights"},
     analysed : DataVersion, print : DataVersion]
Unborn == [status |-> "none"]
Deleted == [status |-> "deleted"]

Idle == [pc |-> "idle"]
Request ==
    UNION {{Idle},
           [pc : {"export"}, print : DataVersion],
           [pc : {"create"}, kind : {"full", "insights"}, analysed : DataVersion,
            print : DataVersion],
           [pc : {"put", "enqueue", "fail"}, run : Runs]}

\* The runs to delete, and whether the files of one of them are gone.
Pruning == [pc : {"files", "run"}, old : SUBSET Runs, one : Runs \cup {0}]

\* One type invariant for the module.
TypeOK ==
    /\ data \in DataVersion
    /\ run \in [Runs -> Run \cup {Unborn, Deleted}]
    /\ files \in [Runs -> SUBSET {"input", "results"}]
    /\ queue \in [Runs -> {"out", "waiting", "active", "completed", "failed"}]
    /\ prune \in [Runs -> Pruning \cup {[pc |-> "no"], [pc |-> "list"]}]
    /\ req \in [Requests -> Request]

-----------------------------------------------------------------------------

IsActive(i) == run[i].status \in Active
IsFinished(i) == run[i].status \in Finished
Step(r, next) == req' = [req EXCEPT ![r] = next]

\* What toDto says of the run, and what results and input find in the bucket.
Stale(i) == run[i].print # data
Readable(i) == files[i] = {"input", "results"}

Init ==
    /\ data = 0
    /\ run = [i \in Runs |-> Unborn]
    /\ files = [i \in Runs |-> {}]
    /\ queue = [i \in Runs |-> "out"]
    /\ prune = [i \in Runs |-> [pc |-> "no"]]
    /\ req = [r \in Requests |-> Idle]

\* A detail of the project is created, changed, moderated or removed.
ChangeData ==
    /\ data < MaxData
    /\ data' = data + 1
    /\ UNCHANGED <<run, files, queue, prune, req>>

-----------------------------------------------------------------------------
(* Creating a run *)

\* A manual run: exportInput reads the details; the fingerprint comes later.
Export(r) ==
    /\ req[r] = Idle
    /\ Step(r, [pc |-> "create", kind |-> "full", analysed |-> data, print |-> data])
    /\ UNCHANGED <<data, run, files, queue, prune>>

\* The last full analysis done, if any, was of what the project holds.
Unchanged ==
    \E i \in Runs :
        /\ run[i].status = "done" /\ run[i].kind = "full" /\ run[i].print = data
        /\ \A k \in Runs : run[k].status = "done" /\ run[k].kind = "full" => k <= i

\* A firing of the scheduler finds changes, ...
Fire(r) ==
    /\ req[r] = Idle
    /\ ~Unchanged
    /\ Step(r, [pc |-> "export", print |-> data])
    /\ UNCHANGED <<data, run, files, queue, prune>>

\* ... and then creates a run like anyone.
FireExport(r) ==
    /\ req[r].pc = "export"
    /\ Step(r, [pc |-> "create", kind |-> "full", analysed |-> data, print |-> req[r].print])
    /\ UNCHANGED <<data, run, files, queue, prune>>

\* The guard reads a run that is done; its input is read before anything else.
Regenerate(r) ==
    /\ req[r] = Idle
    /\ \E i \in Runs :
        /\ run[i].status = "done" /\ "input" \in files[i]
        /\ Step(r, [pc |-> "create", kind |-> "insights",
                    analysed |-> run[i].analysed, print |-> run[i].print])
    /\ UNCHANGED <<data, run, files, queue, prune>>

\* Slip: the scheduler hands over the fingerprint it compared.
PrintRead(q) == q.print

\* A full run takes the fingerprint of what the project holds now.
PrintNow(q) == IF q.kind = "full" THEN data ELSE q.print

\* The unique index allows one active run; a second one is a 409.
Create(r) ==
    LET q == req[r]
    IN /\ q.pc = "create"
       /\ IF \E i \in Runs : IsActive(i)
          THEN Step(r, Idle) /\ UNCHANGED run
          ELSE \E i \in Runs :
                 /\ run[i] = Unborn
                 /\ \A k \in 1 .. i - 1 : run[k] # Unborn
                 /\ run' = [run EXCEPT ![i] = [status |-> "pending", kind |-> q.kind,
                              analysed |-> q.analysed, print |-> PrintNow(q)]]
                 /\ Step(r, [pc |-> "put", run |-> i])
       /\ UNCHANGED <<data, files, queue, prune>>

Put(r) ==
    /\ req[r].pc = "put"
    /\ files' = [files EXCEPT ![req[r].run] = @ \cup {"input"}]
    /\ Step(r, [req[r] EXCEPT !.pc = "enqueue"])
    /\ UNCHANGED <<data, run, queue, prune>>

Enqueue(r) ==
    /\ req[r].pc = "enqueue"
    /\ queue' = [queue EXCEPT ![req[r].run] = "waiting"]
    /\ Step(r, Idle)
    /\ UNCHANGED <<data, run, files, prune>>

\* The bucket or the queue refuses: the run fails, as from an event.
CannotEnqueue(r) ==
    /\ req[r].pc \in {"put", "enqueue"}
    /\ Step(r, [req[r] EXCEPT !.pc = "fail"])
    /\ UNCHANGED <<data, run, files, queue, prune>>

-----------------------------------------------------------------------------
(* The queue and its worker *)

\* The input is downloaded; what is not there, or is not valid, is a failure.
Take(i) ==
    /\ queue[i] = "waiting"
    /\ queue' = [queue EXCEPT ![i] = IF "input" \in files[i] THEN "active" ELSE "failed"]
    /\ UNCHANGED <<data, run, files, prune, req>>

\* The results go to the bucket, at an address that is good whatever became of the
\* run, and the worker returns a summary: done, or failed with a code.
Return(i) ==
    /\ queue[i] = "active"
    /\ \/ /\ files' = [files EXCEPT ![i] = @ \cup {"results"}]
          /\ queue' = [queue EXCEPT ![i] = "completed"]
       \/ /\ queue' = [queue EXCEPT ![i] = "failed"]
          /\ UNCHANGED files
    /\ UNCHANGED <<data, run, prune, req>>

-----------------------------------------------------------------------------
(* The events of the queue, in any replica, and the sweep of old runs *)

\* markRunning and progress, on time or late.
Running(i) ==
    /\ queue[i] \notin {"out", "waiting"}
    /\ run[i].status = "pending"
    /\ run' = [run EXCEPT ![i].status = "running"]
    /\ UNCHANGED <<data, files, queue, prune, req>>

Close(i, status) ==
    /\ run' = [run EXCEPT ![i].status = status]
    /\ prune' = [prune EXCEPT ![i] = [pc |-> "list"]]

\* Slip: a run that failed meanwhile is done after all.
CanCompleteLate(i) == run[i].status \in Active \cup {"failed"}

CanComplete(i) == IsActive(i)

\* The results are read and validated first.
Complete(i) ==
    /\ queue[i] = "completed"
    /\ CanComplete(i)
    /\ Close(i, IF "results" \in files[i] THEN "done" ELSE "failed")
    /\ UNCHANGED <<data, files, queue, req>>

\* A failed event or summary, a result that is not valid.
Fail(i) ==
    /\ queue[i] \in {"completed", "failed"}
    /\ IsActive(i)
    /\ Close(i, "failed")
    /\ UNCHANGED <<data, files, queue, req>>

FailRequest(r) ==
    LET i == req[r].run
    IN /\ req[r].pc = "fail"
       /\ IF IsActive(i) THEN Close(i, "failed") ELSE UNCHANGED <<run, prune>>
       /\ Step(r, Idle)
       /\ UNCHANGED <<data, files, queue>>

\* Slip: only runs that some worker took are found.
ExpireRunning(i) ==
    /\ run[i].status = "running"
    /\ Close(i, "failed")
    /\ UNCHANGED <<data, files, queue, req>>

\* Slip: a status of its own, which the schema does not have.
ExpireTimeout(i) ==
    /\ IsActive(i)
    /\ Close(i, "timeout")
    /\ UNCHANGED <<data, files, queue, req>>

\* A sweep: the run fails and leaves the queue, unless a worker has it.
Expire(i) ==
    /\ IsActive(i)
    /\ Close(i, "failed")
    /\ queue' = [queue EXCEPT ![i] = IF @ = "waiting" THEN "out" ELSE @]
    /\ UNCHANGED <<data, files, req>>

-----------------------------------------------------------------------------
(* prune, by whoever closed run i *)

\* Slip: a run in progress counts among the old ones.
OldOfAll == {i \in Runs : run[i] \notin {Unborn, Deleted} /\
    Cardinality({k \in Runs : k > i /\ run[k] \notin {Unborn, Deleted}}) >= KeepRuns}

\* All finished runs but the KeepRuns last ones.
Old == {i \in Runs : IsFinished(i) /\
    Cardinality({k \in Runs : k > i /\ IsFinished(k)}) >= KeepRuns}

ListOld(i) ==
    /\ prune[i].pc = "list"
    /\ prune' = [prune EXCEPT ![i] =
                   IF Old = {} THEN [pc |-> "no"] ELSE [pc |-> "files", old |-> Old, one |-> 0]]
    /\ UNCHANGED <<data, run, files, queue, req>>

\* The prefix of the next one...
DeleteFiles(i) ==
    /\ prune[i].pc = "files"
    /\ \E k \in prune[i].old :
        /\ files' = [files EXCEPT ![k] = {}]
        /\ prune' = [prune EXCEPT ![i] =
                       [pc |-> "run", old |-> prune[i].old \ {k}, one |-> k]]
    /\ UNCHANGED <<data, run, queue, req>>

\* ... then its document.
DeleteRun(i) ==
    /\ prune[i].pc = "run"
    /\ run' = [run EXCEPT ![prune[i].one] = Deleted]
    /\ prune' = [prune EXCEPT ![i] =
                   IF prune[i].old = {} THEN [pc |-> "no"]
                   ELSE [pc |-> "files", old |-> prune[i].old, one |-> 0]]
    /\ UNCHANGED <<data, files, queue, req>>

-----------------------------------------------------------------------------

Next ==
    \/ ChangeData
    \/ \E r \in Requests :
        \/ Export(r) \/ Fire(r) \/ FireExport(r) \/ Regenerate(r) \/ Create(r) \/ Put(r)
        \/ Enqueue(r) \/ CannotEnqueue(r) \/ FailRequest(r)
    \/ \E i \in Runs :
        \/ Take(i) \/ Return(i)
        \/ Running(i) \/ Complete(i) \/ Fail(i) \/ Expire(i)
        \/ ListOld(i) \/ DeleteFiles(i) \/ DeleteRun(i)

\* A sweep comes round every minute.  No worker has to be there, no event has to
\* arrive, and no request has to go on.
Fairness == \A i \in Runs : WF_vars(Expire(i))

Spec == Init /\ [][Next]_vars /\ Fairness

-----------------------------------------------------------------------------
(* Properties *)

\* Whoever dies, a run ends: the next one is not refused for ever by the unique
\* index (analysis.service.ts:395-405).
RunEnds == \A i \in Runs : []<>~IsActive(i)

\* A late result does not revive a run that timed out, a late failure does not
\* take back one that is done: the status of a finished run stays.
FinishedStays == \A i \in Runs : IsFinished(i) => run'[i] \in {run[i], Deleted}

\* A run that is done can be read, with the input it was made from, unless someone
\* is pruning it or died while doing so.
DoneReadable ==
    \A i \in Runs :
        run[i].status = "done" =>
            \/ Readable(i)
            \/ \E k \in Runs : prune[k].pc = "run" /\ prune[k].one = i

\* Pruning by several replicas at once, each with the list it read, leaves the
\* KeepRuns last finished runs and every active one.
KeepsRecent ==
    \A i \in Runs : run'[i] = Deleted /\ run[i] # Deleted =>
        /\ IsFinished(i)
        /\ Cardinality({k \in Runs : k > i /\ IsFinished(k)}) >= KeepRuns

\* A run that is shown as out of date analysed something else than what the project
\* holds now: the warning (FR-014) is never false.  (The converse is not so: details
\* that change between exportInput and fingerprint are in the fingerprint only.)
StaleIsTrue ==
    \A i \in Runs : run[i].status \in Active \cup Finished =>
        (Stale(i) => run[i].analysed # data)
=============================================================================
