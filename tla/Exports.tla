------------------------------ MODULE Exports ------------------------------
(***************************************************************************)
(* The exports of one project.  A short one is rendered in the answer.  A  *)
(* long CSV, Excel or Gherkin file (format "file") is generated by a       *)
(* worker inside api.  A report (format "pdf") is generated by the         *)
(* analytics worker, its input and its output travelling by the bucket.    *)
(*                                                                         *)
(* A process that dies takes no further step; the death of a worker of api *)
(* is an action of its own, for what it was generating is then lost.  A    *)
(* queue hands a job out again when it takes its worker for dead, which it *)
(* may not be.  Every replica may handle every event of a queue, late and  *)
(* more than once.                                                         *)
(*                                                                         *)
(* Left out: filters, options and the file itself, names and messages, the *)
(* audit, and the refusals that create nothing.  The three formats of      *)
(* file behave alike and are one.  Time is left out: a report may be found *)
(* too old, and a file expire, at any moment.                              *)
(***************************************************************************)
EXTENDS Integers, FiniteSets

CONSTANTS
    MaxExports,   \* bound: exports ever created; one is known by its place in that order
    Workers       \* the workers of the queue export-files, one in each replica of api

Exports == 1 .. MaxExports

VARIABLES
    export,       \* the exports collection
    bucket,       \* what the bucket holds for each export
    queue,        \* where its queue has each export, or how its worker ended
    request,      \* the call the request that created it has to make next
    after,        \* the calls whoever failed or completed it has still to make
    worker,       \* what each worker of export-files is generating
    sweep,        \* where the deletion of each expired file is
    lost          \* history: files whose job was never enqueued, whose worker died, or
                  \* whose worker could not write what became of them

vars == <<export, bucket, queue, request, after, worker, sweep, lost>>

Active == {"pending", "running"}
Finished == {"done", "failed"}
Unborn == [status |-> "none"]
Export ==
    [format : {"pdf", "file"}, mode : {"sync", "async"}, status : Active \cup Finished,
     fileKey : BOOLEAN, expires : {"never", "later", "past"}]

Free == [pc |-> "free"]
Generating == [pc : {"render", "finish"}, export : Exports]

\* One type invariant for the module.
TypeOK ==
    /\ export \in [Exports -> Export \cup {Unborn}]
    /\ bucket \in [Exports -> SUBSET {"input", "file"}]
    /\ queue \in [Exports -> {"out", "waiting", "active", "completed", "failed"}]
    /\ request \in [Exports -> {"none", "put", "enqueue", "fail"}]
    /\ after \in [Exports -> SUBSET {"clean", "remove"}]
    /\ worker \in [Workers -> Generating \cup {Free}]
    /\ sweep \in [Exports -> {"no", "delete", "forget"}]
    /\ lost \subseteq Exports

-----------------------------------------------------------------------------

IsActive(e) == export[e].status \in Active
IsFinished(e) == export[e].status \in Finished
Is(e, format) == export[e] # Unborn /\ export[e].format = format

Init ==
    /\ export = [e \in Exports |-> Unborn]
    /\ bucket = [e \in Exports |-> {}]
    /\ queue = [e \in Exports |-> "out"]
    /\ request = [e \in Exports |-> "none"]
    /\ after = [e \in Exports |-> {}]
    /\ worker = [w \in Workers |-> Free]
    /\ sweep = [e \in Exports |-> "no"]
    /\ lost = {}

NewExport(e, format, mode, status) ==
    /\ export[e] = Unborn
    /\ \A k \in 1 .. e - 1 : export[k] # Unborn
    /\ export' = [export EXCEPT ![e] = [format |-> format, mode |-> mode, status |-> status,
                                        fileKey |-> FALSE, expires |-> "never"]]

\* The unique index: one export of a format in progress.
Create(e, format) ==
    /\ \A k \in Exports : Is(k, format) => ~IsActive(k)
    /\ NewExport(e, format, "async", "pending")
    /\ request' = [request EXCEPT ![e] = IF format = "pdf" THEN "put" ELSE "enqueue"]
    /\ UNCHANGED <<bucket, queue, after, worker, sweep, lost>>

\* Few details: the file is the answer and is not kept.
CreateSync(e) ==
    /\ NewExport(e, "file", "sync", "done")
    /\ UNCHANGED <<bucket, queue, request, after, worker, sweep, lost>>

PutInput(e) ==
    /\ request[e] = "put"
    /\ bucket' = [bucket EXCEPT ![e] = @ \cup {"input"}]
    /\ request' = [request EXCEPT ![e] = "enqueue"]
    /\ UNCHANGED <<export, queue, after, worker, sweep, lost>>

Enqueue(e) ==
    /\ request[e] = "enqueue"
    /\ queue' = [queue EXCEPT ![e] = "waiting"]
    /\ request' = [request EXCEPT ![e] = "none"]
    /\ UNCHANGED <<export, bucket, after, worker, sweep, lost>>

\* The bucket or the queue refuses, or the process dies: only a report is failed.
CannotEnqueue(e) ==
    /\ request[e] \in {"put", "enqueue"}
    /\ \/ /\ Is(e, "pdf")
          /\ request' = [request EXCEPT ![e] = "fail"]
          /\ UNCHANGED lost
       \/ /\ Is(e, "file")
          /\ request' = [request EXCEPT ![e] = "none"]
          /\ lost' = lost \cup {e}
    /\ UNCHANGED <<export, bucket, queue, after, worker, sweep>>

-----------------------------------------------------------------------------
(* Reports: the analytics worker, the events of its queue, the sweep *)

\* What cannot be read is a failure.
Take(e) ==
    /\ queue[e] = "waiting" /\ Is(e, "pdf")
    /\ queue' = [queue EXCEPT ![e] = IF "input" \in bucket[e] THEN "active" ELSE "failed"]
    /\ UNCHANGED <<export, bucket, request, after, worker, sweep, lost>>

\* The report is uploaded to an address that is good whatever became of the export,
\* and then the worker says it is done; or there is no report, or no upload.
Return(e) ==
    /\ queue[e] = "active" /\ Is(e, "pdf")
    /\ \/ /\ bucket' = [bucket EXCEPT ![e] = @ \cup {"file"}]
          /\ queue' = [queue EXCEPT ![e] = "completed"]
       \/ /\ queue' = [queue EXCEPT ![e] = "failed"]
          /\ UNCHANGED bucket
    /\ UNCHANGED <<export, request, after, worker, sweep, lost>>

MarkRunning(e) ==
    /\ queue[e] \notin {"out", "waiting"} /\ Is(e, "pdf")
    /\ export[e].status = "pending"
    /\ export' = [export EXCEPT ![e].status = "running"]
    /\ UNCHANGED <<bucket, queue, request, after, worker, sweep, lost>>

CanComplete(e) == IsActive(e)

Returned(e) == queue[e] = "completed"

\* The input goes in a later call, by whoever completed the report.
Complete(e) ==
    /\ Returned(e) /\ Is(e, "pdf")
    /\ CanComplete(e)
    /\ export' = [export EXCEPT ![e] = [@ EXCEPT !.status = "done", !.fileKey = TRUE,
                                                 !.expires = "later"]]
    /\ after' = [after EXCEPT ![e] = @ \cup {"clean"}]
    /\ UNCHANGED <<bucket, queue, request, worker, sweep, lost>>

\* Slip: the calls come first, and the status after them.
FailReportLate(e, calls) ==
    /\ after' = [after EXCEPT ![e] = @ \cup calls]
    /\ UNCHANGED export

FailReport(e, calls) ==
    IF IsActive(e)
    THEN /\ export' = [export EXCEPT ![e].status = "failed"]
         /\ after' = [after EXCEPT ![e] = @ \cup calls]
    ELSE UNCHANGED <<export, after>>

\* A failed event or a summary of failure.
Fail(e) ==
    /\ queue[e] = "failed" /\ Is(e, "pdf") /\ IsActive(e)
    /\ FailReport(e, {"clean"})
    /\ UNCHANGED <<bucket, queue, request, worker, sweep, lost>>

FailRequest(e) ==
    /\ request[e] = "fail"
    /\ request' = [request EXCEPT ![e] = "none"]
    /\ FailReport(e, {"clean"})
    /\ UNCHANGED <<bucket, queue, worker, sweep, lost>>

\* Slip: only what a worker took is looked for.
TooOldRunning(e) == export[e].status = "running"

TooOld(e) == IsActive(e)

Timeout(e) ==
    /\ Is(e, "pdf") /\ TooOld(e)
    /\ FailReport(e, {"clean", "remove"})
    /\ UNCHANGED <<bucket, queue, request, worker, sweep, lost>>

\* Slip: the prefix without its last bar is that of the report too.
UnderAll(e) == {"input", "file"}

\* What the bucket has under the prefix of the input.
UnderPrefix(e) == {"input"}

CleanInput(e) ==
    /\ "clean" \in after[e]
    /\ bucket' = [bucket EXCEPT ![e] = @ \ UnderPrefix(e)]
    /\ after' = [after EXCEPT ![e] = @ \ {"clean"}]
    /\ UNCHANGED <<export, queue, request, worker, sweep, lost>>

\* A job that a worker has is not removed.
RemoveJob(e) ==
    /\ "remove" \in after[e]
    /\ queue' = [queue EXCEPT ![e] = IF @ = "waiting" THEN "out" ELSE @]
    /\ after' = [after EXCEPT ![e] = @ \ {"remove"}]
    /\ UNCHANGED <<export, bucket, request, worker, sweep, lost>>

-----------------------------------------------------------------------------
(* Files: the workers of api *)

\* Slip: whatever its state, the export is generated.
CanGenerateAny(e) == TRUE

CanGenerate(e) == export[e].status = "pending"

\* Who finds it in another state has nothing to do, and the job ends.
Generate(w, e) ==
    /\ worker[w] = Free
    /\ queue[e] = "waiting" /\ Is(e, "file")
    /\ IF CanGenerate(e)
       THEN /\ export' = [export EXCEPT ![e].status = "running"]
            /\ worker' = [worker EXCEPT ![w] = [pc |-> "render", export |-> e]]
            /\ queue' = [queue EXCEPT ![e] = "active"]
       ELSE /\ queue' = [queue EXCEPT ![e] = "completed"]
            /\ UNCHANGED <<export, worker>>
    /\ UNCHANGED <<bucket, request, after, sweep, lost>>

Store(w) ==
    LET e == worker[w].export
    IN /\ worker[w].pc = "render"
       /\ bucket' = [bucket EXCEPT ![e] = @ \cup {"file"}]
       /\ worker' = [worker EXCEPT ![w].pc = "finish"]
       /\ UNCHANGED <<export, queue, request, after, sweep, lost>>

Finish(w) ==
    LET e == worker[w].export
    IN /\ worker[w].pc = "finish"
       /\ export' = [export EXCEPT ![e] = [@ EXCEPT !.status = "done", !.fileKey = TRUE,
                                                    !.expires = "later"]]
       /\ queue' = [queue EXCEPT ![e] = IF @ = "active" THEN "completed" ELSE @]
       /\ worker' = [worker EXCEPT ![w] = Free]
       /\ UNCHANGED <<bucket, request, after, sweep, lost>>

\* The export cannot be claimed: the job ends as failed, and is not tried again.
ClaimFails(e) ==
    /\ queue[e] = "waiting" /\ Is(e, "file")
    /\ queue' = [queue EXCEPT ![e] = "failed"]
    /\ lost' = lost \cup {e}
    /\ UNCHANGED <<export, bucket, request, after, worker, sweep>>

\* Slip: the error is only written to the log.
FailedStatusKept(e) == export[e].status

\* Slip: a status the schema does not have.
FailedStatusOther(e) == "error"

FailedStatus(e) == "failed"

\* Rendering, storing or finishing fails; what was stored stays in the bucket.
GenerateFails(w) ==
    LET e == worker[w].export
    IN /\ worker[w] # Free
       /\ export' = [export EXCEPT ![e].status = FailedStatus(e)]
       /\ queue' = [queue EXCEPT ![e] = IF @ = "active" THEN "completed" ELSE @]
       /\ worker' = [worker EXCEPT ![w] = Free]
       /\ UNCHANGED <<bucket, request, after, sweep, lost>>

\* Writing that failure fails too, and the worker lives on: nobody tries again.
FailureFails(w) ==
    LET e == worker[w].export
    IN /\ worker[w] # Free
       /\ queue' = [queue EXCEPT ![e] = IF @ = "active" THEN "failed" ELSE @]
       /\ worker' = [worker EXCEPT ![w] = Free]
       /\ lost' = lost \cup {e}
       /\ UNCHANGED <<export, bucket, request, after, sweep>>

Die(w) ==
    /\ worker[w] # Free
    /\ worker' = [worker EXCEPT ![w] = Free]
    /\ lost' = lost \cup {worker[w].export}
    /\ UNCHANGED <<export, bucket, queue, request, after, sweep>>

\* A job without news from its worker, dead or only slow, is handed out again or
\* given up.  Of a failed job of export-files nobody hears.
Stall(e) ==
    /\ queue[e] = "active"
    /\ \E q \in {"waiting", "failed"} : queue' = [queue EXCEPT ![e] = q]
    /\ UNCHANGED <<export, bucket, request, after, worker, sweep, lost>>

-----------------------------------------------------------------------------
(* The expiry of files and reports *)

Expire(e) ==
    /\ export[e] # Unborn /\ export[e].expires = "later"
    /\ export' = [export EXCEPT ![e].expires = "past"]
    /\ UNCHANGED <<bucket, queue, request, after, worker, sweep, lost>>

\* Slip: only the files of api are swept.
IsExpiredFile(e) == export[e].expires = "past" /\ export[e].format = "file"

IsExpired(e) == export[e].expires = "past"

FindExpired(e) ==
    /\ export[e] # Unborn /\ export[e].fileKey /\ IsExpired(e)
    /\ sweep[e] = "no"
    /\ sweep' = [sweep EXCEPT ![e] = "delete"]
    /\ UNCHANGED <<export, bucket, queue, request, after, worker, lost>>

\* The key of the file is also a prefix, of this file only.
DeleteFile(e) ==
    /\ sweep[e] = "delete"
    /\ bucket' = [bucket EXCEPT ![e] = @ \ {"file"}]
    /\ sweep' = [sweep EXCEPT ![e] = "forget"]
    /\ UNCHANGED <<export, queue, request, after, worker, lost>>

ForgetFile(e) ==
    /\ sweep[e] = "forget"
    /\ export' = [export EXCEPT ![e].fileKey = FALSE]
    /\ sweep' = [sweep EXCEPT ![e] = "no"]
    /\ UNCHANGED <<bucket, queue, request, after, worker, lost>>

-----------------------------------------------------------------------------

Next ==
    \/ \E e \in Exports :
        \/ \E format \in {"pdf", "file"} : Create(e, format)
        \/ CreateSync(e) \/ PutInput(e) \/ Enqueue(e) \/ CannotEnqueue(e)
        \/ Take(e) \/ Return(e) \/ MarkRunning(e) \/ Complete(e) \/ Fail(e)
        \/ FailRequest(e) \/ Timeout(e) \/ CleanInput(e) \/ RemoveJob(e) \/ Stall(e)
        \/ ClaimFails(e)
        \/ Expire(e) \/ FindExpired(e) \/ DeleteFile(e) \/ ForgetFile(e)
    \/ \E w \in Workers :
        \/ \E e \in Exports : Generate(w, e)
        \/ Store(w) \/ Finish(w) \/ GenerateFails(w) \/ FailureFails(w) \/ Die(w)

\* A sweep of the reports comes round every 30 s, and the scheduled sweep of files
\* every hour, in some replica that lives through it.  Nothing else has to happen.
Fairness ==
    \A e \in Exports :
        /\ WF_vars(Timeout(e))
        /\ WF_vars(FindExpired(e)) /\ WF_vars(DeleteFile(e)) /\ WF_vars(ForgetFile(e))

Spec == Init /\ [][Next]_vars /\ Fairness

-----------------------------------------------------------------------------
(* Properties *)

\* Without a worker, without events, whoever dies: a report ends, and another can be
\* asked for (export-pdf.ts:176-188).
ReportEnds == \A e \in Exports : []<>~(Is(e, "pdf") /\ IsActive(e))

\* Late summaries and failures, a sweep, a job handed out again while its first
\* worker goes on: an export that ended stays as it ended.
FinishedStays == \A e \in Exports : IsFinished(e) => export'[e].status = export[e].status

\* The download of an export that is done and has not expired finds its file, however
\* the cleaning of the input and the sweep of other files fall.
Downloadable ==
    \A e \in Exports :
        IsFinished(e) /\ export[e].status = "done" /\ export[e].mode = "async" /\
          export[e].expires = "later"
        => export[e].fileKey /\ "file" \in bucket[e]

\* The job of a report in progress finds its input.
InputKept ==
    \A e \in Exports :
        Is(e, "pdf") /\ IsActive(e) /\ queue[e] \in {"waiting", "active"}
        => "input" \in bucket[e]

\* No sweep looks for a file export in progress, and while there is one the index
\* refuses the next: it is in somebody's hands, unless its job was never enqueued, its
\* worker died, or its worker could not write that it took it or that it failed.
BlockedOnlyWhenLost ==
    \A e \in Exports :
        Is(e, "file") /\ IsActive(e) =>
            \/ request[e] = "enqueue"
            \/ queue[e] = "waiting"
            \/ \E w \in Workers : worker[w] # Free /\ worker[w].export = e
            \/ e \in lost

\* An expired file that the document still names leaves the bucket, and the document
\* then names none.
ExpiredIsDeleted ==
    \A e \in Exports :
        []<>(export[e] # Unborn /\ export[e].expires = "past"
               => "file" \notin bucket[e] /\ ~export[e].fileKey)
=============================================================================
