-------------------------------- MODULE Mining --------------------------------
(***************************************************************************)
(* One job of the queue `analysis` in the analytics workers                *)
(* (apps/analytics mining/worker.py, mining/run.py).  An attempt downloads *)
(* the input, and the earlier results when only the insights are made      *)
(* again, runs the techniques one after the other, stores the results and  *)
(* only then returns the summary the API reads (AnalysisRuns).  A worker   *)
(* may die, a transfer may fail on either side of the storage, and a run   *)
(* that is too long is given up.                                           *)
(***************************************************************************)
EXTENDS Naturals, Sequences, FiniteSets

CONSTANTS Workers,   \* processes that consume the queue
          Order,     \* the stages of a full analysis, in order
          MaxFaults  \* bound: deaths and broken connections

Stages == {Order[i] : i \in 1..Len(Order)}
WITHOUT_MINIMUM == {"keywords"}

\* Time in units of a minute past the start of the attempt, all the time
\* the stages may take counted as one.
TimeoutAt == 1
LockLasts == TimeoutAt + 1

Undone == [s \in Stages |-> "none"]
NoResults == [stages |-> Undone, sections |-> Undone]

\* What the storage may hold of a run that ended: a section for each stage
\* that is done.
Earlier == {[stages |-> st,
             sections |-> [s \in Stages |-> IF st[s] = "done" THEN "old" ELSE "none"]] :
              st \in [Stages -> {"done", "skipped", "failed"}]}

Returned(status, stages) == [status |-> status, stages |-> stages]
Failed == Returned("failed", Undone)
Unreturned == Returned("none", Undone)

Idle == [pc |-> "idle", next |-> 1, results |-> NoResults, return |-> Unreturned]

VARIABLES
  input,    \* what the API sent with the job
  previous, \* the results of the original run
  job,      \* the job in the queue: its state, the age of its lock, its return
  stored,   \* the object at resultsUrl
  attempt,  \* what each worker does
  faults    \* bound

vars == <<input, previous, job, stored, attempt, faults>>

TypeOK ==
  /\ input \in [kind : {"full", "insights"}, few : BOOLEAN, enabled : BOOLEAN]
  /\ previous \in Earlier \cup {NoResults}
  /\ job.state \in {"waiting", "active", "completed"} /\ job.age \in 0..LockLasts
  /\ job.return.status \in {"none", "done", "failed"}
  /\ DOMAIN stored = {"stages", "sections"}
  /\ \A w \in Workers :
       /\ attempt[w].pc \in {"idle", "download", "previous", "stage", "upload", "return"}
       /\ attempt[w].next \in 1..Len(Order) + 1
       /\ attempt[w].results.sections \in [Stages -> {"none", "old", "new"}]

Init ==
  /\ input \in [kind : {"full", "insights"}, few : BOOLEAN, enabled : BOOLEAN]
  /\ previous \in IF input.kind = "insights" THEN Earlier ELSE {NoResults}
  /\ job = [state |-> "waiting", age |-> 0, return |-> Unreturned]
  /\ stored = NoResults
  /\ attempt = [w \in Workers |-> Idle]
  /\ faults = 0

Fault == faults < MaxFaults /\ faults' = faults + 1

JobStages == IF input.kind = "insights" THEN <<"insights">> ELSE Order

Works(w) == attempt[w].pc \notin {"idle", "return"}

Set(w, a) == attempt' = [attempt EXCEPT ![w] = a]

Answer(w, return) == Set(w, [attempt[w] EXCEPT !.pc = "return", !.return = return])

Take(w) ==
  /\ job.state = "waiting" /\ attempt[w] = Idle
  /\ job' = [job EXCEPT !.state = "active", !.age = 0]
  /\ Set(w, [Idle EXCEPT !.pc = "download"])
  /\ UNCHANGED <<input, previous, stored, faults>>

\* Each download, or a failed one.
Download(w) ==
  /\ attempt[w].pc \in {"download", "previous"}
  /\ \/ /\ Set(w, [attempt[w] EXCEPT
             !.pc = IF @ = "download" /\ input.kind = "insights"
                      THEN "previous" ELSE "stage",
             !.results = IF attempt[w].pc = "previous" THEN previous ELSE @])
        /\ UNCHANGED faults
     \/ Fault /\ Answer(w, Failed)
  /\ UNCHANGED <<input, previous, job, stored>>

SkipReason(s) ==
  IF input.few /\ s \notin WITHOUT_MINIMUM THEN "INSUFFICIENT_DATA"
  ELSE IF s = "insights" /\ ~input.enabled THEN "DISABLED" ELSE "none"

\* A slip: the section of the earlier run stays.
SectionOfDone(s, status, sections) ==
  IF status = "done" THEN [sections EXCEPT ![s] = "new"] ELSE sections

\* The section of a stage that did not end well does not stay.
Section(s, status, sections) ==
  [sections EXCEPT ![s] = IF status = "done" THEN "new" ELSE "none"]

\* A technique ends, finds that it does not apply, or raises; the others
\* go on.
Stage(w) ==
  /\ attempt[w].pc = "stage" /\ attempt[w].next <= Len(JobStages)
  /\ \E status \in {"done", "skipped", "failed"} :
       LET s == JobStages[attempt[w].next] IN
         /\ SkipReason(s) # "none" => status = "skipped"
         /\ Set(w, [attempt[w] EXCEPT
              !.next = @ + 1,
              !.results = [stages |-> [@.stages EXCEPT ![s] = status],
                           sections |-> Section(s, status, @.sections)]])
  /\ UNCHANGED <<input, previous, job, stored, faults>>

Finish(w) ==
  /\ attempt[w].pc = "stage" /\ attempt[w].next > Len(JobStages)
  /\ Set(w, [attempt[w] EXCEPT !.pc = "upload"])
  /\ UNCHANGED <<input, previous, job, stored, faults>>

\* A slip: the answer of the storage is not looked at.
AfterAnyUpload(w, ok) == Returned("done", attempt[w].results.stages)

\* What is returned after the PUT: it may also fail, before or after the
\* object was stored.
AfterUpload(w, ok) ==
  IF ok THEN Returned("done", attempt[w].results.stages) ELSE Failed

Upload(w) ==
  /\ attempt[w].pc = "upload"
  /\ \/ /\ stored' = attempt[w].results
        /\ Answer(w, AfterUpload(w, TRUE))
        /\ UNCHANGED faults
     \/ /\ Fault
        /\ stored' \in {stored, attempt[w].results}
        /\ Answer(w, AfterUpload(w, FALSE))
  /\ UNCHANGED <<input, previous, job>>

\* The progress cannot be told, or the results do not validate.
Break(w) ==
  /\ attempt[w].pc \in {"download", "stage", "upload"}
  /\ Fault /\ Answer(w, Failed)
  /\ UNCHANGED <<input, previous, job, stored>>

\* The attempt is cancelled where it waits; a PUT under way may have arrived.
TimeOut(w) ==
  /\ Works(w) /\ job.age >= TimeoutAt
  /\ \/ UNCHANGED stored
     \/ attempt[w].pc = "upload" /\ stored' = attempt[w].results
  /\ Answer(w, Failed)
  /\ UNCHANGED <<input, previous, job, faults>>

\* The queue takes the answer of the attempt it is waiting for.
Return(w) ==
  /\ attempt[w].pc = "return"
  /\ job' = [job EXCEPT !.state = "completed", !.return = attempt[w].return]
  /\ Set(w, Idle)
  /\ UNCHANGED <<input, previous, stored, faults>>

\* The process dies and another takes its place: its job stays locked.
Die(w) ==
  /\ attempt[w].pc # "idle" /\ Fault
  /\ Set(w, Idle)
  /\ UNCHANGED <<input, previous, job, stored>>

\* wait_for lets no attempt pass the timeout.
Tick ==
  /\ job.state = "active" /\ job.age < LockLasts
  /\ \A w \in Workers : attempt[w].pc # "idle" => job.age < TimeoutAt
  /\ job' = [job EXCEPT !.age = @ + 1]
  /\ UNCHANGED <<input, previous, stored, attempt, faults>>

\* A slip: the lock does not outlive the attempt.
ExpiredAtTimeout == job.age >= TimeoutAt

\* The queue takes a job whose lock has expired for a stalled one.
Expired == job.age >= LockLasts

Stalled ==
  /\ job.state = "active" /\ Expired
  /\ job' = [job EXCEPT !.state = "waiting", !.age = 0]
  /\ UNCHANGED <<input, previous, stored, attempt, faults>>

Next ==
  \/ \E w \in Workers :
       \/ Take(w) \/ Download(w) \/ Stage(w) \/ Finish(w) \/ Upload(w)
       \/ Break(w) \/ TimeOut(w) \/ Return(w) \/ Die(w)
  \/ Tick \/ Stalled

Spec == Init /\ [][Next]_vars

(***************************************************************************)
(* Properties                                                              *)
(***************************************************************************)

\* The stored results have a section exactly for the stages they call done,
\* also when the insights of an earlier run are made again and fail
\* (run.py, process).
SectionsAreDone ==
  \A s \in Stages : (stored.stages[s] = "done") <=> (stored.sections[s] # "none")

\* When the API is told that the analysis is done, the results it will read
\* are those of the summary, whatever attempts there were (worker.py, _run).
SummaryIsStored == job.return.status = "done" => job.return.stages = stored.stages

\* A job that is being worked at is not given to a second worker
\* (worker.py:100, queue_worker.py:44).
OneAttempt ==
  /\ Cardinality({w \in Workers : attempt[w].pc # "idle"}) <= 1
  /\ \A w \in Workers : attempt[w].pc # "idle" => job.state = "active"
===============================================================================
