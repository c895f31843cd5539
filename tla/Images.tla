--------------------------------- MODULE Images ---------------------------------
(***************************************************************************)
(* The images of the diagrams: some objects in the bucket for every        *)
(* version, written before its document.  Uploads of a new diagram or of   *)
(* the next version of the first one, which fail or die at any point, and  *)
(* the cascade that deletes the project, its objects first.  Objects are   *)
(* listed by pages in the order of their keys, and a page is deleted while *)
(* the next is still to be asked.                                          *)
(***************************************************************************)
EXTENDS Integers, FiniteSets, FiniteSetsExt

CONSTANTS Uploads,    \* the requests, each the id of its version (and diagram)
          Images,     \* objects of a version (3: original, display, thumb)
          Page,       \* keys of a page of the listing (1000)
          MaxFaults   \* bound: writes that fail and processes that die

VARIABLES diagrams,   \* ids of the diagrams
          versions,   \* the documents: id, diagram, number
          copied,     \* the versions that have activities
          objects,    \* keys in the bucket
          moving,     \* keys whose PUT has not ended
          req,        \* upload -> step, diagram, number
          sweep,      \* deletePrefix of an upload or of the job
          job,        \* the deletion of the project, by its next step
          slips,      \* history: what went wrong, by upload
          faults      \* bounds MaxFaults
vars == <<diagrams, versions, copied, objects, moving, req, sweep, job, slips, faults>>

First == 0   \* the diagram of the project and its published version
Job == 0     \* the deletion, among those that delete objects
KeysOf(v) == {Images * v + i : i \in 0..Images - 1}
Ended == {"idle", "made", "failed"}
Steps == Ended \cup {"diagram", "check", "number", "image", "puts", "insert", "clean", "copy", "touch", "undo"}
JobSteps == {"none", "objects", "activities", "versions", "diagrams", "deleted"}
Whys == {"late", "lost", "unclean", "dead", "undone", "touched", "overlap"}

NoSweep == [on |-> FALSE, token |-> -1, keys |-> {}, more |-> FALSE]
NewSweep == [NoSweep EXCEPT !.on = TRUE, !.more = TRUE]

Init == /\ diagrams = {First} /\ versions = {[id |-> First, diagram |-> First, number |-> 1]}
        /\ copied = {First} /\ objects = KeysOf(First) /\ moving = {}
        /\ req = [u \in Uploads |-> [step |-> "idle", diagram |-> First, number |-> 1]]
        /\ sweep = [w \in Uploads \cup {Job} |-> NoSweep]
        /\ job = "none" /\ slips = {} /\ faults = 0

-----------------------------------------------------------------------------
Slip(u, why) == slips' = slips \cup {<<u, why>>}
Fault == faults < MaxFaults /\ faults' = faults + 1
At(u, step) == req[u].step = step
Go(u, step) == req' = [req EXCEPT ![u].step = step]
IsNew(u) == req[u].diagram = u

\* Where an error leads: `create` removes its diagram.  The mistaken variant forgets it.
NoUndo(u) == "failed"
AfterError(u) == IF IsNew(u) THEN "undo" ELSE "failed"

\* A failed upload removes what it uploaded.  The mistaken variant answers at once.
AtOnce(u) == Go(u, AfterError(u)) /\ UNCHANGED sweep
Clean(u) == Go(u, "clean") /\ sweep' = [sweep EXCEPT ![u] = NewSweep]

Ask(u) ==
  /\ At(u, "idle") /\ job = "none"
  /\ \E d \in {u, First} :
       req' = [req EXCEPT ![u] = [step |-> IF d = u THEN "diagram" ELSE "check", diagram |-> d, number |-> 1]]
  /\ UNCHANGED <<diagrams, versions, copied, objects, moving, sweep, job, slips, faults>>

CreateDiagram(u) ==
  /\ At(u, "diagram") /\ Go(u, "image") /\ diagrams' = diagrams \cup {u}
  /\ UNCHANGED <<versions, copied, objects, moving, sweep, job, slips, faults>>

Of(d) == {v \in versions : v.diagram = d}
Drafts(d) == {v \in Of(d) : v.id # First}
CheckDraft(u) ==
  /\ At(u, "check") /\ Go(u, IF Drafts(First) = {} THEN "number" ELSE "failed")
  /\ UNCHANGED <<diagrams, versions, copied, objects, moving, sweep, job, slips, faults>>

ReadNumber(u) ==
  /\ At(u, "number")
  /\ req' = [req EXCEPT ![u].step = "image", ![u].number = 1 + Max({v.number : v \in Of(First)} \cup {0})]
  /\ UNCHANGED <<diagrams, versions, copied, objects, moving, sweep, job, slips, faults>>

\* processImage refuses the file, or the PUTs start.
Process(u) ==
  /\ At(u, "image")
  /\ \/ Go(u, AfterError(u)) /\ UNCHANGED moving
     \/ Go(u, "puts") /\ moving' = moving \cup KeysOf(u)
  /\ UNCHANGED <<diagrams, versions, copied, objects, sweep, job, slips, faults>>

Land == \E k \in moving :
  /\ moving' = moving \ {k} /\ objects' = objects \cup {k}
  /\ UNCHANGED <<diagrams, versions, copied, req, sweep, job, slips, faults>>

\* Promise.all of them.  The mistaken variant goes on with the first.
SomeUploaded(u) == \E k \in KeysOf(u) : k \notin moving
Uploaded(u) == \A k \in KeysOf(u) : k \notin moving
PutsDone(u) ==
  /\ At(u, "puts") /\ Uploaded(u) /\ Go(u, "insert")
  /\ UNCHANGED <<diagrams, versions, copied, objects, moving, sweep, job, slips, faults>>

\* One fails, written or not: the others are not waited for.
PutFails(u) ==
  /\ At(u, "puts") /\ Fault /\ Clean(u)
  /\ \E k \in KeysOf(u) \cap moving :
       /\ moving' = moving \ {k} /\ objects' \in {objects, objects \cup {k}}
       /\ IF KeysOf(u) \cap moving' # {} THEN Slip(u, "late") ELSE UNCHANGED slips
  /\ UNCHANGED <<diagrams, versions, copied, job>>

\* One draft and one version of each number in a diagram: unique indexes.
Clash(u) == Drafts(req[u].diagram) # {} \/ \E v \in Of(req[u].diagram) : v.number = req[u].number
Inserted(u) == versions \cup {[id |-> u, diagram |-> req[u].diagram, number |-> req[u].number]}
Insert(u) ==
  /\ At(u, "insert")
  /\ IF Clash(u) THEN Clean(u) /\ UNCHANGED versions
     ELSE versions' = Inserted(u) /\ Go(u, IF IsNew(u) THEN "touch" ELSE "copy") /\ UNCHANGED sweep
  /\ UNCHANGED <<diagrams, copied, objects, moving, job, slips, faults>>

\* The insertion fails, or its answer is lost.
InsertFails(u) ==
  /\ At(u, "insert") /\ Fault /\ Clean(u)
  /\ \/ UNCHANGED <<versions, slips>>
     \/ ~Clash(u) /\ versions' = Inserted(u) /\ Slip(u, "lost")
  /\ UNCHANGED <<diagrams, copied, objects, moving, job>>

Copy(u) ==
  /\ At(u, "copy") /\ Go(u, "touch")
  /\ copied' = copied \cup (IF First \in copied THEN {u} ELSE {})
  /\ UNCHANGED <<diagrams, versions, objects, moving, sweep, job, slips, faults>>

\* touchProject and the audit.
Touch(u) ==
  /\ At(u, "touch") /\ Go(u, "made")
  /\ UNCHANGED <<diagrams, versions, copied, objects, moving, sweep, job, slips, faults>>

\* The copy or what follows it fails: nothing of the version is removed.
LateError(u) ==
  /\ At(u, "copy") \/ At(u, "touch")
  /\ Fault /\ Go(u, AfterError(u)) /\ Slip(u, "touched")
  /\ UNCHANGED <<diagrams, versions, copied, objects, moving, sweep, job>>

Undo(u) ==
  /\ At(u, "undo") /\ Go(u, "failed")
  /\ \/ diagrams' = diagrams \ {u} /\ UNCHANGED <<slips, faults>>
     \/ Fault /\ Slip(u, "undone") /\ UNCHANGED diagrams
  /\ UNCHANGED <<versions, copied, objects, moving, sweep, job>>

Die(u) ==
  /\ req[u].step \notin Ended /\ Fault /\ Go(u, "failed") /\ Slip(u, "dead")
  /\ sweep' = [sweep EXCEPT ![u] = NoSweep]
  /\ UNCHANGED <<diagrams, versions, copied, objects, moving, job>>

-----------------------------------------------------------------------------
\* deletePrefix.
Prefix(w) == IF w = Job THEN objects ELSE objects \cap KeysOf(w)

\* There are keys after the page.  The mistaken variant takes the first page for all.
NeverMore(rest, page) == FALSE
IsTruncated(rest, page) == rest # page
List(w) ==
  LET rest == {k \in Prefix(w) : k > sweep[w].token}
      page == {k \in rest : Cardinality({j \in rest : j < k}) < Page}
  IN  /\ sweep[w].on /\ sweep[w].keys = {} /\ sweep[w].more
      /\ sweep' = [sweep EXCEPT ![w] = [on |-> TRUE, token |-> Max(page \cup {sweep[w].token}),
                                        keys |-> page, more |-> IsTruncated(rest, page)]]
      /\ UNCHANGED <<diagrams, versions, copied, objects, moving, req, job, slips, faults>>

DeletePage(w) ==
  /\ sweep[w].on /\ sweep[w].keys # {}
  /\ objects' = objects \ sweep[w].keys
  /\ sweep' = [sweep EXCEPT ![w].keys = {}]
  /\ UNCHANGED <<diagrams, versions, copied, moving, req, job, slips, faults>>

Swept(w) == sweep[w].on /\ sweep[w].keys = {} /\ ~sweep[w].more
Cleaned(u) ==
  /\ At(u, "clean") /\ Go(u, AfterError(u))
  /\ \/ Swept(u) /\ UNCHANGED <<slips, faults>>
     \/ Fault /\ Slip(u, "unclean")
  /\ sweep' = [sweep EXCEPT ![u] = NoSweep]
  /\ UNCHANGED <<diagrams, versions, copied, objects, moving, job>>

-----------------------------------------------------------------------------
\* The deletion: an upload authorised before it goes on.
Running == {u \in Uploads : req[u].step \notin Ended \/ KeysOf(u) \cap moving # {}}
RequestDeletion ==
  /\ job = "none" /\ job' = "objects"
  /\ slips' = slips \cup (Running \X {"overlap"})
  /\ sweep' = [sweep EXCEPT ![Job] = NewSweep]
  /\ UNCHANGED <<diagrams, versions, copied, objects, moving, req, faults>>

Cascade ==
  /\ \/ /\ job = "objects" /\ Swept(Job) /\ job' = "activities"
        /\ sweep' = [sweep EXCEPT ![Job] = NoSweep] /\ UNCHANGED <<diagrams, versions, copied>>
     \/ /\ job = "activities" /\ job' = "versions" /\ copied' = {}
        /\ UNCHANGED <<diagrams, versions, sweep>>
     \/ /\ job = "versions" /\ job' = "diagrams" /\ versions' = {}
        /\ UNCHANGED <<diagrams, copied, sweep>>
     \/ /\ job = "diagrams" /\ job' = "deleted" /\ diagrams' = {}
        /\ UNCHANGED <<versions, copied, sweep>>
  /\ UNCHANGED <<objects, moving, req, slips, faults>>

\* The job fails and is tried again from the beginning.
Retry ==
  /\ job \notin {"none", "deleted"} /\ Fault /\ job' = "objects"
  /\ sweep' = [sweep EXCEPT ![Job] = NewSweep]
  /\ UNCHANGED <<diagrams, versions, copied, objects, moving, req, slips>>

Next == \/ \E u \in Uploads :
             \/ Ask(u) \/ CreateDiagram(u) \/ CheckDraft(u) \/ ReadNumber(u) \/ Process(u)
             \/ PutsDone(u) \/ PutFails(u) \/ Insert(u) \/ InsertFails(u) \/ Copy(u) \/ Touch(u)
             \/ LateError(u) \/ Undo(u) \/ Die(u) \/ Cleaned(u)
        \/ \E w \in Uploads \cup {Job} : List(w) \/ DeletePage(w)
        \/ Land \/ RequestDeletion \/ Cascade \/ Retry
Spec == Init /\ [][Next]_vars

-----------------------------------------------------------------------------
TypeOK ==
  LET Keys == UNION {KeysOf(v) : v \in Uploads \cup {First}}
  IN  /\ diagrams \subseteq Uploads \cup {First} /\ copied \subseteq Uploads \cup {First}
      /\ versions \subseteq [id : Uploads \cup {First}, diagram : Uploads \cup {First}, number : Nat \ {0}]
      /\ objects \subseteq Keys /\ moving \subseteq Keys
      /\ req \in [Uploads -> [step : Steps, diagram : Uploads \cup {First}, number : Nat \ {0}]]
      /\ sweep \in [Uploads \cup {Job} ->
                      [on : BOOLEAN, token : Int, keys : SUBSET Keys, more : BOOLEAN]]
      /\ job \in JobSteps /\ slips \subseteq Uploads \X Whys /\ faults \in 0..MaxFaults

Slipped(u, whys) == \E why \in whys : <<u, why>> \in slips

\* A version that can be opened has its images, whatever other uploads
\* did meanwhile; only an insertion whose answer was lost has them removed
\* under its document.
ImagesExist ==
  job = "none" => \A v \in versions : ~Slipped(v.id, {"lost"}) => KeysOf(v.id) \subseteq objects

\* An upload that failed leaves no object, but for a process that died, a
\* removal that failed and an object that arrives after a sibling's failure:
\* Promise.all does not wait for it and nobody removes it.
NothingLeft ==
  job = "none" => \A u \in Uploads :
    /\ At(u, "failed") /\ u \notin {v.id : v \in versions}
    /\ ~Slipped(u, {"late", "unclean", "dead"})
    => objects \cap KeysOf(u) = {}

\* A diagram has a version and a version a diagram once its upload ended; a
\* failure after the version was made (the project's date, the audit) removes
\* the diagram alone.
DiagramsHaveVersions ==
  job = "none" =>
    /\ \A d \in diagrams \ {First} :
         At(d, "made") \/ At(d, "failed") => Of(d) # {} \/ Slipped(d, {"dead", "undone"})
    /\ \A v \in versions : v.diagram \in diagrams \/ Slipped(v.id, {"touched", "lost", "dead"})

\* Once the project is deleted, however often its job was tried, only an
\* upload that was running when the deletion was asked for leaves something.
DeletedIsGone ==
  job = "deleted" =>
    LET left == diagrams \cup copied \cup {v.id : v \in versions} \cup {k \div Images : k \in objects}
    IN  \A v \in left : v \in Uploads /\ Slipped(v, {"overlap"})
=============================================================================
