------------------------- MODULE Publication_proofs -------------------------
(***************************************************************************)
(* Proofs about the versions of a diagram, for any versions, keys, request *)
(* slots and bound on rev: the types, that the requests implement          *)
(* VersionHistory, and that a change falls on what its author saw.         *)
(***************************************************************************)
EXTENDS Publication, TLAPS

USE DEF Idle

\* Every kind of request record, once for all the typing steps.
LEMMA RequestKinds ==
    /\ Idle \in Request
    /\ [pc : {"last", "made"}] \subseteq Request
    /\ UploadRequest \subseteq Request /\ CopyRequest \subseteq Request
    /\ InsertRequest \subseteq Request /\ PublishRequest \subseteq Request
    /\ AddRequest \subseteq Request /\ UpdateRequest \subseteq Request
    /\ RemoveRequest \subseteq Request
BY DEF Request

\* Where a request is determines what its record holds.
LEMMA Shapes ==
    ASSUME NEW q \in Request
    PROVE  /\ q.pc = "upload" => q \in UploadRequest
           /\ q.pc = "copy" => q \in CopyRequest
           /\ q.pc = "insert" => q \in InsertRequest
           /\ q.pc \in {"check", "claim", "archive", "publish", "point"} => q \in PublishRequest
           /\ q.pc \in {"checkAdd", "add"} => q \in AddRequest
           /\ q.pc \in {"viewing", "checkUpdate", "update"} => q \in UpdateRequest
           /\ q.pc \in {"delete", "pull"} => q \in RemoveRequest
BY DEF Request, UploadRequest, CopyRequest, InsertRequest, PublishRequest,
       AddRequest, UpdateRequest, RemoveRequest

\* A step of a request leaves the other slots alone.
LEMMA StepEffect ==
    ASSUME TypeOK, NEW r \in Requests, NEW q, Step(r, q)
    PROVE  /\ req'[r] = q
           /\ \A s \in Requests : s # r => req'[s] = req[s]
           /\ q \in Request => req' \in [Requests -> Request]
BY DEF TypeOK, Step

\* A version id stands for a document or for none.
LEMMA UploadedIsVersion ==
    ASSUME TypeOK, NEW v \in VersionIds
    PROVE  /\ Uploaded(v) <=> version[v] \in Version
           /\ ~Uploaded(v) <=> version[v] = Unborn
           /\ version[v].status \in {"draft", "published", "archived"} <=> Uploaded(v)
BY DEF TypeOK, Uploaded, Version, Unborn

\* The same of an activity.
LEMMA ExistsIsActivity ==
    ASSUME TypeOK, NEW v \in VersionIds, NEW k \in Keys
    PROVE  Exists(v, k) <=> activity[v][k] \in Activity
<1>1. \A a \in Activity : DOMAIN a = {"rev", "next"}
  BY DEF Activity
<1>2. DOMAIN Absent = {"rev"} /\ DOMAIN Gone = {"rev"}
  BY DEF Absent, Gone
<1>3. {"rev"} # {"rev", "next"}
  OBVIOUS
<1>4. Absent \notin Activity /\ Gone \notin Activity
  BY <1>1, <1>2, <1>3
<1> QED
  BY <1>4 DEF TypeOK, Exists

-----------------------------------------------------------------------------
(* Type correctness *)

\* At first there is no diagram, no version and no request.
LEMMA InitTypeOK == Init => TypeOK
BY RequestKinds DEF Init, TypeOK

\* The steps of an upload keep every type.
LEMMA UploadTypeOK ==
    ASSUME TypeOK, NEW r \in Requests, Upload(r)
    PROVE  TypeOK'
<1> DEFINE q == req[r]
<1>0. q \in Request
  BY DEF TypeOK
<1> USE RequestKinds, StepEffect
<1>1. CASE CreateDiagram(r)
  <2>1. [pc |-> "upload", first |-> TRUE, number |-> 1, from |-> NoVersion] \in UploadRequest
    BY DEF UploadRequest
  <2> QED
    BY <1>1, <2>1 DEF CreateDiagram, TypeOK
<1>2. CASE LoadUpload(r)
  BY <1>2 DEF LoadUpload, TypeOK
<1>3. CASE ReadLast(r)
  <2>1. PICK from \in IF Last = {} THEN {NoVersion} ELSE Last :
          Step(r, [pc |-> "upload", first |-> FALSE, number |-> NumberAfter(from), from |-> from])
    BY <1>3 DEF ReadLast
  <2>2. from \in VersionIds \cup {NoVersion} /\ (from # NoVersion => Uploaded(from))
    BY DEF Last
  <2>3. NumberAfter(from) \in Nat \ {0}
    BY <2>2, UploadedIsVersion DEF NumberAfter, Version
  <2>4. [pc |-> "upload", first |-> FALSE, number |-> NumberAfter(from), from |-> from]
          \in UploadRequest
    BY <2>2, <2>3 DEF UploadRequest
  <2> QED
    BY <1>3, <2>1, <2>4 DEF ReadLast, TypeOK
<1>4. CASE CreateVersion(r)
  <2>1. q \in UploadRequest
    BY <1>0, <1>4, Shapes DEF CreateVersion
  <2>2. PICK v \in VersionIds :
          /\ version' = [version EXCEPT ![v] =
                           [status |-> "draft", number |-> req[r].number, rev |-> 0]]
          /\ Step(r, IF req[r].first THEN [pc |-> "made"]
                     ELSE IF req[r].from = NoVersion THEN Idle
                     ELSE [pc |-> "copy", from |-> req[r].from, to |-> v])
    BY <1>4 DEF CreateVersion
  <2>3. [status |-> "draft", number |-> q.number, rev |-> 0] \in Version
    BY <2>1, MaxRevAssumption DEF UploadRequest, Version
  <2>4. q.from # NoVersion => [pc |-> "copy", from |-> q.from, to |-> v] \in Request
    BY <2>1 DEF UploadRequest, CopyRequest
  <2>5. version' \in [VersionIds -> Version \cup {Unborn}]
    BY <2>2, <2>3 DEF TypeOK
  <2>6. req' \in [Requests -> Request]
    BY <2>2, <2>4
  <2> QED
    BY <1>4, <2>5, <2>6 DEF CreateVersion, TypeOK
<1>5. CASE FailUpload(r)
  BY <1>5 DEF FailUpload, TypeOK
<1>6. CASE FinishDiagram(r)
  BY <1>6 DEF FinishDiagram, TypeOK
<1>7. CASE ReadCopies(r)
  <2>1. q \in CopyRequest
    BY <1>0, <1>7, Shapes DEF ReadCopies
  <2> DEFINE copies == [k \in Marked(q.from) |-> activity[q.from][k].next]
  <2>2. Marked(q.from) \subseteq Keys
    BY DEF Marked
  <2>3. \A k \in Marked(q.from) : activity[q.from][k].next \in SUBSET Keys
    BY <2>1, ExistsIsActivity DEF Marked, Activity, CopyRequest
  <2>4. copies \in [Marked(q.from) -> SUBSET Keys]
    BY <2>3
  <2>5. copies \in UNION {[ks -> SUBSET Keys] : ks \in SUBSET Keys}
    BY <2>2, <2>4
  <2>6. [pc |-> "insert", to |-> q.to, copies |-> copies] \in Request
    BY <2>1, <2>5 DEF CopyRequest, InsertRequest
  <2> QED
    BY <1>7, <2>6 DEF ReadCopies, TypeOK
<1>8. CASE InsertCopy(r)
  <2>1. q \in InsertRequest
    BY <1>0, <1>8, Shapes DEF InsertCopy
  <2> DEFINE copies == q.copies
  <2>2. PICK k \in DOMAIN copies :
          /\ activity' = [activity EXCEPT ![q.to][k] = [rev |-> 0, next |-> copies[k]]]
          /\ Step(r, IF DOMAIN copies = {k} THEN Idle
                     ELSE [q EXCEPT !.copies = [j \in DOMAIN copies \ {k} |-> copies[j]]])
    BY <1>8 DEF InsertCopy
  <2>3. PICK ks \in SUBSET Keys : copies \in [ks -> SUBSET Keys]
    BY <2>1 DEF InsertRequest
  <2>4. q.to \in VersionIds /\ k \in Keys
    BY <2>1, <2>2, <2>3 DEF InsertRequest
  <2>5. [rev |-> 0, next |-> copies[k]] \in Activity
    BY <2>2, <2>3, MaxRevAssumption DEF Activity
  <2>6. activity' \in [VersionIds -> [Keys -> Activity \cup {Absent, Gone}]]
    BY <2>2, <2>4, <2>5 DEF TypeOK
  <2> DEFINE rest == [j \in DOMAIN copies \ {k} |-> copies[j]]
  <2>7. rest \in [ks \ {k} -> SUBSET Keys]
    BY <2>3
  <2>8. rest \in UNION {[js -> SUBSET Keys] : js \in SUBSET Keys}
    BY <2>7, ks \ {k} \in SUBSET Keys
  <2>9. [q EXCEPT !.copies = rest] \in InsertRequest
    BY <2>1, <2>8 DEF InsertRequest
  <2> QED
    BY <1>8, <2>2, <2>6, <2>9 DEF InsertCopy, TypeOK
<1> QED
  BY <1>1, <1>2, <1>3, <1>4, <1>5, <1>6, <1>7, <1>8 DEF Upload

\* The steps of a publication keep every type.
LEMMA PublishTypeOK ==
    ASSUME TypeOK, NEW r \in Requests, Publish(r)
    PROVE  TypeOK'
<1> DEFINE q == req[r]
<1>0. q \in Request
  BY DEF TypeOK
<1> USE RequestKinds, StepEffect
<1>1. CASE LoadPublish(r)
  <2>1. PICK v \in VersionIds :
          Draft(v) /\ Step(r, [pc |-> "check", version |-> v, rev |-> version[v].rev])
    BY <1>1 DEF LoadPublish
  <2>2. [pc |-> "check", version |-> v, rev |-> version[v].rev] \in PublishRequest
    BY <2>1, UploadedIsVersion DEF Draft, PublishRequest, Version
  <2> QED
    BY <1>1, <2>1, <2>2 DEF LoadPublish, TypeOK
<1>2. CASE CheckPublish(r)
  <2>1. [q EXCEPT !.pc = "claim"] \in PublishRequest
    BY <1>0, <1>2, Shapes DEF CheckPublish, PublishRequest
  <2> QED
    BY <1>2, <2>1 DEF CheckPublish, TypeOK
<1>3. CASE Claim(r)
  <2>1. q \in PublishRequest /\ [q EXCEPT !.pc = "archive"] \in PublishRequest
    BY <1>0, <1>3, Shapes DEF Claim, PublishRequest
  <2>2. q.version \in VersionIds
    BY <2>1 DEF PublishRequest
  <2>3. (Draft(q.version) /\ version[q.version].rev < MaxRev) =>
           [version[q.version] EXCEPT !.rev = @ + 1] \in Version
    BY <2>2, UploadedIsVersion, MaxRevAssumption DEF Draft, Version
  <2>4. version' \in [VersionIds -> Version \cup {Unborn}]
    BY <1>3, <2>2, <2>3 DEF Claim, TypeOK
  <2>5. req' \in [Requests -> Request]
    BY <1>3, <2>1 DEF Claim
  <2> QED
    BY <1>3, <2>4, <2>5 DEF Claim, TypeOK
<1>4. CASE Archive(r)
  <2>1. [q EXCEPT !.pc = "publish"] \in PublishRequest
    BY <1>0, <1>4, Shapes DEF Archive, PublishRequest
  <2>2. \A v \in VersionIds : version[v].status = "published" =>
           [version[v] EXCEPT !.status = "archived"] \in Version
    BY UploadedIsVersion DEF Version
  <2>3. version' \in [VersionIds -> Version \cup {Unborn}]
    BY <1>4, <2>2 DEF Archive, TypeOK
  <2> QED
    BY <1>4, <2>1, <2>3 DEF Archive, TypeOK
<1>5. CASE PublishVersion(r)
  <2>1. q \in PublishRequest /\ [q EXCEPT !.pc = "point"] \in PublishRequest
    BY <1>0, <1>5, Shapes DEF PublishVersion, PublishRequest
  <2>2. q.version \in VersionIds
    BY <2>1 DEF PublishRequest
  <2>3. Draft(q.version) => [version[q.version] EXCEPT !.status = "published"] \in Version
    BY <2>2, UploadedIsVersion DEF Draft, Version
  <2>4. version' \in [VersionIds -> Version \cup {Unborn}]
    BY <1>5, <2>2, <2>3 DEF PublishVersion, TypeOK
  <2>5. req' \in [Requests -> Request]
    BY <1>5, <2>1 DEF PublishVersion
  <2> QED
    BY <1>5, <2>4, <2>5 DEF PublishVersion, TypeOK
<1>6. CASE Point(r)
  <2>1. q.version \in VersionIds
    BY <1>0, <1>6, Shapes DEF Point, PublishRequest
  <2> QED
    BY <1>6, <2>1 DEF Point, TypeOK
<1> QED
  BY <1>1, <1>2, <1>3, <1>4, <1>5, <1>6 DEF Publish

\* The steps of the editor keep every type.
LEMMA EditTypeOK ==
    ASSUME TypeOK, NEW r \in Requests, Edit(r)
    PROVE  TypeOK'
<1> DEFINE q == req[r]
<1>0. q \in Request
  BY DEF TypeOK
<1> USE RequestKinds, StepEffect
<1>1. CASE LoadAdd(r)
  <2>1. \A v \in VersionIds, next \in SUBSET Keys :
           [pc |-> "checkAdd", version |-> v, next |-> next] \in AddRequest
    BY DEF AddRequest
  <2> QED
    BY <1>1, <2>1 DEF LoadAdd, TypeOK
<1>2. CASE CheckNext(r)
  <2> DEFINE checked == [q EXCEPT !.pc = IF @ = "checkAdd" THEN "add" ELSE "update"]
  <2>1. CASE q.pc = "checkAdd"
    <3>1. checked \in AddRequest
      BY <1>0, <2>1, Shapes DEF AddRequest
    <3> QED
      BY <1>2, <3>1 DEF CheckNext, TypeOK
  <2>2. CASE q.pc = "checkUpdate"
    <3>1. checked \in UpdateRequest
      BY <1>0, <2>2, Shapes DEF UpdateRequest
    <3> QED
      BY <1>2, <3>1 DEF CheckNext, TypeOK
  <2> QED
    BY <1>2, <2>1, <2>2 DEF CheckNext
<1>3. CASE Add(r)
  <2>1. q \in AddRequest
    BY <1>0, <1>3, Shapes DEF Add
  <2>2. [rev |-> 0, next |-> q.next] \in Activity /\ q.version \in VersionIds
    BY <2>1, MaxRevAssumption DEF AddRequest, Activity
  <2>3. activity' \in [VersionIds -> [Keys -> Activity \cup {Absent, Gone}]]
    BY <1>3, <2>2 DEF Add, TypeOK
  <2> QED
    BY <1>3, <2>3 DEF Add, TypeOK
<1>4. CASE View(r)
  <2>1. PICK v \in VersionIds, k \in Keys :
          /\ Exists(v, k)
          /\ Step(r, [pc |-> "viewing", version |-> v, key |-> k,
                      seen |-> activity[v][k], next |-> activity[v][k].next])
    BY <1>4 DEF View
  <2>2. activity[v][k] \in Activity
    BY <2>1, ExistsIsActivity
  <2>3. [pc |-> "viewing", version |-> v, key |-> k,
         seen |-> activity[v][k], next |-> activity[v][k].next] \in UpdateRequest
    BY <2>2 DEF UpdateRequest, Activity
  <2> QED
    BY <1>4, <2>1, <2>3 DEF View, TypeOK
<1>5. CASE LoadUpdate(r)
  <2>1. q \in UpdateRequest
    BY <1>0, <1>5, Shapes DEF LoadUpdate
  <2>2. [q EXCEPT !.pc = "update"] \in UpdateRequest
    BY <2>1 DEF UpdateRequest
  <2>3. \A next \in SUBSET (Keys \ {q.key}) :
           [q EXCEPT !.pc = "checkUpdate", !.next = next] \in UpdateRequest
    BY <2>1 DEF UpdateRequest
  <2> QED
    BY <1>5, <2>2, <2>3 DEF LoadUpdate, TypeOK
<1>6. CASE Update(r)
  <2> DEFINE v == q.version  k == q.key
  <2>1. q \in UpdateRequest
    BY <1>0, <1>6, Shapes DEF Update
  <2>2. v \in VersionIds /\ k \in Keys /\ q.next \in SUBSET Keys
    BY <2>1 DEF UpdateRequest
  <2>3. (Exists(v, k) /\ activity[v][k].rev < MaxRev) =>
           [rev |-> activity[v][k].rev + 1, next |-> q.next] \in Activity
    BY <2>2, ExistsIsActivity, MaxRevAssumption DEF Activity
  <2>4. activity' \in [VersionIds -> [Keys -> Activity \cup {Absent, Gone}]]
    BY <1>6, <2>2, <2>3 DEF Update, TypeOK
  <2> QED
    BY <1>6, <2>4 DEF Update, TypeOK
<1>7. CASE LoadRemove(r)
  <2>1. \A v \in VersionIds, k \in Keys :
           [pc |-> "delete", version |-> v, key |-> k] \in RemoveRequest
    BY DEF RemoveRequest
  <2> QED
    BY <1>7, <2>1 DEF LoadRemove, TypeOK
<1>8. CASE Delete(r)
  <2>1. q \in RemoveRequest /\ [q EXCEPT !.pc = "pull"] \in RemoveRequest
    BY <1>0, <1>8, Shapes DEF Delete, RemoveRequest
  <2>2. activity' \in [VersionIds -> [Keys -> Activity \cup {Absent, Gone}]]
    BY <1>8, <2>1 DEF Delete, RemoveRequest, TypeOK
  <2> QED
    BY <1>8, <2>1, <2>2 DEF Delete, TypeOK
<1>9. CASE Pull(r)
  <2> DEFINE v == q.version
             pointing == {k \in Marked(v) : q.key \in activity[v][k].next}
             pulled == [k \in Keys |->
               IF k \in pointing
               THEN [rev |-> activity[v][k].rev + 1, next |-> activity[v][k].next \ {q.key}]
               ELSE activity[v][k]]
  <2>1. v \in VersionIds
    BY <1>0, <1>9, Shapes DEF Pull, RemoveRequest
  <2>2. activity' = [activity EXCEPT ![v] = pulled]
    BY <1>9, <2>1 DEF Pull, TypeOK
  <2>3. ASSUME NEW k \in pointing
        PROVE  [rev |-> activity[v][k].rev + 1, next |-> activity[v][k].next \ {q.key}]
                 \in Activity
    <3>1. k \in Keys /\ activity[v][k] \in Activity
      BY <2>1, <2>3, ExistsIsActivity DEF Marked
    <3>2. activity[v][k].rev < MaxRev
      BY <1>9, <2>3 DEF Pull
    <3> QED
      BY <3>1, <3>2, MaxRevAssumption DEF Activity
  <2>a. \A k \in Keys : activity[v][k] \in Activity \cup {Absent, Gone}
    BY <2>1 DEF TypeOK
  <2>b. \A k \in Keys : pulled[k] \in Activity \cup {Absent, Gone}
    BY <2>3, <2>a
  <2>4. pulled \in [Keys -> Activity \cup {Absent, Gone}]
    BY <2>b
  <2>5. activity' \in [VersionIds -> [Keys -> Activity \cup {Absent, Gone}]]
    BY <2>2, <2>4 DEF TypeOK
  <2> QED
    BY <1>9, <2>5 DEF Pull, TypeOK
<1> QED
  BY <1>1, <1>2, <1>3, <1>4, <1>5, <1>6, <1>7, <1>8, <1>9 DEF Edit

\* The diagram, the versions, the activities and the requests keep their types.
THEOREM TypeCorrect == Spec => []TypeOK
<1>1. TypeOK /\ [Next]_vars => TypeOK'
  <2> SUFFICES ASSUME TypeOK, [Next]_vars PROVE TypeOK'
    OBVIOUS
  <2>1. CASE UNCHANGED vars
    BY <2>1 DEF vars, TypeOK
  <2>2. CASE Next
    BY <2>2, UploadTypeOK, PublishTypeOK, EditTypeOK DEF Next
  <2> QED
    BY <2>1, <2>2
<1> QED
  BY InitTypeOK, <1>1, PTL DEF Spec

-----------------------------------------------------------------------------
(* The requests implement VersionHistory *)

\* The partial unique index of drafts, and what the claims make of the other.
OneDraft == \A v, w \in VersionIds : Draft(v) /\ Draft(w) => v = w
OnePublished ==
    \A v, w \in VersionIds :
        version[v].status = "published" /\ version[w].status = "published" => v = w

\* No number is skipped, so a number that is free is the next one.
Contiguous ==
    \A v \in VersionIds : Uploaded(v) =>
        \A n \in 1 .. version[v].number :
            \E w \in VersionIds : Uploaded(w) /\ version[w].number = n

\* An upload carries the number that followed an uploaded version, or 1.
UploadFollows ==
    \A r \in Requests : req[r].pc = "upload" =>
        \/ req[r].number = 1
        \/ \E v \in VersionIds : Uploaded(v) /\ version[v].number + 1 = req[r].number

\* A publication is of an uploaded version, and once it archived the published
\* one, nothing is published while its own is a draft.
PublishCleared ==
    \A r \in Requests :
        /\ req[r].pc \in {"check", "claim", "archive", "publish", "point"} =>
             Uploaded(req[r].version)
        /\ (req[r].pc = "publish" /\ Draft(req[r].version)) =>
             \A v \in VersionIds : version[v].status # "published"

Inv == OneDraft /\ OnePublished /\ Contiguous /\ UploadFollows /\ PublishCleared

\* An activity, a diagram or a request alone does not touch a version.
LEMMA InvUnchanged ==
    ASSUME TypeOK, Inv, UNCHANGED version, NEW r \in Requests, NEW q, Step(r, q),
           q.pc = "upload" =>
             \/ q.number = 1
             \/ \E v \in VersionIds : Uploaded(v) /\ version[v].number + 1 = q.number,
           q.pc \in {"check", "claim", "archive", "publish", "point"} => Uploaded(q.version),
           q.pc = "publish" /\ Draft(q.version) =>
             \A v \in VersionIds : version[v].status # "published"
    PROVE  Inv'
<1>1. (OneDraft /\ OnePublished /\ Contiguous)'
  BY DEF Inv, OneDraft, OnePublished, Contiguous, Draft, Uploaded
<1>2. UploadFollows'
  BY StepEffect DEF Inv, UploadFollows, Uploaded
<1>3. PublishCleared'
  BY StepEffect DEF Inv, PublishCleared, Uploaded, Draft
<1> QED
  BY <1>1, <1>2, <1>3 DEF Inv

\* The steps that only move a request, or write the diagram or an activity.
LEMMA InvOtherSteps ==
    ASSUME TypeOK, Inv, NEW r \in Requests,
           Edit(r) \/ LoadPublish(r) \/ CheckPublish(r) \/ Point(r)
             \/ (Upload(r) /\ ~CreateVersion(r))
    PROVE  Inv'
<1> DEFINE q == req[r]
           Fits(p) ==
             /\ p.pc = "upload" =>
                  \/ p.number = 1
                  \/ \E v \in VersionIds : Uploaded(v) /\ version[v].number + 1 = p.number
             /\ p.pc \in {"check", "claim", "archive", "publish", "point"} =>
                  Uploaded(p.version)
             /\ p.pc = "publish" /\ Draft(p.version) =>
                  \A v \in VersionIds : version[v].status # "published"
<1>0. q \in Request
  BY DEF TypeOK
<1>1. UNCHANGED version
  BY DEF Edit, LoadPublish, CheckPublish, Point, Upload, CreateDiagram, LoadUpload,
         ReadLast, FailUpload, FinishDiagram, ReadCopies, InsertCopy, LoadAdd, CheckNext,
         Add, View, LoadUpdate, Update, LoadRemove, Delete, Pull
<1>2. CASE Edit(r)
  <2>1. \A p : p.pc \in {"idle", "checkAdd", "add", "viewing", "checkUpdate", "update",
                         "delete", "pull"} => Fits(p)
    OBVIOUS
  <2>2. q.pc \in {"viewing", "checkUpdate"} => q \in UpdateRequest
    BY <1>0, Shapes
  <2>3. q.pc = "checkAdd" => q \in AddRequest
    BY <1>0, Shapes
  <2>4. q.pc = "delete" => q \in RemoveRequest
    BY <1>0, Shapes
  <2>5. \E p : Step(r, p) /\ p.pc \in {"idle", "checkAdd", "add", "viewing", "checkUpdate",
                                       "update", "delete", "pull"}
    <3>1. CASE LoadAdd(r)
      BY <3>1 DEF LoadAdd
    <3>2. CASE CheckNext(r)
      BY <2>2, <2>3, <3>2 DEF CheckNext, AddRequest, UpdateRequest
    <3>3. CASE Add(r) \/ Update(r) \/ Pull(r)
      BY <3>3 DEF Add, Update, Pull
    <3>4. CASE View(r)
      BY <3>4 DEF View
    <3>5. CASE LoadUpdate(r)
      <4>1. q \in UpdateRequest
        BY <2>2, <3>5 DEF LoadUpdate
      <4> DEFINE sent == [q EXCEPT !.pc = "update"]
                 other(next) == [q EXCEPT !.pc = "checkUpdate", !.next = next]
      <4>2. sent.pc = "update" /\ \A next : other(next).pc = "checkUpdate"
        BY <4>1 DEF UpdateRequest
      <4>3. Step(r, sent) \/ (\E next : Step(r, other(next))) \/ Step(r, Idle)
        BY <3>5 DEF LoadUpdate
      <4> HIDE DEF sent, other
      <4> QED
        BY <4>2, <4>3
    <3>6. CASE LoadRemove(r)
      BY <3>6 DEF LoadRemove
    <3>7. CASE Delete(r)
      BY <2>4, <3>7 DEF Delete, RemoveRequest
    <3> QED
      BY <1>2, <3>1, <3>2, <3>3, <3>4, <3>5, <3>6, <3>7 DEF Edit
  <2>6. PICK p : Step(r, p) /\ Fits(p)
    BY <2>1, <2>5
  <2> QED
    BY <1>1, <2>6, InvUnchanged
<1>3. CASE LoadPublish(r) \/ CheckPublish(r) \/ Point(r)
  <2>1. PICK p : Step(r, p) /\ Fits(p)
    <3>1. CASE LoadPublish(r)
      BY <3>1, UploadedIsVersion DEF LoadPublish, Draft
    <3>2. CASE CheckPublish(r)
      <4>1. q \in PublishRequest /\ Uploaded(q.version)
        BY <1>0, <3>2, Shapes DEF CheckPublish, Inv, PublishCleared
      <4>2. Fits([q EXCEPT !.pc = "claim"])
        BY <4>1 DEF PublishRequest
      <4>3. Fits(Idle)
        OBVIOUS
      <4> QED
        BY <3>2, <4>2, <4>3 DEF CheckPublish
    <3>3. CASE Point(r)
      BY <3>3 DEF Point
    <3> QED
      BY <1>3, <3>1, <3>2, <3>3
  <2> QED
    BY <1>1, <2>1, InvUnchanged
<1>4. CASE Upload(r) /\ ~CreateVersion(r)
  <2>1. PICK p : Step(r, p) /\ Fits(p)
    <3>1. CASE CreateDiagram(r)
      BY <3>1 DEF CreateDiagram
    <3>2. CASE LoadUpload(r)
      BY <3>2 DEF LoadUpload
    <3>3. CASE ReadLast(r)
      <4>1. PICK from \in IF Last = {} THEN {NoVersion} ELSE Last :
              Step(r, [pc |-> "upload", first |-> FALSE,
                       number |-> NumberAfter(from), from |-> from])
        BY <3>3 DEF ReadLast
      <4>2. from = NoVersion \/ (from \in VersionIds /\ Uploaded(from))
        BY DEF Last
      <4>3. \/ NumberAfter(from) = 1
            \/ \E v \in VersionIds : Uploaded(v) /\ version[v].number + 1 = NumberAfter(from)
        BY <4>2 DEF NumberAfter
      <4>4. Fits([pc |-> "upload", first |-> FALSE,
                  number |-> NumberAfter(from), from |-> from])
        BY <4>3
      <4> QED
        BY <4>1, <4>4
    <3>4. CASE FailUpload(r) \/ FinishDiagram(r)
      BY <3>4 DEF FailUpload, FinishDiagram
    <3>5. CASE ReadCopies(r)
      BY <3>5 DEF ReadCopies
    <3>6. CASE InsertCopy(r)
      <4>1. q \in InsertRequest
        BY <1>0, <3>6, Shapes DEF InsertCopy
      <4>2. \A cs : Fits([q EXCEPT !.copies = cs])
        BY <4>1 DEF InsertRequest
      <4>3. Fits(Idle)
        OBVIOUS
      <4> QED
        BY <3>6, <4>2, <4>3 DEF InsertCopy
    <3> QED
      BY <1>4, <3>1, <3>2, <3>3, <3>4, <3>5, <3>6 DEF Upload
  <2> QED
    BY <1>1, <2>1, InvUnchanged
<1> QED
  BY <1>2, <1>3, <1>4

\* What a version says of itself without its rev; whole steps of the protocol
\* are steps or stutters of VersionHistory.
Maps == Abstract!Next \/ UNCHANGED Abstract!vars

\* A new version takes the number after all the others: a free number that
\* follows an uploaded one follows the last, because none is skipped.
LEMMA CreateVersionStep ==
    ASSUME TypeOK, Inv, NEW r \in Requests, CreateVersion(r)
    PROVE  Inv' /\ Maps
<1> DEFINE q == req[r]
           n == q.number
<1>1. q \in UploadRequest /\ q.pc = "upload" /\ n \in Nat \ {0}
  BY Shapes DEF CreateVersion, TypeOK, UploadRequest
<1>2. PICK v \in VersionIds :
        /\ ~Uploaded(v)
        /\ version' = [version EXCEPT ![v] = [status |-> "draft", number |-> n, rev |-> 0]]
        /\ Step(r, IF q.first THEN [pc |-> "made"]
                   ELSE IF q.from = NoVersion THEN Idle
                   ELSE [pc |-> "copy", from |-> q.from, to |-> v])
  BY DEF CreateVersion
<1>3. \A w \in VersionIds : Uploaded(w) => version[w].number # n /\ ~Draft(w)
  BY DEF CreateVersion, Indexes
<1>4. /\ version'[v] = [status |-> "draft", number |-> n, rev |-> 0]
      /\ \A w \in VersionIds \ {v} : version'[w] = version[w]
  BY <1>2 DEF TypeOK
<1>5. version'[v].status = "draft" /\ version'[v].number = n /\ version'[v] # Unborn
  <2>1. DOMAIN version'[v] # DOMAIN Unborn
    BY <1>4 DEF Unborn
  <2> QED
    BY <1>4, <2>1
<1>6. \A w \in VersionIds : Uploaded(w) => w # v /\ version'[w] = version[w]
  BY <1>2, <1>4
<1>7. \A w \in VersionIds : Uploaded(w) => version[w].number \in Nat \ {0}
  BY UploadedIsVersion DEF Version
<1>8. req'[r].pc \in {"made", "idle", "copy"} /\ \A s \in Requests : s # r => req'[s] = req[s]
  BY <1>2, StepEffect
<1>9. \A w \in VersionIds : ~Draft(w)
  BY <1>3, UploadedIsVersion DEF Draft
<1>10. \A w \in VersionIds : Uploaded(w) => version[w].number < n
  <2> SUFFICES ASSUME NEW w \in VersionIds, Uploaded(w), ~(version[w].number < n)
               PROVE  FALSE
    OBVIOUS
  <2>1. n \in 1 .. version[w].number
    BY <1>1, <1>7
  <2> QED
    BY <1>3, <2>1 DEF Inv, Contiguous
<1>11. OneDraft'
  BY <1>4, <1>9 DEF OneDraft, Draft
<1>12. OnePublished'
  BY <1>4, <1>5 DEF Inv, OnePublished
<1>13. Contiguous'
  <2> SUFFICES ASSUME NEW u \in VersionIds, Uploaded(u)',
                      NEW m \in 1 .. version'[u].number
               PROVE  \E w \in VersionIds : Uploaded(w)' /\ version'[w].number = m
    BY DEF Contiguous
  <2>1. CASE u # v
    <3>1. Uploaded(u) /\ version'[u].number = version[u].number
      BY <1>4, <2>1 DEF Uploaded
    <3>2. PICK w \in VersionIds : Uploaded(w) /\ version[w].number = m
      BY <3>1 DEF Inv, Contiguous
    <3> QED
      BY <1>6, <3>2 DEF Uploaded
  <2>2. CASE u = v /\ m = n
    BY <1>5, <2>2 DEF Uploaded
  <2>3. CASE u = v /\ m # n
    <3>1. m \in 1 .. n - 1
      BY <1>1, <1>5, <2>3
    <3>2. PICK w \in VersionIds : Uploaded(w) /\ version[w].number + 1 = n
      BY <1>1, <3>1 DEF Inv, UploadFollows
    <3>3. m \in 1 .. version[w].number
      BY <1>1, <1>7, <3>1, <3>2
    <3>4. PICK x \in VersionIds : Uploaded(x) /\ version[x].number = m
      BY <3>2, <3>3 DEF Inv, Contiguous
    <3> QED
      BY <1>6, <3>4 DEF Uploaded
  <2> QED
    BY <2>1, <2>2, <2>3
<1>14. UploadFollows'
  BY <1>6, <1>8 DEF Inv, UploadFollows, Uploaded
<1>15. PublishCleared'
  <2> SUFFICES ASSUME NEW s \in Requests,
                      req'[s].pc \in {"check", "claim", "archive", "publish", "point"}
               PROVE  /\ Uploaded(req[s].version)'
                      /\ ~(req'[s].pc = "publish" /\ Draft(req[s].version)')
    BY DEF PublishCleared, Uploaded, Draft
  <2>1. s # r /\ req'[s] = req[s]
    BY <1>8
  <2>2. req[s].version \in VersionIds /\ Uploaded(req[s].version)
    BY <2>1, Shapes DEF Inv, PublishCleared, TypeOK, PublishRequest
  <2> QED
    BY <1>6, <1>9, <2>1, <2>2 DEF Uploaded, Draft
<1>16. Abstract!Upload(v)
  <2> DEFINE status == [w \in VersionIds |-> version[w].status]
             number == [w \in VersionIds |-> IF Uploaded(w) THEN version[w].number ELSE 0]
  <2>1. status[v] = "none" /\ \A w \in VersionIds : status[w] # "draft"
    BY <1>2, <1>9 DEF Uploaded, Unborn, Draft
  <2>2. \A w \in VersionIds : number[w] \in Nat /\ number[w] <= n - 1
    <3> SUFFICES ASSUME NEW w \in VersionIds PROVE number[w] \in Nat /\ number[w] <= n - 1
      OBVIOUS
    <3>1. CASE Uploaded(w)
      <4>1. number[w] = version[w].number
        BY <3>1
      <4> QED
        BY <1>1, <1>7, <1>10, <3>1, <4>1
    <3>2. CASE ~Uploaded(w)
      <4>1. number[w] = 0
        BY <3>2
      <4> QED
        BY <1>1, <4>1
    <3> QED
      BY <3>1, <3>2
  <2>3. n - 1 \in {0} \cup {number[w] : w \in VersionIds}
    BY <1>1, <1>7 DEF Inv, UploadFollows
  <2>4. number' = [number EXCEPT ![v] = (n - 1) + 1]
    <3>1. (n - 1) + 1 = n
      BY <1>1
    <3>2. \A w \in VersionIds : number'[w] = IF w = v THEN n ELSE number[w]
      BY <1>4, <1>5 DEF Uploaded
    <3> QED
      BY <3>1, <3>2
  <2>5. status' = [status EXCEPT ![v] = "draft"]
    BY <1>4, <1>5
  <2> QED
    BY <2>1, <2>2, <2>3, <2>4, <2>5 DEF Abstract!Upload
<1> QED
  BY <1>11, <1>12, <1>13, <1>14, <1>15, <1>16 DEF Inv, Maps, Abstract!Next

\* A claim only raises the rev of the draft it publishes.
LEMMA ClaimStep ==
    ASSUME TypeOK, Inv, NEW r \in Requests, Claim(r)
    PROVE  Inv' /\ UNCHANGED Abstract!vars
<1> DEFINE q == req[r]
<1>0. q \in PublishRequest
  BY Shapes DEF Claim, TypeOK
<1>1. PICK c \in VersionIds : c = q.version /\ Uploaded(c)
  BY <1>0 DEF PublishRequest, Claim, Inv, PublishCleared
<1>2. PICK p \in {Idle, [q EXCEPT !.pc = "archive"]} : Step(r, p)
  BY DEF Claim
<1>3. p.pc \in {"idle", "archive"} /\ (p.pc = "archive" => p.version = c)
  BY <1>0, <1>1, <1>2 DEF PublishRequest
<1>4. req'[r] = p /\ \A s \in Requests : s # r => req'[s] = req[s]
  BY <1>2, StepEffect
<1>5. \A v \in VersionIds :
         /\ version'[v].status = version[v].status
         /\ Uploaded(v)' <=> Uploaded(v)
         /\ Uploaded(v) => version'[v].number = version[v].number
  <2>1. CASE UNCHANGED version
    BY <2>1 DEF Uploaded
  <2>2. CASE Draft(c) /\ version' = [version EXCEPT ![c].rev = @ + 1]
    <3>1. version[c] \in Version
      BY <1>1, <2>2, UploadedIsVersion DEF Draft
    <3>2. version'[c] = [version[c] EXCEPT !.rev = @ + 1]
      BY <1>1, <2>2 DEF TypeOK
    <3>3. /\ version'[c].status = version[c].status
          /\ version'[c].number = version[c].number
          /\ DOMAIN version'[c] # DOMAIN Unborn
      BY <3>1, <3>2 DEF Version, Unborn
    <3>4. Uploaded(c)' /\ Uploaded(c)
      BY <1>1, <3>1, <3>3, UploadedIsVersion DEF Uploaded
    <3>5. \A v \in VersionIds \ {c} : version'[v] = version[v]
      BY <2>2 DEF TypeOK
    <3> QED
      BY <3>3, <3>4, <3>5 DEF Uploaded
  <2> QED
    BY <1>1, <2>1, <2>2 DEF Claim
<1>6. OneDraft' /\ OnePublished'
  BY <1>5 DEF Inv, OneDraft, OnePublished, Draft
<1>7. Contiguous'
  <2> SUFFICES ASSUME NEW v \in VersionIds, Uploaded(v)', NEW n \in 1 .. version'[v].number
               PROVE  \E w \in VersionIds : Uploaded(w)' /\ version'[w].number = n
    BY DEF Contiguous
  <2>1. PICK w \in VersionIds : Uploaded(w) /\ version[w].number = n
    BY <1>5 DEF Inv, Contiguous
  <2> QED
    BY <1>5, <2>1
<1>8. UploadFollows'
  <2> SUFFICES ASSUME NEW s \in Requests, req'[s].pc = "upload", req'[s].number # 1
               PROVE  \E v \in VersionIds :
                         Uploaded(v)' /\ version'[v].number + 1 = req'[s].number
    BY DEF UploadFollows
  <2>1. req'[s] = req[s]
    BY <1>3, <1>4
  <2>2. PICK v \in VersionIds : Uploaded(v) /\ version[v].number + 1 = req[s].number
    BY <2>1 DEF Inv, UploadFollows
  <2> QED
    BY <1>5, <2>1, <2>2
<1>9. PublishCleared'
  <2> SUFFICES ASSUME NEW s \in Requests
               PROVE  /\ req'[s].pc \in {"check", "claim", "archive", "publish", "point"} =>
                           Uploaded(req[s].version)'
                      /\ (req'[s].pc = "publish" /\ Draft(req[s].version)') =>
                           \A v \in VersionIds : version'[v].status # "published"
    BY DEF PublishCleared
  <2>1. CASE s = r
    BY <1>1, <1>3, <1>4, <1>5, <2>1
  <2>2. CASE s # r
    <3>1. req'[s] = req[s] /\ req[s] \in Request
      BY <1>4, <2>2 DEF TypeOK
    <3>2. req[s].pc \in {"check", "claim", "archive", "publish", "point"} =>
             req[s].version \in VersionIds
      BY <3>1, Shapes DEF PublishRequest
    <3> QED
      BY <1>5, <3>1, <3>2 DEF Inv, PublishCleared, Draft
  <2> QED
    BY <2>1, <2>2
<1>10. UNCHANGED Abstract!vars
  BY <1>5 DEF Abstract!vars
<1> QED
  BY <1>6, <1>7, <1>8, <1>9, <1>10 DEF Inv

\* Archiving takes the one published version, if there is one.
LEMMA ArchiveStep ==
    ASSUME TypeOK, Inv, NEW r \in Requests, Archive(r)
    PROVE  Inv' /\ Maps
<1> DEFINE q == req[r]
<1>0. q \in PublishRequest
  BY Shapes DEF Archive, TypeOK
<1>1. PICK c \in VersionIds : c = q.version /\ Uploaded(c)
  BY <1>0 DEF PublishRequest, Archive, Inv, PublishCleared
<1>2. [q EXCEPT !.pc = "publish"].pc = "publish" /\ [q EXCEPT !.pc = "publish"].version = c
  BY <1>0, <1>1 DEF PublishRequest
<1>3. /\ req'[r].pc = "publish" /\ req'[r].version = c
      /\ \A s \in Requests : s # r => req'[s] = req[s]
  BY <1>2, StepEffect DEF Archive
<1>4. \A v \in VersionIds :
         /\ version[v].status = "published" => version'[v].status = "archived"
         /\ version[v].status # "published" => version'[v] = version[v]
         /\ Uploaded(v)' <=> Uploaded(v)
         /\ Uploaded(v) => version'[v].number = version[v].number
  <2> SUFFICES ASSUME NEW v \in VersionIds
               PROVE  /\ version[v].status = "published" => version'[v].status = "archived"
                      /\ version[v].status # "published" => version'[v] = version[v]
                      /\ Uploaded(v)' <=> Uploaded(v)
                      /\ Uploaded(v) => version'[v].number = version[v].number
    OBVIOUS
  <2>1. CASE version[v].status = "published"
    <3>1. version[v] \in Version /\ Uploaded(v)
      BY <2>1, UploadedIsVersion
    <3>2. version'[v] = [version[v] EXCEPT !.status = "archived"]
      BY <2>1 DEF Archive
    <3>3. /\ version'[v].status = "archived"
          /\ version'[v].number = version[v].number
          /\ DOMAIN version'[v] # DOMAIN Unborn
      BY <3>1, <3>2 DEF Version, Unborn
    <3> QED
      BY <2>1, <3>1, <3>3 DEF Uploaded
  <2>2. CASE version[v].status # "published"
    BY <2>2 DEF Archive, Uploaded
  <2> QED
    BY <2>1, <2>2
<1>5. OneDraft' /\ OnePublished'
  BY <1>4 DEF Inv, OneDraft, OnePublished, Draft
<1>6. Contiguous'
  <2> SUFFICES ASSUME NEW v \in VersionIds, Uploaded(v)', NEW n \in 1 .. version'[v].number
               PROVE  \E w \in VersionIds : Uploaded(w)' /\ version'[w].number = n
    BY DEF Contiguous
  <2>1. PICK w \in VersionIds : Uploaded(w) /\ version[w].number = n
    BY <1>4 DEF Inv, Contiguous
  <2> QED
    BY <1>4, <2>1
<1>7. UploadFollows'
  <2> SUFFICES ASSUME NEW s \in Requests, req'[s].pc = "upload", req'[s].number # 1
               PROVE  \E v \in VersionIds :
                         Uploaded(v)' /\ version'[v].number + 1 = req'[s].number
    BY DEF UploadFollows
  <2>1. req'[s] = req[s]
    BY <1>3
  <2>2. PICK v \in VersionIds : Uploaded(v) /\ version[v].number + 1 = req[s].number
    BY <2>1 DEF Inv, UploadFollows
  <2> QED
    BY <1>4, <2>1, <2>2
<1>8. PublishCleared'
  <2> SUFFICES ASSUME NEW s \in Requests,
                      req'[s].pc \in {"check", "claim", "archive", "publish", "point"}
               PROVE  Uploaded(req[s].version)'
                      /\ \A v \in VersionIds : version'[v].status # "published"
    BY DEF PublishCleared
  <2>1. \A v \in VersionIds : version'[v].status # "published"
    BY <1>4
  <2>2. s # r => req[s].version \in VersionIds /\ Uploaded(req[s].version)
    BY <1>3, Shapes DEF Inv, PublishCleared, TypeOK, PublishRequest
  <2> QED
    BY <1>1, <1>3, <1>4, <2>1, <2>2
<1>9. Maps
  <2>1. CASE \A v \in VersionIds : version[v].status # "published"
    <3>1. UNCHANGED Abstract!vars
      BY <1>4, <2>1 DEF Abstract!vars
    <3> QED
      BY <3>1 DEF Maps
  <2>2. CASE \E v \in VersionIds : version[v].status = "published"
    <3> DEFINE status == [w \in VersionIds |-> version[w].status]
               number == [w \in VersionIds |-> IF Uploaded(w) THEN version[w].number ELSE 0]
    <3>1. PICK v \in VersionIds : version[v].status = "published"
      BY <2>2
    <3>2. \A w \in VersionIds \ {v} : version'[w].status = version[w].status
      BY <1>4, <3>1 DEF Inv, OnePublished
    <3>3. status[v] = "published" /\ status' = [status EXCEPT ![v] = "archived"]
      BY <1>4, <3>1, <3>2
    <3>4. number' = number
      BY <1>4
    <3>5. Abstract!Archive(v)
      BY <3>3, <3>4 DEF Abstract!Archive
    <3> QED
      BY <3>5 DEF Maps, Abstract!Next
  <2> QED
    BY <2>1, <2>2
<1> QED
  BY <1>5, <1>6, <1>7, <1>8, <1>9 DEF Inv

\* The draft of a publication that archived is the only version then published.
LEMMA PublishVersionStep ==
    ASSUME TypeOK, Inv, NEW r \in Requests, PublishVersion(r)
    PROVE  Inv' /\ Maps
<1> DEFINE q == req[r]
           next == IF Draft(q.version) THEN [q EXCEPT !.pc = "point"] ELSE Idle
<1>0. q \in PublishRequest /\ q.pc = "publish"
  BY Shapes DEF PublishVersion, TypeOK
<1>1. PICK c \in VersionIds : c = q.version /\ Uploaded(c)
  BY <1>0 DEF PublishRequest, Inv, PublishCleared
<1>2. next.pc \in {"idle", "point"} /\ (next.pc = "point" => next.version = c)
  BY <1>0, <1>1 DEF PublishRequest
<1>3. req'[r] = next /\ \A s \in Requests : s # r => req'[s] = req[s]
  <2>1. Step(r, next)
    BY DEF PublishVersion
  <2> QED
    BY <2>1, StepEffect
<1> HIDE DEF next
<1>4. CASE ~Draft(c)
  <2>1. UNCHANGED version
    BY <1>1, <1>4 DEF PublishVersion
  <2>2. Step(r, Idle)
    BY <1>1, <1>4 DEF PublishVersion
  <2>3. Inv'
    BY <2>1, <2>2, InvUnchanged
  <2>4. UNCHANGED Abstract!vars
    BY <2>1 DEF Abstract!vars, Uploaded
  <2> QED
    BY <2>3, <2>4 DEF Maps
<1>5. CASE Draft(c)
  <2>1. version' = [version EXCEPT ![c].status = "published"]
    BY <1>1, <1>5 DEF PublishVersion
  <2>2. /\ version'[c] = [version[c] EXCEPT !.status = "published"]
        /\ \A v \in VersionIds \ {c} : version'[v] = version[v]
    BY <1>1, <2>1 DEF TypeOK
  <2>3. /\ version'[c].status = "published" /\ version'[c].number = version[c].number
        /\ DOMAIN version'[c] # DOMAIN Unborn
    BY <1>1, <2>2, UploadedIsVersion DEF Version, Unborn
  <2>4. \A v \in VersionIds :
           /\ Uploaded(v)' <=> Uploaded(v)
           /\ Uploaded(v) => version'[v].number = version[v].number
    BY <1>1, <2>2, <2>3 DEF Uploaded
  <2>5. \A v \in VersionIds : version[v].status # "published"
    BY <1>0, <1>1, <1>5 DEF Inv, PublishCleared
  <2>6. \A v \in VersionIds : ~Draft(v)'
    <3> SUFFICES ASSUME NEW v \in VersionIds, Draft(v)' PROVE FALSE
      OBVIOUS
    <3>1. v # c /\ Draft(v)
      BY <2>2, <2>3 DEF Draft
    <3> QED
      BY <1>5, <3>1 DEF Inv, OneDraft
  <2>7. OneDraft' /\ OnePublished'
    BY <2>2, <2>5, <2>6 DEF OneDraft, OnePublished
  <2>8. Contiguous'
    <3> SUFFICES ASSUME NEW v \in VersionIds, Uploaded(v)', NEW n \in 1 .. version'[v].number
                 PROVE  \E w \in VersionIds : Uploaded(w)' /\ version'[w].number = n
      BY DEF Contiguous
    <3>1. PICK w \in VersionIds : Uploaded(w) /\ version[w].number = n
      BY <2>4 DEF Inv, Contiguous
    <3> QED
      BY <2>4, <3>1
  <2>9. UploadFollows'
    <3> SUFFICES ASSUME NEW s \in Requests, req'[s].pc = "upload", req'[s].number # 1
                 PROVE  \E v \in VersionIds :
                           Uploaded(v)' /\ version'[v].number + 1 = req'[s].number
      BY DEF UploadFollows
    <3>1. req'[s] = req[s]
      BY <1>2, <1>3
    <3>2. PICK v \in VersionIds : Uploaded(v) /\ version[v].number + 1 = req[s].number
      BY <3>1 DEF Inv, UploadFollows
    <3> QED
      BY <2>4, <3>1, <3>2
  <2>10. PublishCleared'
    <3> SUFFICES ASSUME NEW s \in Requests,
                        req'[s].pc \in {"check", "claim", "archive", "publish", "point"}
                 PROVE  Uploaded(req[s].version)' /\ ~Draft(req[s].version)'
      BY DEF PublishCleared
    <3>1. s # r => req[s].version \in VersionIds /\ Uploaded(req[s].version)
      BY <1>3, Shapes DEF Inv, PublishCleared, TypeOK, PublishRequest
    <3> QED
      BY <1>1, <1>2, <1>3, <2>4, <2>6, <3>1
  <2>11. Abstract!Publish(c)
    <3> DEFINE status == [w \in VersionIds |-> version[w].status]
               number == [w \in VersionIds |-> IF Uploaded(w) THEN version[w].number ELSE 0]
    <3>1. status[c] = "draft" /\ status' = [status EXCEPT ![c] = "published"]
      BY <1>1, <1>5, <2>2, <2>3 DEF Draft
    <3>2. number' = number
      BY <2>4
    <3> QED
      BY <2>5, <3>1, <3>2 DEF Abstract!Publish
  <2> QED
    BY <1>1, <2>7, <2>8, <2>9, <2>10, <2>11 DEF Inv, Maps, Abstract!Next
<1> QED
  BY <1>4, <1>5

\* Every other step leaves the versions as they are.
LEMMA OtherStutters ==
    ASSUME NEW r \in Requests,
           Edit(r) \/ LoadPublish(r) \/ CheckPublish(r) \/ Point(r)
             \/ (Upload(r) /\ ~CreateVersion(r))
    PROVE  UNCHANGED Abstract!vars
<1>1. UNCHANGED version
  BY DEF Edit, LoadPublish, CheckPublish, Point, Upload, CreateDiagram, LoadUpload,
         ReadLast, FailUpload, FinishDiagram, ReadCopies, InsertCopy, LoadAdd, CheckNext,
         Add, View, LoadUpdate, Update, LoadRemove, Delete, Pull
<1> QED
  BY <1>1 DEF Abstract!vars, Uploaded

\* Without a version there is nothing to compare.
LEMMA InitInv == Init => Inv /\ Abstract!Init
<1> SUFFICES ASSUME Init PROVE Inv /\ Abstract!Init
  OBVIOUS
<1>1. \A v \in VersionIds : ~Uploaded(v) /\ version[v].status = "none"
  BY DEF Init, Uploaded, Unborn
<1>2. \A r \in Requests : req[r].pc = "idle"
  BY DEF Init
<1>3. Inv
  BY <1>1, <1>2 DEF Inv, OneDraft, OnePublished, Contiguous, UploadFollows, PublishCleared, Draft
<1> QED
  BY <1>1, <1>3 DEF Abstract!Init

\* The uploads and publications, in any order and whichever of them fail or
\* stop half way, number the versions without gaps, keep one draft and one
\* published version at most, and never move a version back.
THEOREM Implementation == Spec => ImplementsHistory
<1>1. TypeOK /\ Inv /\ [Next]_vars => Inv' /\ [Abstract!Next]_(Abstract!vars)
  <2> SUFFICES ASSUME TypeOK, Inv, [Next]_vars
               PROVE  Inv' /\ (Abstract!Next \/ UNCHANGED Abstract!vars)
    OBVIOUS
  <2>1. CASE UNCHANGED vars
    BY <2>1 DEF vars, Inv, OneDraft, OnePublished, Contiguous, UploadFollows, PublishCleared,
                Draft, Uploaded, Abstract!vars
  <2>2. CASE Next
    <3>1. PICK r \in Requests : Upload(r) \/ Publish(r) \/ Edit(r)
      BY <2>2 DEF Next
    <3>2. \/ CreateVersion(r) \/ Claim(r) \/ Archive(r) \/ PublishVersion(r)
          \/ Edit(r) \/ LoadPublish(r) \/ CheckPublish(r) \/ Point(r)
               \/ (Upload(r) /\ ~CreateVersion(r))
      BY <3>1 DEF Publish
    <3> QED
      BY <3>2, CreateVersionStep, ClaimStep, ArchiveStep, PublishVersionStep,
         InvOtherSteps, OtherStutters DEF Maps
  <2> QED
    BY <2>1, <2>2
<1> QED
  BY InitInv, TypeCorrect, <1>1, PTL DEF Spec, ImplementsHistory, Abstract!Spec

USE DEF Idle

Num(v) == version[v].number

-----------------------------------------------------------------------------
(* What the requests name *)

\* An upload that follows a version carries its number plus one, and so does the version
\* it copies to; no two requests copy to the same; what is added falls on a version there
\* is, and what is deleted was there.
Fits(q) ==
    /\ q.pc = "upload" /\ q.from # NoVersion => Uploaded(q.from) /\ q.number = Num(q.from) + 1
    /\ q.pc = "copy" => Uploaded(q.from) /\ Uploaded(q.to) /\ Num(q.to) = Num(q.from) + 1
    /\ q.pc = "insert" => Uploaded(q.to)
    /\ q.pc \in {"checkAdd", "add"} => Uploaded(q.version)
    /\ q.pc = "delete" => activity[q.version][q.key] # Absent

Copying(q) == q.pc \in {"copy", "insert"}

NamesInv ==
    /\ \A r \in Requests : Fits(req[r])
    /\ \A r, s \in Requests :
         Copying(req[r]) /\ Copying(req[s]) /\ r # s => Num(req[r].to) # Num(req[s].to)
    /\ \A v \in VersionIds, k \in Keys : activity[v][k] # Absent => Uploaded(v)

\* The activities a copy has yet to insert: what it read, or will.
Coming(q, k) ==
    \/ q.pc = "copy" /\ activity[q.from][k] # Absent
    \/ q.pc = "insert" /\ k \in DOMAIN q.copies

\* An activity still to be copied to a version is neither there nor in a later one, nor
\* coming to a later one. Without it an insertion could fall on an activity that was there.
ComingOK(r, k) ==
    Coming(req[r], k) =>
        /\ \A w \in VersionIds : Uploaded(w) /\ Num(w) >= Num(req[r].to) => activity[w][k] = Absent
        /\ \A s \in Requests :
             s # r /\ req[s].pc = "insert" /\ Num(req[s].to) >= Num(req[r].to) =>
                k \notin DOMAIN req[s].copies

ComingInv == \A r \in Requests, k \in Keys : ComingOK(r, k)

Editing == {"viewing", "checkUpdate", "update"}

\* What an editor saw is gone, is as it was, or has a later rev.
Seen(q) ==
    LET a == activity[q.version][q.key]
    IN  q.pc \in Editing => \/ a = Gone
                            \/ a = q.seen
                            \/ a \in Activity /\ q.seen.rev < a.rev

SeenInv == \A r \in Requests : Seen(req[r])

EditsInv == NamesInv /\ ComingInv /\ SeenInv

-----------------------------------------------------------------------------
(* How versions and activities evolve *)

\* What no step but the creation of a version changes of the versions.
VersionsStay == \A v \in VersionIds :
    /\ Uploaded(v)' <=> Uploaded(v)
    /\ Uploaded(v) => Num(v)' = Num(v)

\* An activity that was there stays, goes, or takes a later rev.
Evolves(v, k) ==
    activity[v][k] # Absent =>
        \/ activity'[v][k] = activity[v][k]
        \/ activity'[v][k] = Gone
        \/ /\ activity[v][k] \in Activity /\ activity'[v][k] \in Activity
           /\ activity[v][k].rev < activity'[v][k].rev

\* An activity that is there is not one of the two marks.
LEMMA Marks ==
    /\ Gone # Absent
    /\ \A a \in Activity : a # Absent /\ a # Gone
<1>1. \A a \in Activity : DOMAIN a = {"rev", "next"}
  BY DEF Activity
<1>2. DOMAIN Absent = {"rev"} /\ DOMAIN Gone = {"rev"} /\ {"rev"} # {"rev", "next"}
  BY DEF Absent, Gone
<1>3. Absent.rev = "absent" /\ Gone.rev = "gone"
  BY DEF Absent, Gone
<1> QED
  BY <1>1, <1>2, <1>3

\* The number of a version there is.
LEMMA Numbers == ASSUME TypeOK, NEW v \in VersionIds, Uploaded(v) PROVE Num(v) \in Nat
BY UploadedIsVersion DEF Num, Version

\* Every step but the creation of a version leaves identifiers and numbers.
LEMMA OthersKeepVersions ==
    ASSUME TypeOK, NEW r \in Requests, Upload(r) \/ Publish(r) \/ Edit(r), ~CreateVersion(r)
    PROVE  VersionsStay
<1>1. CASE Claim(r) \/ PublishVersion(r)
  <2>1. req[r].version \in VersionIds
    BY <1>1, Shapes DEF Claim, PublishVersion, TypeOK, PublishRequest
  <2>2. CASE UNCHANGED version
    BY <2>2 DEF VersionsStay, Uploaded, Num
  <2>3. CASE ~UNCHANGED version
    <3> DEFINE v == req[r].version
    <3>1. version[v] \in Version
      BY <1>1, <2>1, <2>3, UploadedIsVersion DEF Claim, PublishVersion, Draft
    <3>2. \/ version' = [version EXCEPT ![v].rev = @ + 1]
          \/ version' = [version EXCEPT ![v].status = "published"]
      BY <1>1, <2>3 DEF Claim, PublishVersion
    <3>3. /\ version'[v].number = version[v].number
          /\ version'[v].status \in {"draft", "published", "archived"}
          /\ \A w \in VersionIds : w # v => version'[w] = version[w]
      BY <2>1, <3>1, <3>2 DEF Version, TypeOK
    <3>4. version'[v] # Unborn /\ version[v] # Unborn
      BY <3>1, <3>3 DEF Unborn, Version
    <3> QED
      BY <3>3, <3>4 DEF VersionsStay, Uploaded, Num
  <2> QED
    BY <2>2, <2>3
<1>2. CASE Archive(r)
  <2>1. ASSUME NEW v \in VersionIds
        PROVE  (version'[v] # Unborn <=> version[v] # Unborn) /\ version'[v].number = version[v].number
    <3>1. version'[v] = IF version[v].status = "published"
                        THEN [version[v] EXCEPT !.status = "archived"] ELSE version[v]
      BY <1>2 DEF Archive
    <3>2. CASE version[v].status = "published"
      <4>1. version[v] \in Version
        BY <3>2, UploadedIsVersion
      <4>2. version'[v].status = "archived" /\ version'[v].number = version[v].number
        BY <3>1, <3>2, <4>1 DEF Version
      <4> QED
        BY <3>2, <4>2 DEF Unborn
    <3> QED
      BY <3>1, <3>2
  <2> QED
    BY <2>1 DEF VersionsStay, Uploaded, Num
<1>3. CASE UNCHANGED version
  BY <1>3 DEF VersionsStay, Uploaded, Num
<1>4. \/ Claim(r) \/ PublishVersion(r) \/ Archive(r) \/ UNCHANGED version
  BY DEF Upload, Publish, Edit, LoadPublish, CheckPublish, Point, CreateDiagram, LoadUpload,
         ReadLast, FailUpload, FinishDiagram, ReadCopies, InsertCopy, LoadAdd, CheckNext,
         Add, View, LoadUpdate, Update, LoadRemove, Delete, Pull
<1> QED
  BY <1>1, <1>2, <1>3, <1>4

-----------------------------------------------------------------------------
(* What lasts *)

VersionsLast == \A v \in VersionIds : Uploaded(v) => Uploaded(v)' /\ Num(v)' = Num(v)
ActivitiesEvolve == \A v \in VersionIds, k \in Keys : Evolves(v, k)

\* An activity that was there is never again as if it had not been.
LEMMA NeverAbsent ==
    ASSUME ActivitiesEvolve, NEW v \in VersionIds, NEW k \in Keys, activity[v][k] # Absent
    PROVE  activity'[v][k] # Absent
BY Marks DEF ActivitiesEvolve, Evolves

\* So what a request names is still what it was...
LEMMA FitsLasts ==
    ASSUME VersionsLast, ActivitiesEvolve, NEW q \in Request, Fits(q)
    PROVE  Fits(q)'
<1>1. CASE q.pc = "upload"
  BY <1>1, Shapes DEF Fits, UploadRequest, VersionsLast
<1>2. CASE q.pc = "copy"
  BY <1>2, Shapes DEF Fits, CopyRequest, VersionsLast
<1>3. CASE q.pc = "insert"
  BY <1>3, Shapes DEF Fits, InsertRequest, VersionsLast
<1>4. CASE q.pc \in {"checkAdd", "add"}
  BY <1>4, Shapes DEF Fits, AddRequest, VersionsLast
<1>5. CASE q.pc = "delete"
  BY <1>5, Shapes, NeverAbsent DEF Fits, RemoveRequest
<1> QED
  BY <1>1, <1>2, <1>3, <1>4, <1>5 DEF Fits

\* ... and what an editor saw is only left behind.
LEMMA SeenLasts ==
    ASSUME ActivitiesEvolve, NEW q \in Request, Seen(q)
    PROVE  Seen(q)'
<1> SUFFICES ASSUME q.pc \in Editing PROVE Seen(q)'
  BY DEF Seen
<1> DEFINE v == q.version
           k == q.key
<1>1. v \in VersionIds /\ k \in Keys /\ q.seen \in Activity
  BY Shapes DEF Editing, UpdateRequest
<1>2. \/ activity[v][k] = Gone
      \/ activity[v][k] = q.seen
      \/ activity[v][k] \in Activity /\ q.seen.rev < activity[v][k].rev
  BY DEF Seen
<1>3. \/ activity'[v][k] = activity[v][k]
      \/ activity'[v][k] = Gone
      \/ /\ activity[v][k] \in Activity /\ activity'[v][k] \in Activity
         /\ activity[v][k].rev < activity'[v][k].rev
  BY <1>1, <1>2, Marks DEF ActivitiesEvolve, Evolves
<1>4. \A a \in Activity : a.rev \in Int
  BY MaxRevAssumption DEF Activity
<1>5. \/ activity'[v][k] = Gone
      \/ activity'[v][k] = q.seen
      \/ activity'[v][k] \in Activity /\ q.seen.rev < activity'[v][k].rev
  BY <1>1, <1>2, <1>3, <1>4, Marks
<1> QED
  BY <1>5 DEF Seen

\* Two of the three parts need only that the request that moves fits.
LEMMA FitAndSeen ==
    ASSUME TypeOK, EditsInv, VersionsLast, ActivitiesEvolve,
           NEW r \in Requests, NEW p, Step(r, p), Fits(p)', Seen(p)'
    PROVE  (\A s \in Requests : Fits(req[s]))' /\ SeenInv'
<1>1. \A s \in Requests : s # r => req'[s] = req[s] /\ req[s] \in Request
  BY StepEffect DEF TypeOK
<1>2. req'[r] = p
  BY StepEffect
<1>3. \A s \in Requests : Fits(req[s]) /\ Seen(req[s])
  BY DEF EditsInv, NamesInv, SeenInv
<1>4. \A q \in Request : (Fits(q) => Fits(q)') /\ (Seen(q) => Seen(q)')
  BY FitsLasts, SeenLasts
<1>5. \A s \in Requests : (Fits(req[s]) /\ Seen(req[s]))'
  BY <1>1, <1>2, <1>3, <1>4
<1> QED
  BY <1>5 DEF SeenInv

-----------------------------------------------------------------------------
(* Steps that bring no activity to a version *)

\* Reads, publications, changes and removals: no activity appears, and what moves copies
\* nothing.
LEMMA NothingAppears ==
    ASSUME TypeOK, EditsInv, VersionsStay, ActivitiesEvolve,
           \A v \in VersionIds, k \in Keys : activity[v][k] = Absent => activity'[v][k] = Absent,
           NEW r \in Requests, NEW p, Step(r, p), Fits(p)', Seen(p)', ~Copying(p)
    PROVE  EditsInv'
<1>1. VersionsLast
  BY DEF VersionsStay, VersionsLast
<1>2. /\ \A s \in Requests : s # r => req'[s] = req[s]
      /\ req'[r] = p
  BY StepEffect
<1>3. \A v \in VersionIds, k \in Keys : activity'[v][k] = Absent <=> activity[v][k] = Absent
  BY NeverAbsent
<1>4. ASSUME NEW s \in Requests, Copying(req'[s])
      PROVE  /\ s # r /\ req'[s] = req[s] /\ Copying(req[s])
             /\ req[s].to \in VersionIds /\ Uploaded(req[s].to) /\ Num(req[s].to)' = Num(req[s].to)
             /\ req[s].pc = "copy" => req[s].from \in VersionIds
  <2>1. s # r /\ req'[s] = req[s] /\ Copying(req[s])
    BY <1>2, <1>4
  <2>2. /\ req[s].to \in VersionIds /\ Uploaded(req[s].to)
        /\ req[s].pc = "copy" => req[s].from \in VersionIds
    BY <2>1, Shapes DEF TypeOK, Copying, CopyRequest, InsertRequest, EditsInv, NamesInv, Fits
  <2> QED
    BY <2>1, <2>2 DEF VersionsStay
<1>5. ASSUME NEW s \in Requests, NEW t \in Requests, s # t, Copying(req'[s]), Copying(req'[t])
      PROVE  Num(req[s].to)' # Num(req[t].to)'
  BY <1>4, <1>5 DEF EditsInv, NamesInv
<1>6. NamesInv'
  <2>1. \A v \in VersionIds, k \in Keys : activity'[v][k] # Absent => Uploaded(v)'
    BY <1>3 DEF EditsInv, NamesInv, VersionsStay
  <2>2. \A s, t \in Requests :
          Copying(req'[s]) /\ Copying(req'[t]) /\ s # t => version'[req'[s].to].number # version'[req'[t].to].number
    BY <1>4, <1>5 DEF Num
  <2> QED
    BY <1>1, <2>1, <2>2, FitAndSeen DEF NamesInv, Copying, Num
<1>7. ASSUME NEW s \in Requests, NEW k \in Keys, Coming(req[s], k)'
      PROVE  /\ \A w \in VersionIds :
                  Uploaded(w)' /\ version'[w].number >= version'[req'[s].to].number => activity'[w][k] = Absent
             /\ \A t \in Requests :
                  t # s /\ req'[t].pc = "insert" /\ version'[req'[t].to].number >= version'[req'[s].to].number =>
                    k \notin DOMAIN req'[t].copies
  <2>1. Copying(req'[s])
    BY <1>7 DEF Coming, Copying
  <2>2. Coming(req[s], k)
    BY <1>3, <1>4, <1>7, <2>1 DEF Coming
  <2>3. ComingOK(s, k)
    BY DEF EditsInv, ComingInv
  <2>4. version'[req'[s].to].number = Num(req[s].to)
    BY <1>4, <2>1 DEF Num
  <2>5. \A w \in VersionIds : Uploaded(w)' => Uploaded(w) /\ version'[w].number = Num(w)
    BY DEF VersionsStay, Num
  <2>6. \A t \in Requests : req'[t].pc = "insert" =>
          req'[t] = req[t] /\ version'[req'[t].to].number = Num(req[t].to)
    BY <1>4 DEF Copying, Num
  <2> QED
    BY <1>3, <2>2, <2>3, <2>4, <2>5, <2>6 DEF ComingOK
<1>8. ComingInv'
  BY <1>7 DEF ComingInv, ComingOK, Num
<1> QED
  BY <1>1, <1>6, <1>8, FitAndSeen DEF EditsInv

\* The same for a step that leaves the activities.
LEMMA OnlyReads ==
    ASSUME TypeOK, TypeOK', EditsInv, VersionsStay, UNCHANGED activity,
           NEW r \in Requests, NEW p, Step(r, p), Fits(p), Seen(p), ~Copying(p)
    PROVE  EditsInv'
<1>1. p \in Request
  BY StepEffect DEF TypeOK
<1>2. ActivitiesEvolve /\ VersionsLast
  BY DEF ActivitiesEvolve, Evolves, VersionsStay, VersionsLast
<1>3. Fits(p)' /\ Seen(p)'
  BY <1>1, <1>2, FitsLasts, SeenLasts
<1> QED
  BY <1>2, <1>3, NothingAppears

\* A request at a place that names nothing.
LEMMA Plain ==
    ASSUME NEW p, p.pc \in {"idle", "last", "made", "check", "claim", "archive", "publish",
                            "point", "pull"}
    PROVE  Fits(p) /\ Fits(p)' /\ Seen(p) /\ Seen(p)' /\ ~Copying(p)
BY DEF Fits, Seen, Editing, Copying

\* Uploads up to the insertion of the version, and publications.
LEMMA UploadsAndPublications ==
    ASSUME TypeOK, TypeOK', EditsInv, NEW r \in Requests,
           \/ CreateDiagram(r) \/ LoadUpload(r) \/ ReadLast(r) \/ FailUpload(r)
           \/ FinishDiagram(r) \/ Publish(r)
    PROVE  EditsInv'
<1>1. UNCHANGED activity
  BY DEF CreateDiagram, LoadUpload, ReadLast, FailUpload, FinishDiagram, Publish,
         LoadPublish, CheckPublish, Claim, Archive, PublishVersion, Point
<1>2. VersionsStay
  <2>1. CASE Publish(r)
    <3>1. ~CreateVersion(r)
      BY <2>1 DEF Publish, CreateVersion, LoadPublish, CheckPublish, Claim, Archive,
         PublishVersion, Point
    <3> QED
      BY <2>1, <3>1, OthersKeepVersions
  <2>2. CASE UNCHANGED version
    BY <2>2 DEF VersionsStay, Uploaded, Num
  <2> QED
    BY <2>1, <2>2 DEF CreateDiagram, LoadUpload, ReadLast, FailUpload, FinishDiagram
<1>3. CASE CreateDiagram(r)
  <2> DEFINE p == [pc |-> "upload", first |-> TRUE, number |-> 1, from |-> NoVersion]
  <2>1. Step(r, p) /\ Fits(p) /\ Seen(p) /\ ~Copying(p)
    BY <1>3 DEF CreateDiagram, Fits, Seen, Editing, Copying
  <2> QED
    BY <1>1, <1>2, <2>1, OnlyReads
<1>4. CASE ReadLast(r)
  <2>1. PICK from \in IF Last = {} THEN {NoVersion} ELSE Last :
          Step(r, [pc |-> "upload", first |-> FALSE, number |-> NumberAfter(from), from |-> from])
    BY <1>4 DEF ReadLast
  <2> DEFINE p == [pc |-> "upload", first |-> FALSE, number |-> NumberAfter(from), from |-> from]
  <2>2. Fits(p) /\ Seen(p) /\ ~Copying(p)
    BY DEF Last, NumberAfter, Num, Fits, Seen, Editing, Copying
  <2> QED
    BY <1>1, <1>2, <2>1, <2>2, OnlyReads
<1>5. CASE LoadUpload(r) \/ FailUpload(r) \/ FinishDiagram(r)
  <2>1. Step(r, [pc |-> "last"]) \/ Step(r, Idle)
    BY <1>5 DEF LoadUpload, FailUpload, FinishDiagram
  <2> QED
    BY <1>1, <1>2, <2>1, OnlyReads, Plain
<1>6. CASE Publish(r)
  <2>1. \E p : /\ Step(r, p)
               /\ p.pc \in {"idle", "check", "claim", "archive", "publish", "point"}
    <3>1. CASE LoadPublish(r)
      BY <3>1 DEF LoadPublish
    <3>2. CASE CheckPublish(r) \/ Claim(r) \/ Archive(r) \/ PublishVersion(r)
      <4>1. req[r] \in PublishRequest
        BY <3>2, Shapes DEF TypeOK, CheckPublish, Claim, Archive, PublishVersion
      <4>2. \A pc \in {"claim", "archive", "publish", "point"} : [req[r] EXCEPT !.pc = pc].pc = pc
        BY <4>1 DEF PublishRequest
      <4>3. \/ Step(r, Idle)
            \/ \E pc \in {"claim", "archive", "publish", "point"} : Step(r, [req[r] EXCEPT !.pc = pc])
        BY <3>2 DEF CheckPublish, Claim, Archive, PublishVersion
      <4>4. CASE Step(r, Idle)
        BY <4>4
      <4>5. ASSUME NEW pc \in {"claim", "archive", "publish", "point"},
                   Step(r, [req[r] EXCEPT !.pc = pc])
            PROVE  \E p : Step(r, p) /\ p.pc \in {"claim", "archive", "publish", "point"}
        BY <4>2, <4>5
      <4> QED
        BY <4>3, <4>4, <4>5
    <3>3. CASE Point(r)
      BY <3>3 DEF Point
    <3> QED
      BY <1>6, <3>1, <3>2, <3>3 DEF Publish
  <2> QED
    BY <1>1, <1>2, <2>1, OnlyReads, Plain
<1> QED
  BY <1>3, <1>4, <1>5, <1>6

\* The steps of the editor that only read.
LEMMA EditorReads ==
    ASSUME TypeOK, TypeOK', EditsInv, NEW r \in Requests,
           LoadAdd(r) \/ CheckNext(r) \/ View(r) \/ LoadUpdate(r) \/ LoadRemove(r)
    PROVE  EditsInv'
<1> DEFINE q == req[r]
<1>0. q \in Request /\ Fits(q) /\ Seen(q)
  BY DEF TypeOK, EditsInv, NamesInv, SeenInv
<1>1. UNCHANGED activity /\ VersionsStay
  BY DEF LoadAdd, CheckNext, View, LoadUpdate, LoadRemove, VersionsStay, Uploaded, Num
<1>2. CASE LoadAdd(r)
  <2>1. PICK v \in VersionIds, next \in SUBSET Keys :
          Draft(v) /\ Step(r, [pc |-> "checkAdd", version |-> v, next |-> next])
    BY <1>2 DEF LoadAdd
  <2> DEFINE p == [pc |-> "checkAdd", version |-> v, next |-> next]
  <2>2. Fits(p) /\ Seen(p) /\ ~Copying(p)
    BY <2>1, UploadedIsVersion DEF Draft, Fits, Seen, Editing, Copying
  <2> QED
    BY <1>1, <2>1, <2>2, OnlyReads
<1>3. CASE CheckNext(r)
  <2>1. CASE Step(r, Idle)
    BY <1>1, <2>1, OnlyReads, Plain
  <2>2. CASE q.pc = "checkAdd" /\ Step(r, [q EXCEPT !.pc = "add"])
    <3> DEFINE p == [q EXCEPT !.pc = "add"]
    <3>1. p.pc = "add" /\ p.version = q.version
      BY <1>0, <2>2, Shapes DEF AddRequest
    <3>2. Fits(p) /\ Seen(p) /\ ~Copying(p)
      BY <1>0, <2>2, <3>1 DEF Fits, Seen, Editing, Copying
    <3> QED
      BY <1>1, <2>2, <3>2, OnlyReads
  <2>3. CASE q.pc = "checkUpdate" /\ Step(r, [q EXCEPT !.pc = "update"])
    <3> DEFINE p == [q EXCEPT !.pc = "update"]
    <3>1. p.pc = "update" /\ p.version = q.version /\ p.key = q.key /\ p.seen = q.seen
      BY <1>0, <2>3, Shapes DEF UpdateRequest
    <3>2. Fits(p) /\ Seen(p) /\ ~Copying(p)
      BY <1>0, <2>3, <3>1 DEF Fits, Seen, Editing, Copying
    <3> QED
      BY <1>1, <2>3, <3>2, OnlyReads
  <2>4. \/ Step(r, Idle)
        \/ q.pc = "checkAdd" /\ Step(r, [q EXCEPT !.pc = "add"])
        \/ q.pc = "checkUpdate" /\ Step(r, [q EXCEPT !.pc = "update"])
    <3>1. q \in AddRequest \cup UpdateRequest
      BY <1>0, <1>3, Shapes DEF CheckNext
    <3>2. \/ Step(r, Idle)
          \/ Step(r, [q EXCEPT !.pc = IF @ = "checkAdd" THEN "add" ELSE "update"])
      BY <1>3 DEF CheckNext
    <3>3. [q EXCEPT !.pc = IF @ = "checkAdd" THEN "add" ELSE "update"]
            = IF q.pc = "checkAdd" THEN [q EXCEPT !.pc = "add"] ELSE [q EXCEPT !.pc = "update"]
      BY <3>1 DEF AddRequest, UpdateRequest
    <3> QED
      BY <1>3, <3>2, <3>3 DEF CheckNext
  <2> QED
    BY <2>1, <2>2, <2>3, <2>4
<1>4. CASE View(r)
  <2>1. PICK v \in VersionIds, k \in Keys :
          Step(r, [pc |-> "viewing", version |-> v, key |-> k,
                   seen |-> activity[v][k], next |-> activity[v][k].next])
    BY <1>4 DEF View
  <2> DEFINE p == [pc |-> "viewing", version |-> v, key |-> k,
                   seen |-> activity[v][k], next |-> activity[v][k].next]
  <2>2. Fits(p) /\ Seen(p) /\ ~Copying(p)
    BY DEF Fits, Seen, Editing, Copying
  <2> QED
    BY <1>1, <2>1, <2>2, OnlyReads
<1>5. CASE LoadUpdate(r)
  <2>1. q.pc = "viewing" /\ q \in UpdateRequest
    BY <1>0, <1>5, Shapes DEF LoadUpdate
  <2>2. ASSUME NEW p, p.pc \in Editing, p.version = q.version, p.key = q.key, p.seen = q.seen,
               Step(r, p)
        PROVE  EditsInv'
    <3>1. Fits(p) /\ Seen(p) /\ ~Copying(p)
      BY <1>0, <2>1, <2>2 DEF Fits, Seen, Editing, Copying
    <3> QED
      BY <1>1, <2>2, <3>1, OnlyReads
  <2> DEFINE sent == [q EXCEPT !.pc = "update"]
             other(next) == [q EXCEPT !.pc = "checkUpdate", !.next = next]
  <2>3. /\ sent.pc = "update" /\ sent.version = q.version /\ sent.key = q.key /\ sent.seen = q.seen
        /\ \A next : LET p == other(next)
                     IN  p.pc = "checkUpdate" /\ p.version = q.version /\ p.key = q.key /\ p.seen = q.seen
    BY <2>1 DEF UpdateRequest
  <2>4. Step(r, sent) \/ (\E next : Step(r, other(next))) \/ Step(r, Idle)
    BY <1>5 DEF LoadUpdate
  <2>5. CASE Step(r, Idle)
    BY <1>1, <2>5, OnlyReads, Plain
  <2> HIDE DEF sent, other
  <2> QED
    BY <2>2, <2>3, <2>4, <2>5 DEF Editing
<1>6. CASE LoadRemove(r)
  <2>1. PICK v \in VersionIds, k \in Keys :
          Exists(v, k) /\ Step(r, [pc |-> "delete", version |-> v, key |-> k])
    BY <1>6 DEF LoadRemove
  <2> DEFINE p == [pc |-> "delete", version |-> v, key |-> k]
  <2>2. Fits(p) /\ Seen(p) /\ ~Copying(p)
    BY <2>1 DEF Exists, Fits, Seen, Editing, Copying
  <2> QED
    BY <1>1, <2>1, <2>2, OnlyReads
<1> QED
  BY <1>2, <1>3, <1>4, <1>5, <1>6

\* A change takes the next rev; a removal, and what it takes from the transitions of
\* others, too.
LEMMA EditorWrites ==
    ASSUME TypeOK, TypeOK', EditsInv, NEW r \in Requests, Update(r) \/ Delete(r) \/ Pull(r)
    PROVE  EditsInv'
<1> DEFINE q == req[r]
           v == q.version
           k == q.key
<1>0. q \in Request /\ Fits(q)
  BY DEF TypeOK, EditsInv, NamesInv
<1>1. VersionsStay
  BY DEF Update, Delete, Pull, VersionsStay, Uploaded, Num
<1>2. v \in VersionIds /\ k \in Keys
  BY <1>0, Shapes DEF Update, Delete, Pull, UpdateRequest, RemoveRequest
<1>3. \E p : Step(r, p) /\ p.pc \in {"idle", "pull"}
  <2>1. CASE Delete(r)
    <3>1. [q EXCEPT !.pc = "pull"].pc = "pull"
      BY <1>0, <2>1, Shapes DEF Delete, RemoveRequest
    <3> QED
      BY <2>1, <3>1 DEF Delete
  <2> QED
    BY <2>1 DEF Update, Pull
<1>4. ActivitiesEvolve /\ \A w \in VersionIds, j \in Keys :
        activity[w][j] = Absent => activity'[w][j] = Absent
  <2>1. ASSUME UNCHANGED activity
        PROVE  ActivitiesEvolve /\ \A w \in VersionIds, j \in Keys :
                 activity[w][j] = Absent => activity'[w][j] = Absent
    BY <2>1 DEF ActivitiesEvolve, Evolves
  <2>2. ASSUME Update(r), ~UNCHANGED activity
        PROVE  ActivitiesEvolve /\ \A w \in VersionIds, j \in Keys :
                 activity[w][j] = Absent => activity'[w][j] = Absent
    <3>1. /\ activity[v][k] \in Activity /\ activity[v][k].rev < MaxRev
          /\ activity' = [activity EXCEPT ![v][k] = [rev |-> activity[v][k].rev + 1, next |-> q.next]]
      BY <1>2, <2>2, ExistsIsActivity DEF Update
    <3>2. q.next \in SUBSET Keys
      BY <1>0, <2>2, Shapes DEF Update, UpdateRequest
    <3>3. activity'[v][k] \in Activity /\ activity[v][k].rev < activity'[v][k].rev
      BY <1>2, <3>1, <3>2, MaxRevAssumption DEF Activity, TypeOK
    <3>4. \A w \in VersionIds, j \in Keys : w # v \/ j # k => activity'[w][j] = activity[w][j]
      BY <1>2, <3>1 DEF TypeOK
    <3> QED
      BY <3>1, <3>3, <3>4, Marks DEF ActivitiesEvolve, Evolves
  <2>3. ASSUME Delete(r)
        PROVE  ActivitiesEvolve /\ \A w \in VersionIds, j \in Keys :
                 activity[w][j] = Absent => activity'[w][j] = Absent
    <3>1. activity[v][k] # Absent
      BY <1>0, <2>3 DEF Delete, Fits
    <3>2. activity'[v][k] = Gone /\ \A w \in VersionIds, j \in Keys :
            w # v \/ j # k => activity'[w][j] = activity[w][j]
      BY <1>2, <2>3 DEF Delete, TypeOK
    <3> QED
      BY <3>1, <3>2 DEF ActivitiesEvolve, Evolves
  <2>4. ASSUME Pull(r)
        PROVE  ActivitiesEvolve /\ \A w \in VersionIds, j \in Keys :
                 activity[w][j] = Absent => activity'[w][j] = Absent
    <3> DEFINE pointing == {j \in Marked(v) : k \in activity[v][j].next}
    <3>1. ASSUME NEW w \in VersionIds, NEW j \in Keys, w # v \/ j \notin pointing
          PROVE  activity'[w][j] = activity[w][j]
      BY <1>2, <2>4, <3>1 DEF Pull, TypeOK
    <3>2. ASSUME NEW j \in pointing
          PROVE  /\ j \in Keys /\ activity[v][j] \in Activity /\ activity'[v][j] \in Activity
                 /\ activity[v][j].rev < activity'[v][j].rev
      <4>1. j \in Keys /\ activity[v][j] \in Activity
        BY <1>2, ExistsIsActivity DEF Marked
      <4>2. activity'[v][j] = [rev |-> activity[v][j].rev + 1, next |-> activity[v][j].next \ {k}]
        BY <1>2, <2>4, <4>1 DEF Pull, TypeOK
      <4>3. activity[v][j].rev < MaxRev
        BY <2>4 DEF Pull
      <4> QED
        BY <4>1, <4>2, <4>3, MaxRevAssumption DEF Activity
    <3> HIDE DEF pointing
    <3> QED
      BY <3>1, <3>2, Marks DEF ActivitiesEvolve, Evolves
  <2> QED
    BY <2>1, <2>2, <2>3, <2>4
<1> QED
  BY <1>1, <1>3, <1>4, NothingAppears, Plain

-----------------------------------------------------------------------------
(* Steps that bring activities to a version *)

\* What a request that copies names.
LEMMA Copied ==
    ASSUME TypeOK, NamesInv, NEW s \in Requests, Copying(req[s])
    PROVE  /\ req[s].to \in VersionIds /\ Uploaded(req[s].to) /\ Num(req[s].to) \in Nat
           /\ req[s].pc = "copy" =>
                /\ req[s].from \in VersionIds /\ Uploaded(req[s].from)
                /\ Num(req[s].from) \in Nat /\ Num(req[s].to) = Num(req[s].from) + 1
<1>1. req[s] \in CopyRequest \cup InsertRequest /\ Fits(req[s])
  BY Shapes DEF TypeOK, Copying, NamesInv
<1>2. /\ req[s].to \in VersionIds /\ Uploaded(req[s].to)
      /\ req[s].pc = "copy" =>
           /\ req[s].from \in VersionIds /\ Uploaded(req[s].from)
           /\ Num(req[s].to) = Num(req[s].from) + 1
  BY <1>1 DEF Fits, Copying, CopyRequest, InsertRequest
<1> QED
  BY <1>2, Numbers

\* What has to hold after a step that leaves the versions.
LEMMA ComingBecomes ==
    ASSUME UNCHANGED version,
           \A s \in Requests, k \in Keys : Coming(req[s], k)' =>
             /\ \A w \in VersionIds :
                  Uploaded(w) /\ Num(w) >= Num(req'[s].to) => activity'[w][k] = Absent
             /\ \A t \in Requests :
                  t # s /\ req'[t].pc = "insert" /\ Num(req'[t].to) >= Num(req'[s].to) =>
                    k \notin DOMAIN req'[t].copies
    PROVE  ComingInv'
BY DEF ComingInv, ComingOK, Num, Uploaded

\* The rest of the invariant, when the versions stay and so does what the copies name.
LEMMA NamesBecome ==
    ASSUME TypeOK, EditsInv, UNCHANGED version, ActivitiesEvolve,
           NEW r \in Requests, NEW p, Step(r, p), Fits(p)', Seen(p)',
           Copying(p) => Copying(req[r]) /\ p.to = req[r].to,
           \A v \in VersionIds, k \in Keys : activity'[v][k] # Absent => Uploaded(v)
    PROVE  NamesInv' /\ SeenInv'
<1>1. VersionsLast
  BY DEF VersionsLast, Uploaded, Num
<1>2. \A s \in Requests : Copying(req'[s]) => Copying(req[s]) /\ req'[s].to = req[s].to
  BY StepEffect
<1>3. \A s, t \in Requests :
        Copying(req'[s]) /\ Copying(req'[t]) /\ s # t => version'[req'[s].to].number # version'[req'[t].to].number
  BY <1>2 DEF EditsInv, NamesInv, Num
<1>4. (\A s \in Requests : Fits(req[s]))' /\ SeenInv'
  BY <1>1, FitAndSeen
<1>5. \A v \in VersionIds, k \in Keys : activity'[v][k] # Absent => version'[v] # Unborn
  BY DEF Uploaded
<1> QED
  BY <1>3, <1>4, <1>5 DEF NamesInv, Copying, Num, Uploaded

\* A new activity takes a key no version has or is about to get.
LEMMA AddStep ==
    ASSUME TypeOK, TypeOK', EditsInv, NEW r \in Requests, Add(r)
    PROVE  EditsInv'
<1> DEFINE v == req[r].version
<1>1. v \in VersionIds /\ Uploaded(v)
  BY Shapes DEF Add, TypeOK, AddRequest, EditsInv, NamesInv, Fits
<1>2. PICK k \in Keys :
        /\ \A w \in VersionIds : activity[w][k] = Absent
        /\ \A s \in Requests : req[s].pc = "insert" => k \notin DOMAIN req[s].copies
        /\ activity' = [activity EXCEPT ![v][k] = [rev |-> 0, next |-> req[r].next]]
  BY DEF Add
<1>3. \A w \in VersionIds, j \in Keys : w # v \/ j # k => activity'[w][j] = activity[w][j]
  BY <1>1, <1>2 DEF TypeOK
<1>4. req'[r] = Idle /\ \A s \in Requests : s # r => req'[s] = req[s]
  BY StepEffect DEF Add
<1>5. version' = version
  BY DEF Add
<1>6. VersionsLast /\ ActivitiesEvolve
  BY <1>2, <1>3, <1>5 DEF VersionsLast, ActivitiesEvolve, Evolves, Uploaded, Num
<1>7. ASSUME NEW s \in Requests, Copying(req'[s])
      PROVE  s # r /\ req'[s] = req[s] /\ Copying(req[s])
  BY <1>4, <1>7 DEF Copying
<1>8. \A w \in VersionIds, j \in Keys : activity'[w][j] # Absent => Uploaded(w)
  BY <1>1, <1>3 DEF EditsInv, NamesInv
<1>9. NamesInv' /\ SeenInv'
  BY <1>5, <1>6, <1>8, NamesBecome, Plain DEF Add
<1>10. ASSUME NEW s \in Requests, NEW j \in Keys, Coming(req[s], j)'
      PROVE  /\ \A w \in VersionIds :
                  Uploaded(w) /\ Num(w) >= Num(req[s].to) => activity'[w][j] = Absent
             /\ \A t \in Requests :
                  t # s /\ req'[t].pc = "insert" /\ Num(req[t].to) >= Num(req[s].to) =>
                    j \notin DOMAIN req[t].copies
  <2>1. s # r /\ req'[s] = req[s] /\ Copying(req[s])
    BY <1>7, <1>10 DEF Coming, Copying
  <2>2. \A t \in Requests : req'[t].pc = "insert" => req'[t] = req[t]
    BY <1>7 DEF Copying
  <2>3. CASE Coming(req[s], j)
    <3>1. j # k
      BY <1>2, <2>1, <2>3, Copied DEF Coming, EditsInv
    <3> QED
      BY <1>3, <2>2, <2>3, <3>1 DEF ComingOK, EditsInv, ComingInv
  <2>4. CASE ~Coming(req[s], j)
    <3>1. req[s].pc = "copy" /\ activity'[req[s].from][j] # activity[req[s].from][j]
      BY <1>10, <2>1, <2>4 DEF Coming
    <3>2. j = k /\ req[s].from = v
      BY <1>3, <2>1, <3>1, Copied DEF EditsInv
    <3>3. Num(v) \in Nat /\ Num(req[s].to) = Num(v) + 1
      BY <2>1, <3>1, <3>2, Copied DEF EditsInv
    <3>4. \A w \in VersionIds : Num(w) >= Num(req[s].to) => w # v
      BY <3>3
    <3> QED
      BY <1>2, <1>3, <2>2, <3>2, <3>4
  <2> QED
    BY <2>3, <2>4
<1>11. ComingInv'
  BY <1>5, <1>7, <1>10, ComingBecomes DEF Coming, Copying
<1> QED
  BY <1>9, <1>11 DEF EditsInv

\* A copy is inserted where there was none.
LEMMA InsertStep ==
    ASSUME TypeOK, TypeOK', EditsInv, NEW r \in Requests, InsertCopy(r)
    PROVE  EditsInv'
<1> DEFINE q == req[r]
           v == q.to
           copies == q.copies
<1>1. q \in InsertRequest /\ q.pc = "insert" /\ v \in VersionIds /\ Uploaded(v)
  BY Shapes DEF InsertCopy, TypeOK, InsertRequest, EditsInv, NamesInv, Fits
<1>2. PICK k \in DOMAIN copies :
        /\ activity' = [activity EXCEPT ![v][k] = [rev |-> 0, next |-> copies[k]]]
        /\ Step(r, IF DOMAIN copies = {k} THEN Idle
                   ELSE [q EXCEPT !.copies = [j \in DOMAIN copies \ {k} |-> copies[j]]])
  BY DEF InsertCopy
<1>3. k \in Keys
  BY <1>1 DEF InsertRequest
<1>4. /\ \A w \in VersionIds : Uploaded(w) /\ Num(w) >= Num(v) => activity[w][k] = Absent
      /\ \A t \in Requests :
           t # r /\ req[t].pc = "insert" /\ Num(req[t].to) >= Num(v) => k \notin DOMAIN req[t].copies
  BY <1>1, <1>3 DEF EditsInv, ComingInv, ComingOK, Coming
<1>5. Num(v) \in Nat /\ activity[v][k] = Absent
  BY <1>1, <1>4, Numbers
<1>6. \A w \in VersionIds, j \in Keys : w # v \/ j # k => activity'[w][j] = activity[w][j]
  BY <1>1, <1>2 DEF TypeOK
<1>7. version' = version /\ ActivitiesEvolve
  BY <1>5, <1>6 DEF InsertCopy, ActivitiesEvolve, Evolves
<1>8. PICK p : /\ Step(r, p)
               /\ \/ p = Idle
                  \/ p.pc = "insert" /\ p.to = v /\ DOMAIN p.copies = DOMAIN copies \ {k}
  <2> DEFINE rest == [j \in DOMAIN copies \ {k} |-> copies[j]]
             more == [q EXCEPT !.copies = rest]
  <2>1. more.pc = "insert" /\ more.to = v /\ more.copies = rest
    BY <1>1 DEF InsertRequest
  <2>2. DOMAIN rest = DOMAIN copies \ {k}
    OBVIOUS
  <2>3. Step(r, Idle) \/ Step(r, more)
    BY <1>2
  <2> HIDE DEF rest, more
  <2> QED
    BY <2>1, <2>2, <2>3
<1>9. req'[r] = p /\ \A s \in Requests : s # r => req'[s] = req[s]
  BY <1>8, StepEffect
<1>10. NamesInv' /\ SeenInv'
  <2>1. Fits(p)' /\ Seen(p)'
    BY <1>1, <1>7, <1>8 DEF Fits, Seen, Editing, Uploaded
  <2>2. Copying(p) => Copying(q) /\ p.to = q.to
    BY <1>1, <1>8 DEF Copying
  <2>3. \A w \in VersionIds, j \in Keys : activity'[w][j] # Absent => Uploaded(w)
    BY <1>1, <1>6 DEF EditsInv, NamesInv
  <2> QED
    BY <1>7, <1>8, <2>1, <2>2, <2>3, NamesBecome
<1>11. \A s \in Requests : req'[s].pc = "insert" =>
         /\ req[s].pc = "insert" /\ req'[s].to = req[s].to
         /\ DOMAIN req'[s].copies \subseteq DOMAIN req[s].copies
  BY <1>1, <1>8, <1>9
<1>12. ASSUME NEW s \in Requests, NEW j \in Keys, Coming(req[s], j)'
       PROVE  /\ \A w \in VersionIds :
                   Uploaded(w) /\ Num(w) >= Num(req'[s].to) => activity'[w][j] = Absent
              /\ \A t \in Requests :
                   t # s /\ req'[t].pc = "insert" /\ Num(req'[t].to) >= Num(req'[s].to) =>
                     j \notin DOMAIN req'[t].copies
  <2>1. CASE s = r
    <3>1. Coming(q, j) /\ req'[r].to = v /\ j # k
      BY <1>1, <1>8, <1>9, <1>12, <2>1 DEF Coming
    <3>2. ComingOK(r, j)
      BY DEF EditsInv, ComingInv
    <3> QED
      BY <1>6, <1>11, <2>1, <3>1, <3>2 DEF ComingOK
  <2>2. CASE s # r /\ Coming(req[s], j)
    <3>1. req'[s] = req[s] /\ ComingOK(s, j)
      BY <1>9, <2>2 DEF EditsInv, ComingInv
    <3>2. ~(j = k /\ Num(v) >= Num(req[s].to))
      BY <1>1, <2>2, <3>1 DEF ComingOK
    <3> QED
      BY <1>6, <1>11, <2>2, <3>1, <3>2 DEF ComingOK
  <2>3. CASE s # r /\ ~Coming(req[s], j)
    <3>1. req'[s] = req[s] /\ req[s].pc = "copy" /\ activity'[req[s].from][j] # activity[req[s].from][j]
      BY <1>9, <1>12, <2>3 DEF Coming
    <3>2. req[s].from \in VersionIds /\ Num(req[s].from) \in Nat /\ Num(req[s].to) = Num(req[s].from) + 1
      BY <3>1, Copied DEF Copying, EditsInv
    <3>3. j = k /\ req[s].from = v
      BY <1>6, <3>1, <3>2
    <3>4. \A w \in VersionIds : Uploaded(w) /\ Num(w) >= Num(req[s].to) => Num(w) >= Num(v) /\ w # v
      BY <1>5, <3>2, <3>3, Numbers
    <3>5. \A t \in Requests : req'[t].pc = "insert" /\ Num(req'[t].to) >= Num(req[s].to) =>
            t # r /\ Num(req[t].to) >= Num(v)
      <4>1. \A t \in Requests : req'[t].pc = "insert" =>
              req[t].to \in VersionIds /\ Uploaded(req[t].to) /\ req'[t].to = req[t].to
        BY <1>11, Copied DEF Copying, EditsInv
      <4> QED
        BY <1>1, <3>4, <4>1
    <3> QED
      BY <1>4, <1>6, <1>11, <3>1, <3>3, <3>4, <3>5
  <2> QED
    BY <2>1, <2>2, <2>3
<1>13. ComingInv'
  BY <1>7, <1>12, ComingBecomes
<1> QED
  BY <1>10, <1>13 DEF EditsInv

\* What a copy reads of the version before is all it was about to bring.
LEMMA ReadStep ==
    ASSUME TypeOK, TypeOK', EditsInv, NEW r \in Requests, ReadCopies(r)
    PROVE  EditsInv'
<1> DEFINE q == req[r]
           from == q.from
<1>1. /\ q.pc = "copy" /\ from \in VersionIds /\ Uploaded(from) /\ Uploaded(q.to)
      /\ Num(from) \in Nat /\ Num(q.to) = Num(from) + 1
  BY Copied DEF ReadCopies, Copying, EditsInv
<1>2. version' = version /\ activity' = activity
  BY DEF ReadCopies
<1>3. ActivitiesEvolve
  BY <1>2 DEF ActivitiesEvolve, Evolves
<1>4. PICK p : /\ Step(r, p)
               /\ \/ p = Idle
                  \/ p.pc = "insert" /\ p.to = q.to /\ DOMAIN p.copies = Marked(from)
  BY DEF ReadCopies
<1>5. req'[r] = p /\ \A s \in Requests : s # r => req'[s] = req[s]
  BY <1>4, StepEffect
<1>6. NamesInv' /\ SeenInv'
  <2>1. Fits(p)' /\ Seen(p)'
    BY <1>1, <1>2, <1>4 DEF Fits, Seen, Editing, Uploaded
  <2>2. Copying(p) => Copying(q) /\ p.to = q.to
    BY <1>1, <1>4 DEF Copying
  <2>3. \A w \in VersionIds, j \in Keys : activity'[w][j] # Absent => Uploaded(w)
    BY <1>2 DEF EditsInv, NamesInv
  <2> QED
    BY <1>2, <1>3, <1>4, <2>1, <2>2, <2>3, NamesBecome
<1>7. \A j \in Marked(from) : j \in Keys /\ activity[from][j] # Absent
  BY DEF Marked, Exists
<1>8. ASSUME NEW s \in Requests, NEW j \in Keys, Coming(req[s], j)'
      PROVE  /\ Coming(req[s], j) /\ Copying(req[s]) /\ req'[s].to = req[s].to /\ ComingOK(s, j)
  BY <1>1, <1>2, <1>4, <1>5, <1>7, <1>8 DEF Coming, Copying, EditsInv, ComingInv
<1>9. ASSUME NEW s \in Requests, NEW j \in Keys, Coming(req[s], j)', NEW t \in Requests,
             t # s, req'[t].pc = "insert", Num(req'[t].to) >= Num(req'[s].to)
      PROVE  j \notin DOMAIN req'[t].copies
  <2>1. CASE t # r
    BY <1>5, <1>8, <1>9, <2>1 DEF ComingOK
  <2>2. CASE t = r
    <3>1. Num(q.to) # Num(req[s].to) /\ Num(req[s].to) \in Nat
      BY <1>1, <1>8, <1>9, <2>2, Copied DEF Copying, EditsInv, NamesInv
    <3>2. DOMAIN req'[r].copies = Marked(from) /\ req'[r].to = q.to
      BY <1>4, <1>5, <1>9, <2>2
    <3>3. Num(from) >= Num(req[s].to)
      BY <1>1, <1>8, <1>9, <2>2, <3>1, <3>2
    <3>4. activity[from][j] = Absent
      BY <1>1, <1>8, <1>9, <3>3 DEF ComingOK
    <3> QED
      BY <1>7, <2>2, <3>2, <3>4
  <2> QED
    BY <2>1, <2>2
<1>10. ComingInv'
  BY <1>2, <1>8, <1>9, ComingBecomes DEF ComingOK
<1> QED
  BY <1>6, <1>10 DEF EditsInv

\* A version is inserted with the highest number, and nothing on it.
LEMMA CreateStep ==
    ASSUME TypeOK, TypeOK', Inv, EditsInv, NEW r \in Requests, CreateVersion(r)
    PROVE  EditsInv'
<1> DEFINE q == req[r]
           n == q.number
<1>1. q \in UploadRequest /\ q.pc = "upload" /\ n \in Nat /\ n > 0 /\ Fits(q) /\ q.from \in VersionIds \cup {NoVersion}
  BY Shapes DEF CreateVersion, TypeOK, UploadRequest, EditsInv, NamesInv
<1>2. PICK v \in VersionIds :
        /\ ~Uploaded(v)
        /\ version' = [version EXCEPT ![v] = [status |-> "draft", number |-> n, rev |-> 0]]
        /\ Step(r, IF q.first THEN [pc |-> "made"]
                   ELSE IF q.from = NoVersion THEN Idle
                   ELSE [pc |-> "copy", from |-> q.from, to |-> v])
  BY DEF CreateVersion
<1>3. /\ version'[v] # Unborn /\ version'[v].number = n
      /\ \A w \in VersionIds : w # v => version'[w] = version[w]
  BY <1>2 DEF TypeOK, Unborn
<1>4. \A w \in VersionIds : Uploaded(w) => w # v /\ Num(w) \in Nat /\ Num(w) < n
  <2> SUFFICES ASSUME NEW w \in VersionIds, Uploaded(w), ~(Num(w) < n) PROVE FALSE
    BY <1>2, Numbers
  <2>1. n \in 1 .. version[w].number
    BY <1>1, Numbers DEF Num
  <2>2. \E x \in VersionIds : Uploaded(x) /\ version[x].number = n
    BY <2>1 DEF Inv, Contiguous
  <2> QED
    BY <2>2 DEF CreateVersion, Indexes
<1>5. activity' = activity
  BY DEF CreateVersion
<1>6. VersionsLast /\ ActivitiesEvolve
  BY <1>3, <1>4, <1>5 DEF VersionsLast, ActivitiesEvolve, Evolves, Uploaded, Num
<1>7. PICK p : /\ Step(r, p)
               /\ \/ p.pc \in {"idle", "made"}
                  \/ p = [pc |-> "copy", from |-> q.from, to |-> v] /\ q.from # NoVersion
  <2>1. \/ Step(r, [pc |-> "made"]) \/ Step(r, Idle)
        \/ Step(r, [pc |-> "copy", from |-> q.from, to |-> v]) /\ q.from # NoVersion
    BY <1>2
  <2> QED
    BY <2>1
<1>8. req'[r] = p /\ \A s \in Requests : s # r => req'[s] = req[s]
  BY <1>7, StepEffect
<1>9. Copying(p) => /\ p.pc = "copy" /\ p.to = v /\ p.from = q.from
                    /\ q.from \in VersionIds /\ Uploaded(q.from) /\ n = Num(q.from) + 1
  BY <1>1, <1>7 DEF Copying, Fits
<1>10. (\A s \in Requests : Fits(req[s]))' /\ SeenInv'
  <2>1. CASE p.pc \in {"idle", "made"}
    BY <1>6, <1>7, <2>1, FitAndSeen, Plain
  <2>2. CASE p = [pc |-> "copy", from |-> q.from, to |-> v] /\ q.from # NoVersion
    <3>1. /\ q.from \in VersionIds /\ Uploaded(q.from) /\ n = Num(q.from) + 1
      BY <1>9, <2>2 DEF Copying
    <3>2. /\ version'[q.from] # Unborn /\ version'[v] # Unborn
          /\ version'[v].number = version'[q.from].number + 1
      BY <1>3, <1>4, <3>1 DEF Uploaded, Num
    <3>3. Fits(p)' /\ Seen(p)'
      BY <2>2, <3>2 DEF Fits, Seen, Editing, Uploaded, Num
    <3> QED
      BY <1>6, <1>7, <3>3, FitAndSeen
  <2> QED
    BY <1>7, <2>1, <2>2
<1>11. ASSUME NEW s \in Requests, s # r, Copying(req'[s])
       PROVE  /\ req'[s] = req[s] /\ Copying(req[s]) /\ req[s].to \in VersionIds
              /\ version'[req[s].to].number = Num(req[s].to)
              /\ Num(req[s].to) \in Nat /\ Num(req[s].to) < n
  <2>1. req'[s] = req[s] /\ Copying(req[s]) /\ req[s].to \in VersionIds /\ Uploaded(req[s].to)
    BY <1>8, <1>11, Copied DEF EditsInv
  <2> QED
    BY <1>3, <1>4, <2>1 DEF Num
<1>12. NamesInv'
  <2>1. ASSUME NEW s \in Requests, NEW t \in Requests, s # t, Copying(req'[s]), Copying(req'[t])
        PROVE  version'[req'[s].to].number # version'[req'[t].to].number
    <3>1. CASE s # r /\ t # r
      BY <1>11, <2>1, <3>1 DEF EditsInv, NamesInv
    <3>2. CASE s = r \/ t = r
      <4>1. req'[r].to = v
        BY <1>8, <1>9, <2>1, <3>2
      <4> QED
        BY <1>3, <1>11, <2>1, <3>2, <4>1
    <3> QED
      BY <3>1, <3>2
  <2>2. \A w \in VersionIds, k \in Keys : activity'[w][k] # Absent => version'[w] # Unborn
    BY <1>3, <1>5 DEF EditsInv, NamesInv, Uploaded
  <2> QED
    BY <1>10, <2>1, <2>2 DEF NamesInv, Copying, Num, Uploaded
<1>13. \A k \in Keys : activity[v][k] = Absent
  BY <1>2 DEF EditsInv, NamesInv
<1>14. ASSUME NEW s \in Requests, NEW k \in Keys, Coming(req[s], k)'
       PROVE  /\ \A w \in VersionIds :
                   version'[w] # Unborn /\ version'[w].number >= version'[req'[s].to].number => activity'[w][k] = Absent
              /\ \A t \in Requests :
                   t # s /\ req'[t].pc = "insert" /\ version'[req'[t].to].number >= version'[req'[s].to].number =>
                     k \notin DOMAIN req'[t].copies
  <2>1. Copying(req'[s])
    BY <1>14 DEF Coming, Copying
  <2>2. \A t \in Requests : req'[t].pc = "insert" =>
          t # r /\ req'[t] = req[t] /\ version'[req'[t].to].number = Num(req[t].to) /\ Num(req[t].to) < n
                /\ Num(req[t].to) \in Nat
    BY <1>8, <1>9, <1>11 DEF Copying
  <2>3. CASE s = r
    <3>1. version'[req'[s].to].number = n
      BY <1>3, <1>8, <1>9, <2>1, <2>3
    <3>2. \A w \in VersionIds : version'[w] # Unborn /\ version'[w].number >= n => w = v
      BY <1>1, <1>3, <1>4 DEF Uploaded, Num
    <3> QED
      BY <1>1, <1>5, <1>13, <2>2, <3>1, <3>2
  <2>4. CASE s # r
    <3>1. req'[s] = req[s] /\ version'[req'[s].to].number = Num(req[s].to) /\ Coming(req[s], k)
      BY <1>5, <1>11, <1>14, <2>1, <2>4 DEF Coming
    <3>2. ComingOK(s, k)
      BY DEF EditsInv, ComingInv
    <3>3. \A w \in VersionIds : version'[w] # Unborn /\ w # v => Uploaded(w) /\ version'[w].number = Num(w)
      BY <1>3 DEF Uploaded, Num
    <3> QED
      BY <1>5, <1>13, <2>2, <3>1, <3>2, <3>3 DEF ComingOK
  <2> QED
    BY <2>3, <2>4
<1>15. ComingInv'
  BY <1>14 DEF ComingInv, ComingOK, Num, Uploaded
<1> QED
  BY <1>10, <1>12, <1>15 DEF EditsInv

-----------------------------------------------------------------------------
(* The theorems *)

\* A copy never falls on an activity there is, a new activity is on no other version, and
\* what an editor saw is gone, as it was, or of an earlier rev.
THEOREM EditsAreRight == Spec => [](TypeOK /\ Inv /\ EditsInv)
<1>1. Init => EditsInv
  <2> SUFFICES ASSUME Init PROVE EditsInv
    OBVIOUS
  <2>1. (\A r \in Requests : req[r] = Idle) /\ \A v \in VersionIds, k \in Keys : activity[v][k] = Absent
    BY DEF Init
  <2> QED
    BY <2>1, Plain DEF EditsInv, NamesInv, ComingInv, SeenInv, ComingOK, Coming, Copying
<1>2. TypeOK /\ TypeOK' /\ Inv /\ EditsInv /\ [Next]_vars => EditsInv'
  <2> SUFFICES ASSUME TypeOK, TypeOK', Inv, EditsInv, [Next]_vars PROVE EditsInv'
    OBVIOUS
  <2>1. CASE UNCHANGED vars
    BY <2>1 DEF vars, EditsInv, NamesInv, ComingInv, SeenInv, ComingOK, Coming, Copying, Fits,
       Seen, Uploaded, Num
  <2>2. ASSUME NEW r \in Requests, Upload(r) \/ Publish(r) \/ Edit(r) PROVE EditsInv'
    BY <2>2, UploadsAndPublications, EditorReads, EditorWrites, AddStep, InsertStep, ReadStep,
       CreateStep DEF Upload, Edit
  <2> QED
    BY <2>1, <2>2 DEF Next
<1>3. TypeOK /\ Inv /\ [Next]_vars => Inv'
  <2> SUFFICES ASSUME TypeOK, Inv, [Next]_vars PROVE Inv'
    OBVIOUS
  <2>1. CASE UNCHANGED vars
    BY <2>1 DEF vars, Inv, OneDraft, OnePublished, Contiguous, UploadFollows, PublishCleared,
       Draft, Uploaded
  <2>2. ASSUME NEW r \in Requests, Upload(r) \/ Publish(r) \/ Edit(r) PROVE Inv'
    <3>1. \/ CreateVersion(r) \/ Claim(r) \/ Archive(r) \/ PublishVersion(r)
          \/ Edit(r) \/ LoadPublish(r) \/ CheckPublish(r) \/ Point(r)
               \/ (Upload(r) /\ ~CreateVersion(r))
      BY <2>2 DEF Publish
    <3> QED
      BY <3>1, CreateVersionStep, ClaimStep, ArchiveStep, PublishVersionStep, InvOtherSteps
  <2> QED
    BY <2>1, <2>2 DEF Next
<1> QED
  BY <1>1, <1>2, <1>3, InitInv, TypeCorrect, PTL DEF Spec

\* A change of an activity falls on what its author was looking at, whatever was copied,
\* removed or changed meanwhile.
THEOREM UpdatesAreSafe == Spec => UpdatesSafe
<1> DEFINE Safe(r) ==
      LET q == req[r]
      IN (q.pc = "update" /\ req'[r] # q
            /\ activity'[q.version][q.key] # activity[q.version][q.key]) =>
         activity[q.version][q.key] = q.seen
<1>1. ASSUME TypeOK, EditsInv, [Next]_vars, NEW r \in Requests PROVE Safe(r)
  <2> SUFFICES ASSUME req[r].pc = "update", req'[r] # req[r],
                      activity'[req[r].version][req[r].key] # activity[req[r].version][req[r].key]
               PROVE  activity[req[r].version][req[r].key] = req[r].seen
    OBVIOUS
  <2> DEFINE a == activity[req[r].version][req[r].key]
  <2>1. req[r] \in UpdateRequest
    BY <1>1, Shapes DEF TypeOK
  <2>2. PICK s \in Requests : Upload(s) \/ Publish(s) \/ Edit(s)
    BY <1>1 DEF Next, vars
  <2>3. s = r
    <3>1. \E p : Step(s, p)
      BY <2>2 DEF Upload, Publish, Edit, LoadPublish, CheckPublish, Claim, Archive,
         PublishVersion, Point, CreateDiagram, LoadUpload, ReadLast, CreateVersion, FailUpload,
         FinishDiagram, ReadCopies, InsertCopy, LoadAdd, CheckNext, Add, View, LoadUpdate,
         Update, LoadRemove, Delete, Pull
    <3> QED
      BY <1>1, <3>1, StepEffect
  <2>4. Update(r)
    BY <2>2, <2>3 DEF Upload, Publish, Edit, LoadPublish, CheckPublish, Claim, Archive,
       PublishVersion, Point, CreateDiagram, LoadUpload, ReadLast, CreateVersion, FailUpload,
       FinishDiagram, ReadCopies, InsertCopy, LoadAdd, CheckNext, Add, View, LoadUpdate,
       LoadRemove, Delete, Pull
  <2>5. a.rev = req[r].seen.rev /\ a # Gone
    BY <2>4 DEF Update, Exists
  <2>6. a = Gone \/ a = req[r].seen \/ (a \in Activity /\ req[r].seen.rev < a.rev)
    BY <1>1 DEF EditsInv, SeenInv, Seen, Editing
  <2>7. req[r].seen.rev \in Int
    BY <2>1, MaxRevAssumption DEF UpdateRequest, Activity
  <2> QED
    BY <2>5, <2>6, <2>7
<1>2. TypeOK /\ EditsInv /\ [Next]_vars => [\A r \in Requests : Safe(r)]_vars
  BY <1>1
<1> QED
  BY <1>2, EditsAreRight, PTL DEF Spec, UpdatesSafe

=============================================================================
