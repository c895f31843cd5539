---------------------------- MODULE Server_proofs ----------------------------
(***************************************************************************)
(* Proofs about the components of the server that run by themselves        *)
(* (MCParts), for any requests, workers, uploads, deployments and bounds:  *)
(* of the images, the exports, the analyses, the schedule, the decisions,  *)
(* the accounts, the heartbeats, the deployments and the mining, the       *)
(* inductive invariant, that the initial states have it, that the steps    *)
(* keep it, and that the properties follow.                                *)
(***************************************************************************)
EXTENDS MCParts, FiniteSetTheorems, SequenceTheorems, TLAPS

\* The components count as the library does.
LEMMA FilesCardinality ==
  /\ \A S : Storage!Cardinality(S) = Cardinality(S)
  /\ \A S : Analysis!Cardinality(S) = Cardinality(S)
BY DEF Cardinality, Storage!Cardinality, Analysis!Cardinality

-----------------------------------------------------------------------------
\* Two versions have no file in common.
LEMMA KeysDiffer ==
  ASSUME NEW v \in Nat, NEW w \in Nat, v # w
  PROVE  Storage!KeysOf(v) \cap Storage!KeysOf(w) = {}
<1>1. ASSUME NEW a \in Nat, NEW b \in Nat, a < b, NEW i \in 0..Images - 1, NEW j \in 0..Images - 1
      PROVE  Images * a + i < Images * b + j
  <2>1. Images * b >= Images * a + Images
    BY <1>1, Versions
  <2> QED
    BY <1>1, <2>1, Versions
<1> QED
  BY <1>1, Versions DEF Storage!KeysOf

\* The number of a file says whose it is.
LEMMA KeyNames == ASSUME NEW v \in Nat, NEW k \in Storage!KeysOf(v) PROVE k \in Nat /\ k \div Images = v
<1> PICK i \in 0..Images - 1 : k = Images * v + i
  BY DEF Storage!KeysOf
<1>1. Images * v \in Nat
  BY Versions
<1> QED
  BY <1>1, Versions

\* The largest of some integers.
LEMMA Largest ==
  ASSUME NEW S, S \subseteq Int, S # {}, IsFiniteSet(S)
  PROVE  \E x \in S : \A y \in S : x >= y
<1> DEFINE Above(x) == {y \in S : y > x}
           Aboves == {Above(x) : x \in S}
<1>1. Aboves \subseteq FiniteSubsetsOf(S) /\ Aboves # {}
  <2>1. Aboves \subseteq SUBSET S /\ Aboves # {}
    OBVIOUS
  <2> QED
    BY <2>1, FS_FiniteSubsetsOfFinite
<1>2. PICK A \in Aboves : \A B \in Aboves : ~(<<B, A>> \in StrictSubsetOrdering(S))
  <2> HIDE DEF Aboves
  <2> QED
    BY <1>1, FS_StrictSubsetOrderingWellFounded, WFMin
<1>3. PICK x \in S : A = Above(x)
  OBVIOUS
<1>4. ASSUME NEW y \in S, y > x PROVE FALSE
  <2>0. x \in Int /\ y \in Int /\ ~(y > y)
    OBVIOUS
  <2>a. \A z \in S : z > y => z > x
    <3> SUFFICES ASSUME NEW z \in S, z > y PROVE z > x
      OBVIOUS
    <3>1. z \in Int
      OBVIOUS
    <3> QED
      BY <3>1, <2>0, <1>4
  <2>1. Above(y) \subseteq Above(x) /\ y \in Above(x) /\ y \notin Above(y)
    BY <1>4, <2>0, <2>a
  <2>2. <<Above(y), A>> \in StrictSubsetOrdering(S)
    BY <1>3, <2>1 DEF StrictSubsetOrdering
  <2> QED
    BY <1>2, <2>2
<1> QED
  BY <1>4

\* A finite set of numbers has a largest one, and Max finds it.
LEMMA LargestIsMax ==
  ASSUME NEW S, S \subseteq Int, S # {}, IsFiniteSet(S)
  PROVE  Storage!Max(S) \in S /\ \A y \in S : Storage!Max(S) >= y
BY Largest DEF Storage!Max

\* A version has as many files as images.
LEMMA KeysFinite == ASSUME NEW v \in Nat PROVE IsFiniteSet(Storage!KeysOf(v))
<1> DEFINE f == [i \in 0..Images - 1 |-> Images * v + i]
<1>1. IsFiniteSet(0..Images - 1)
  BY FS_Interval, Versions
<1>2. f \in Surjection(0..Images - 1, Storage!KeysOf(v))
  BY DEF Surjection, Storage!KeysOf
<1> QED
  BY <1>1, <1>2, FS_Surjection

\* The keys of all the images there may be.
Keys == UNION {Storage!KeysOf(v) : v \in Uploads \cup {0}}

\* The files are finitely many numbers.
LEMMA KeysAreFew == IsFiniteSet(Keys) /\ Keys \subseteq Nat
<1> DEFINE Ids == Uploads \cup {0}
           f == [v \in Ids |-> Storage!KeysOf(v)]
           Groups == {Storage!KeysOf(v) : v \in Ids}
<1>1. IsFiniteSet(Ids) /\ Ids \subseteq Nat
  BY Finite, FS_AddElement, Versions
<1>2. f \in Surjection(Ids, Groups)
  BY DEF Surjection
<1>3. IsFiniteSet(Groups)
  <2> HIDE DEF Ids, f, Groups
  <2> QED
    BY <1>1, <1>2, FS_Surjection
<1>4. \A T \in Groups : IsFiniteSet(T) /\ T \subseteq Nat
  BY <1>1, KeysFinite, KeyNames
<1>5. Keys = UNION Groups
  BY DEF Keys
<1> HIDE DEF Groups
<1> QED
  BY <1>3, <1>4, <1>5, FS_UNION

(* The images: x1 .. x10 are diagrams, versions, copied, objects, moving, req, sweep, *)
(* job, slips and faults.                                                             *)

Ids == {v.id : v \in x2}

\* Before the first PUT, and once all have landed.
Before == {"idle", "diagram", "check", "number", "image"}
Landed == {"insert", "copy", "touch", "made"}

\* A removal still has the key to delete.
Pending(w, k) == k \in x7[w].keys \/ (x7[w].more /\ k > x7[w].token)

\* The upload has ended and so have its PUTs.
IsOver(u) == x6[u].step \in Storage!Ended /\ Storage!KeysOf(u) \cap x5 = {}

\* What an upload has, by the step it is at.
UploadSteps(u) ==
  /\ u \in Ids => \/ x6[u].step \in {"copy", "touch", "made", "failed", "undo"}
                  \/ Storage!At(u, "clean") /\ Storage!Slipped(u, {"lost"})
  /\ \A v \in x2 : v.id = u => v.diagram = x6[u].diagram
  /\ x6[u].diagram \in {u, Storage!First}
  /\ Storage!At(u, "diagram") => Storage!IsNew(u)
  /\ x6[u].step \in {"idle", "check", "number"} => ~Storage!IsNew(u)
  /\ x7[u].on <=> Storage!At(u, "clean")
  /\ x7[u].keys \subseteq Storage!KeysOf(u)
  /\ ~x7[u].on => x7[u].keys = {}
  /\ x6[u].step \in Before \cup Landed => Storage!KeysOf(u) \cap x5 = {}

\* Its objects, while the project is open.
UploadObjects(u) ==
  /\ u \in Ids /\ ~Storage!Slipped(u, {"lost"}) => Storage!KeysOf(u) \subseteq x4
  /\ Storage!At(u, "puts") => Storage!KeysOf(u) \subseteq x4 \cup x5
  /\ Storage!At(u, "insert") => Storage!KeysOf(u) \subseteq x4
  /\ x6[u].step \in Before => Storage!KeysOf(u) \cap x4 = {}
  /\ /\ Storage!At(u, "undo") \/ Storage!At(u, "failed")
     /\ u \notin Ids /\ ~Storage!Slipped(u, {"late", "unclean", "dead"})
     => Storage!KeysOf(u) \cap (x4 \cup x5) = {}
  /\ Storage!At(u, "clean") /\ u \notin Ids /\ ~Storage!Slipped(u, {"late"}) =>
       /\ Storage!KeysOf(u) \cap x5 = {}
       /\ \A k \in Storage!KeysOf(u) \cap x4 : Pending(u, k)

\* Its documents, while the project is open.
UploadDocuments(u) ==
  /\ x6[u].step \in {"copy", "touch", "made"} => u \in Ids
  /\ u \in x1 => Storage!IsNew(u) /\ x6[u].step \notin {"idle", "diagram"}
  /\ Storage!IsNew(u) /\ x6[u].step \notin {"idle", "diagram", "failed"} => u \in x1
  /\ Storage!IsNew(u) /\ Storage!At(u, "failed") /\ u \in x1 => Storage!Slipped(u, {"dead", "undone"})
  /\ Storage!At(u, "undo") /\ u \in Ids => Storage!Slipped(u, {"touched", "lost"})
  /\ Storage!IsNew(u) /\ Storage!At(u, "failed") /\ u \in Ids =>
       u \in x1 \/ Storage!Slipped(u, {"touched", "lost", "dead"})

UploadHolds(u) ==
  /\ UploadSteps(u)
  /\ x8 = "none" => UploadObjects(u) /\ UploadDocuments(u)

\* What was there before the first upload, until the deletion is asked for.
FirstHolds ==
  x8 = "none" => /\ Storage!First \in x1 /\ Storage!KeysOf(Storage!First) \subseteq x4
                  /\ \A v \in x2 : v.id = Storage!First => v.diagram = Storage!First

\* The upload was running when the deletion was asked for.
Overlaps(u) == u \in Uploads /\ Storage!Slipped(u, {"overlap"})
IsLate(k) == \E u \in Uploads : Overlaps(u) /\ k \in Storage!KeysOf(u)

\* What each step of the deletion has left.
DeletionHolds ==
  /\ x7[Storage!Job].on <=> x8 = "objects"
  /\ x8 # "none" =>
       \A u \in Uploads : Overlaps(u) \/ IsOver(u)
  /\ x8 = "objects" =>
       \A k \in x4 : IsLate(k) \/ Pending(Storage!Job, k)
  /\ x8 \notin {"none", "objects"} => \A k \in x4 : IsLate(k)
  /\ x8 \in {"versions", "diagrams", "deleted"} => \A v \in x3 : Overlaps(v)
  /\ x8 \in {"diagrams", "deleted"} => \A v \in Ids : Overlaps(v)
  /\ x8 = "deleted" => \A d \in x1 : Overlaps(d)

StorageInv ==
  /\ Storage!TypeOK /\ IsFiniteSet(x2)
  /\ \A k \in x5 : \E u \in Uploads : k \in Storage!KeysOf(u)
  /\ \A u \in Uploads : UploadHolds(u)
  /\ FirstHolds /\ DeletionHolds

-----------------------------------------------------------------------------
\* What the documents, the requests and the removals hold.
Named == Uploads \cup {0}
Docs == [id : Named, diagram : Named, number : Nat \ {0}]
Reqs == [step : Storage!Steps, diagram : Named, number : Nat \ {0}]
Sweeps == [on : BOOLEAN, token : Int, keys : SUBSET Keys, more : BOOLEAN]

\* The types, with each set under a name.
LEMMA StorageShape ==
  Storage!TypeOK <=>
    /\ x1 \subseteq Named /\ x3 \subseteq Named /\ x2 \subseteq Docs
    /\ x4 \subseteq Keys /\ x5 \subseteq Keys
    /\ x6 \in [Uploads -> Reqs] /\ x7 \in [Named -> Sweeps]
    /\ x8 \in Storage!JobSteps /\ x9 \subseteq Uploads \X Storage!Whys /\ x10 \in 0..MaxFaults
BY DEF Storage!TypeOK, Named, Docs, Reqs, Sweeps, Keys, Storage!First, Storage!Job

\* The two sweeps that start as constants.
LEMMA NewSweeps ==
  /\ Storage!NoSweep = [on |-> FALSE, token |-> -1, keys |-> {}, more |-> FALSE]
  /\ Storage!NewSweep = [on |-> TRUE, token |-> -1, keys |-> {}, more |-> TRUE]
  /\ Storage!NoSweep \in Sweeps /\ Storage!NewSweep \in Sweeps
<1>1. Storage!NoSweep = [on |-> FALSE, token |-> -1, keys |-> {}, more |-> FALSE]
  BY DEF Storage!NoSweep
<1>2. Storage!NewSweep = [on |-> TRUE, token |-> -1, keys |-> {}, more |-> TRUE]
  <2>1. Storage!NewSweep = [Storage!NoSweep EXCEPT !.on = TRUE, !.more = TRUE]
    BY DEF Storage!NewSweep
  <2> QED
    BY <2>1, <1>1
<1>3. ASSUME NEW b \in BOOLEAN PROVE [on |-> b, token |-> -1, keys |-> {}, more |-> b] \in Sweeps
  BY DEF Sweeps
<1> QED
  BY <1>1, <1>2, <1>3

\* Nothing is stored but the first version.
LEMMA StorageInit == Storage!Init => StorageInv
<1> SUFFICES ASSUME Storage!Init PROVE StorageInv
  OBVIOUS
<1> USE DEF Storage!Init, Storage!First, Storage!Job
<1>1. Storage!TypeOK
  <2>1. x1 \subseteq Named /\ x3 \subseteq Named /\ x2 \subseteq Docs
    BY DEF Named, Docs
  <2>2. x4 \subseteq Keys /\ x5 \subseteq Keys
    BY DEF Keys
  <2>3. [step |-> "idle", diagram |-> 0, number |-> 1] \in Reqs
    BY DEF Reqs, Named, Storage!Steps, Storage!Ended
  <2>4. x6 \in [Uploads -> Reqs] /\ x7 \in [Named -> Sweeps]
    <3>1. x6 = [u \in Uploads |-> [step |-> "idle", diagram |-> 0, number |-> 1]]
      OBVIOUS
    <3>2. x7 = [w \in Named |-> Storage!NoSweep]
      BY DEF Named
    <3> QED
      BY <2>3, <3>1, <3>2, NewSweeps
  <2>5. x8 \in Storage!JobSteps /\ x9 \subseteq Uploads \X Storage!Whys /\ x10 \in 0..MaxFaults
    BY Bounds DEF Storage!JobSteps
  <2> QED
    BY <2>1, <2>2, <2>4, <2>5, StorageShape
<1>2. IsFiniteSet(x2)
  BY FS_Singleton
<1>3. ASSUME NEW u \in Uploads PROVE UploadHolds(u)
  <2>1. u \in Nat /\ u # 0
    BY Versions
  <2>2. x6[u] = [step |-> "idle", diagram |-> 0, number |-> 1] /\ x7[u] = Storage!NoSweep
    OBVIOUS
  <2>3. UploadSteps(u)
    BY <2>1, <2>2 DEF UploadSteps, Ids, Before, Landed, Storage!At, Storage!IsNew, Storage!NoSweep
  <2>4. Storage!KeysOf(u) \cap x4 = {}
    BY <2>1, KeysDiffer
  <2>5. UploadObjects(u)
    BY <2>1, <2>2, <2>4 DEF UploadObjects, Ids, Before, Storage!At
  <2>6. UploadDocuments(u)
    BY <2>1, <2>2 DEF UploadDocuments, Ids, Storage!At, Storage!IsNew
  <2> QED
    BY <2>3, <2>5, <2>6 DEF UploadHolds
<1>4. FirstHolds
  BY DEF FirstHolds
<1>5. DeletionHolds
  BY DEF DeletionHolds, Storage!NoSweep
<1> QED
  BY <1>1, <1>2, <1>3, <1>4, <1>5 DEF StorageInv

-----------------------------------------------------------------------------
\* The steps of an upload.
UploadStep(u) ==
  \/ Storage!Ask(u) \/ Storage!CreateDiagram(u) \/ Storage!CheckDraft(u) \/ Storage!ReadNumber(u)
  \/ Storage!Process(u) \/ Storage!PutsDone(u) \/ Storage!PutFails(u) \/ Storage!Insert(u)
  \/ Storage!InsertFails(u) \/ Storage!Copy(u) \/ Storage!Touch(u) \/ Storage!LateError(u)
  \/ Storage!Undo(u) \/ Storage!Die(u) \/ Storage!Cleaned(u)

\* A slip that is noted stays noted.
LEMMA SlipTypes ==
  ASSUME NEW u \in Uploads, NEW why \in Storage!Whys, x9 \subseteq Uploads \X Storage!Whys,
         Storage!Slip(u, why)
  PROVE  x9' \subseteq Uploads \X Storage!Whys /\ x9 \subseteq x9' /\ <<u, why>> \in x9'
BY DEF Storage!Slip

\* What a request that goes on changes.
LEMMA GoTypes ==
  ASSUME x6 \in [Uploads -> Reqs], NEW u \in Uploads, NEW step \in Storage!Steps, Storage!Go(u, step)
  PROVE  /\ x6' \in [Uploads -> Reqs]
         /\ x6'[u].step = step /\ x6'[u].diagram = x6[u].diagram
         /\ \A w \in Uploads \ {u} : x6'[w] = x6[w]
<1>1. [x6[u] EXCEPT !.step = step] \in Reqs
  BY DEF Reqs
<1>2. x6' = [x6 EXCEPT ![u] = [x6[u] EXCEPT !.step = step]]
  BY DEF Storage!Go
<1>3. x6'[u] = [x6[u] EXCEPT !.step = step]
  BY <1>2
<1>4. [x6[u] EXCEPT !.step = step].step = step /\ [x6[u] EXCEPT !.step = step].diagram = x6[u].diagram
  BY DEF Reqs
<1> QED
  BY <1>1, <1>2, <1>3, <1>4

\* What a step of the sweep changes.
LEMMA SweepTypes ==
  ASSUME x7 \in [Named -> Sweeps], NEW u \in Uploads, NEW s \in Sweeps, x7' = [x7 EXCEPT ![u] = s]
  PROVE  x7' \in [Named -> Sweeps] /\ x7'[u] = s /\ \A w \in Named \ {u} : x7'[w] = x7[w]
BY DEF Named

\* The names of the steps and of the slips.
LEMMA StepNames ==
  /\ \A u : Storage!AfterError(u) \in {"undo", "failed"}
  /\ {"idle", "made", "failed", "diagram", "check", "number", "image", "puts", "insert", "clean",
      "copy", "touch", "undo"} = Storage!Steps
  /\ {"late", "lost", "unclean", "dead", "undone", "touched", "overlap"} = Storage!Whys
BY DEF Storage!AfterError, Storage!Steps, Storage!Ended, Storage!Whys

\* The documents with the one an upload inserts.
LEMMA InsertedTypes ==
  ASSUME x2 \subseteq Docs, x6 \in [Uploads -> Reqs], IsFiniteSet(x2), NEW u \in Uploads
  PROVE  /\ Storage!Inserted(u) \subseteq Docs /\ IsFiniteSet(Storage!Inserted(u))
         /\ \A v : v \in Storage!Inserted(u) <=>
                     v \in x2 \/ v = [id |-> u, diagram |-> x6[u].diagram, number |-> x6[u].number]
<1>1. [id |-> u, diagram |-> x6[u].diagram, number |-> x6[u].number] \in Docs
  BY DEF Docs, Reqs, Named
<1> QED
  BY <1>1, FS_AddElement DEF Storage!Inserted

\* What a step of an upload leaves alone.
UploadFrame(u) ==
  /\ x8' = x8 /\ x9 \subseteq x9' /\ (x8 = "none" \/ x6[u].step \notin Storage!Ended)
  /\ \A w \in Uploads \ {u} : x6'[w] = x6[w]
  /\ \A w \in Named \ {u} : x7'[w] = x7[w]
  /\ x4 \subseteq x4' /\ \A k \in x4' : k \in x4 \/ k \in Storage!KeysOf(u)
  /\ \A k \in x5' : k \in x5 \/ k \in Storage!KeysOf(u)
  /\ \A k \in x5 : k \in x5' \/ k \in Storage!KeysOf(u)
  /\ \A w : w # u => (w \in x1' <=> w \in x1)
  /\ \A w : w # u => (w \in x3' <=> w \in x3)
  /\ \A v : v.id # u => (v \in x2' <=> v \in x2)

\* A step of an upload keeps the types and touches only what is its own.
LEMMA UploadEffects ==
  ASSUME Storage!TypeOK, IsFiniteSet(x2), NEW u \in Uploads, UploadStep(u)
  PROVE  Storage!TypeOK' /\ IsFiniteSet(x2') /\ UploadFrame(u)
<1> DEFINE Types == /\ x1' \subseteq Named /\ x3' \subseteq Named /\ x2' \subseteq Docs
                    /\ x4' \subseteq Keys /\ x5' \subseteq Keys
                    /\ x6' \in [Uploads -> Reqs] /\ x7' \in [Named -> Sweeps]
                    /\ x8' \in Storage!JobSteps /\ x9' \subseteq Uploads \X Storage!Whys
                    /\ x10' \in 0..MaxFaults
<1>0. /\ x1 \subseteq Named /\ x3 \subseteq Named /\ x2 \subseteq Docs
      /\ x4 \subseteq Keys /\ x5 \subseteq Keys
      /\ x6 \in [Uploads -> Reqs] /\ x7 \in [Named -> Sweeps]
      /\ x8 \in Storage!JobSteps /\ x9 \subseteq Uploads \X Storage!Whys /\ x10 \in 0..MaxFaults
  BY StorageShape
<1> SUFFICES Types /\ IsFiniteSet(x2') /\ UploadFrame(u)
  BY DEF Storage!TypeOK, Named, Docs, Reqs, Sweeps, Keys, Storage!First, Storage!Job
<1>n. u \in Named /\ 0 \in Named /\ Uploads \subseteq Named
  BY DEF Named
<1>k. Storage!KeysOf(u) \subseteq Keys
  BY DEF Keys
<1>f. Storage!Fault => x10' \in 0..MaxFaults
  BY <1>0, Bounds DEF Storage!Fault
<1> DEFINE Still == UNCHANGED <<x1, x2, x3, x4, x5, x7, x8, x9, x10>>
<1>a. CASE Storage!Ask(u)
  <2>1. PICK d \in {u, 0} : x6' = [x6 EXCEPT ![u] = [step |-> IF d = u THEN "diagram" ELSE "check",
                                                     diagram |-> d, number |-> 1]]
    BY <1>a DEF Storage!Ask, Storage!First
  <2>2. [step |-> IF d = u THEN "diagram" ELSE "check", diagram |-> d, number |-> 1] \in Reqs
    BY <1>n, StepNames DEF Reqs
  <2>3. x6' \in [Uploads -> Reqs] /\ \A w \in Uploads \ {u} : x6'[w] = x6[w]
    BY <1>0, <2>1, <2>2
  <2>4. Still /\ x8 = "none"
    BY <1>a DEF Storage!Ask
  <2> QED
    BY <1>0, <2>3, <2>4 DEF UploadFrame
<1>b. CASE Storage!CreateDiagram(u)
  <2>1. Storage!Go(u, "image") /\ x6[u].step = "diagram"
    BY <1>b DEF Storage!CreateDiagram, Storage!At
  <2>2. x6' \in [Uploads -> Reqs] /\ \A w \in Uploads \ {u} : x6'[w] = x6[w]
    BY <1>0, <2>1, GoTypes, StepNames
  <2> QED
    BY <1>0, <1>n, <1>b, <2>1, <2>2 DEF UploadFrame, Storage!CreateDiagram, Storage!Ended
<1>c. CASE Storage!CheckDraft(u)
  <2>1. x6[u].step = "check" /\ \E step \in {"number", "failed"} : Storage!Go(u, step)
    BY <1>c DEF Storage!CheckDraft, Storage!At
  <2>2. x6' \in [Uploads -> Reqs] /\ \A w \in Uploads \ {u} : x6'[w] = x6[w]
    BY <1>0, <2>1, GoTypes, StepNames
  <2>3. Still
    BY <1>c DEF Storage!CheckDraft
  <2> QED
    BY <1>0, <2>1, <2>2, <2>3 DEF UploadFrame, Storage!Ended
<1>d. CASE Storage!ReadNumber(u)
  <2> DEFINE numbers == {v.number : v \in Storage!Of(Storage!First)} \cup {0}
             n == 1 + Storage!Max(numbers)
  <2>1. numbers \subseteq Nat /\ numbers # {}
    BY <1>0 DEF Storage!Of, Docs
  <2>2. IsFiniteSet(numbers)
    <3> DEFINE f == [v \in Storage!Of(Storage!First) |-> v.number]
               taken == {v.number : v \in Storage!Of(Storage!First)}
    <3>1. IsFiniteSet(Storage!Of(Storage!First))
      BY FS_Subset DEF Storage!Of
    <3>2. f \in Surjection(Storage!Of(Storage!First), taken)
      BY DEF Surjection
    <3> HIDE DEF f
    <3>3. IsFiniteSet(taken)
      BY <3>1, <3>2, FS_Surjection
    <3> QED
      BY <3>3, FS_AddElement
  <2>3. n \in Nat \ {0}
    <3> HIDE DEF numbers
    <3>1. numbers \subseteq Int
      BY <2>1
    <3>2. Storage!Max(numbers) \in numbers
      BY <2>1, <2>2, <3>1, LargestIsMax
    <3>3. Storage!Max(numbers) \in Nat
      BY <2>1, <3>2
    <3> QED
      BY <3>3
  <2>4. x6' = [x6 EXCEPT ![u].step = "image", ![u].number = n] /\ x6[u].step = "number" /\ Still
    BY <1>d DEF Storage!ReadNumber, Storage!At
  <2> HIDE DEF n
  <2>5. [x6[u] EXCEPT !.step = "image", !.number = n] \in Reqs
    BY <1>0, <2>3, StepNames DEF Reqs
  <2>6. x6' = [x6 EXCEPT ![u] = [x6[u] EXCEPT !.step = "image", !.number = n]]
    BY <2>4, <1>0
  <2>7. x6' \in [Uploads -> Reqs] /\ \A w \in Uploads \ {u} : x6'[w] = x6[w]
    BY <1>0, <2>5, <2>6
  <2> QED
    BY <1>0, <2>4, <2>7 DEF UploadFrame, Storage!Ended
<1>e. CASE Storage!Process(u)
  <2>1. x6[u].step = "image" /\ \E step \in {"undo", "failed", "puts"} : Storage!Go(u, step)
    BY <1>e, StepNames DEF Storage!Process, Storage!At
  <2>2. x6' \in [Uploads -> Reqs] /\ \A w \in Uploads \ {u} : x6'[w] = x6[w]
    BY <1>0, <2>1, GoTypes, StepNames
  <2>3. x5' \in {x5, x5 \cup Storage!KeysOf(u)} /\ UNCHANGED <<x1, x2, x3, x4, x7, x8, x9, x10>>
    BY <1>e DEF Storage!Process
  <2> QED
    BY <1>0, <1>k, <2>1, <2>2, <2>3 DEF UploadFrame, Storage!Ended
<1>g. CASE Storage!PutsDone(u)
  <2>1. x6[u].step = "puts" /\ Storage!Go(u, "insert") /\ Still
    BY <1>g DEF Storage!PutsDone, Storage!At
  <2>2. x6' \in [Uploads -> Reqs] /\ \A w \in Uploads \ {u} : x6'[w] = x6[w]
    BY <1>0, <2>1, GoTypes, StepNames
  <2> QED
    BY <1>0, <2>1, <2>2 DEF UploadFrame, Storage!Ended
<1>h. CASE Storage!PutFails(u)
  <2>1. x6[u].step = "puts" /\ Storage!Fault /\ Storage!Clean(u) /\ UNCHANGED <<x1, x2, x3, x8>>
    BY <1>h DEF Storage!PutFails, Storage!At
  <2>2. x6' \in [Uploads -> Reqs] /\ \A w \in Uploads \ {u} : x6'[w] = x6[w]
    BY <1>0, <2>1, GoTypes, StepNames DEF Storage!Clean
  <2>3. x7' \in [Named -> Sweeps] /\ \A w \in Named \ {u} : x7'[w] = x7[w]
    BY <1>0, <2>1, SweepTypes, NewSweeps DEF Storage!Clean
  <2>4. PICK k \in Storage!KeysOf(u) \cap x5 :
          x5' = x5 \ {k} /\ x4' \in {x4, x4 \cup {k}} /\ (Storage!Slip(u, "late") \/ x9' = x9)
    BY <1>h DEF Storage!PutFails
  <2>5. x9' \subseteq Uploads \X Storage!Whys /\ x9 \subseteq x9'
    BY <1>0, <2>4, SlipTypes, StepNames
  <2>6. x4' \subseteq Keys /\ x5' \subseteq Keys /\ x4 \subseteq x4' /\ x4' \subseteq x4 \cup {k}
    BY <1>0, <2>4
  <2> QED
    BY <1>0, <1>f, <2>1, <2>2, <2>3, <2>4, <2>5, <2>6 DEF UploadFrame, Storage!Ended
<1>i. CASE Storage!Insert(u)
  <2>1. x6[u].step = "insert" /\ UNCHANGED <<x1, x3, x4, x5, x8, x9, x10>>
    BY <1>i DEF Storage!Insert, Storage!At
  <2>2. \/ Storage!Clean(u) /\ x2' = x2
        \/ x2' = Storage!Inserted(u) /\ x7' = x7 /\ \E step \in {"touch", "copy"} : Storage!Go(u, step)
    BY <1>i DEF Storage!Insert
  <2>3. x6' \in [Uploads -> Reqs] /\ \A w \in Uploads \ {u} : x6'[w] = x6[w]
    BY <1>0, <2>2, GoTypes, StepNames DEF Storage!Clean
  <2>4. x7' \in [Named -> Sweeps] /\ \A w \in Named \ {u} : x7'[w] = x7[w]
    BY <1>0, <2>2, SweepTypes, NewSweeps DEF Storage!Clean
  <2>5. x2' \subseteq Docs /\ IsFiniteSet(x2') /\ \A v : v.id # u => (v \in x2' <=> v \in x2)
    BY <1>0, <2>2, InsertedTypes
  <2> QED
    BY <1>0, <2>1, <2>3, <2>4, <2>5 DEF UploadFrame, Storage!Ended
<1>j. CASE Storage!InsertFails(u)
  <2>1. x6[u].step = "insert" /\ Storage!Fault /\ Storage!Clean(u) /\ UNCHANGED <<x1, x3, x4, x5, x8>>
    BY <1>j DEF Storage!InsertFails, Storage!At
  <2>2. \/ x2' = x2 /\ x9' = x9
        \/ x2' = Storage!Inserted(u) /\ Storage!Slip(u, "lost")
    BY <1>j DEF Storage!InsertFails
  <2>3. x6' \in [Uploads -> Reqs] /\ \A w \in Uploads \ {u} : x6'[w] = x6[w]
    BY <1>0, <2>1, GoTypes, StepNames DEF Storage!Clean
  <2>4. x7' \in [Named -> Sweeps] /\ \A w \in Named \ {u} : x7'[w] = x7[w]
    BY <1>0, <2>1, SweepTypes, NewSweeps DEF Storage!Clean
  <2>5. x2' \subseteq Docs /\ IsFiniteSet(x2') /\ \A v : v.id # u => (v \in x2' <=> v \in x2)
    BY <1>0, <2>2, InsertedTypes
  <2>6. x9' \subseteq Uploads \X Storage!Whys /\ x9 \subseteq x9'
    BY <1>0, <2>2, SlipTypes, StepNames
  <2> QED
    BY <1>0, <1>f, <2>1, <2>3, <2>4, <2>5, <2>6 DEF UploadFrame, Storage!Ended
<1>l. CASE Storage!Copy(u)
  <2>1. /\ x6[u].step = "copy" /\ Storage!Go(u, "touch") /\ UNCHANGED <<x1, x2, x4, x5, x7, x8, x9, x10>>
        /\ x3' \in {x3, x3 \cup {u}}
    BY <1>l DEF Storage!Copy, Storage!At
  <2>2. x6' \in [Uploads -> Reqs] /\ \A w \in Uploads \ {u} : x6'[w] = x6[w]
    BY <1>0, <2>1, GoTypes, StepNames
  <2> QED
    BY <1>0, <1>n, <2>1, <2>2 DEF UploadFrame, Storage!Ended
<1>m. CASE Storage!Touch(u)
  <2>1. x6[u].step = "touch" /\ Storage!Go(u, "made") /\ Still
    BY <1>m DEF Storage!Touch, Storage!At
  <2>2. x6' \in [Uploads -> Reqs] /\ \A w \in Uploads \ {u} : x6'[w] = x6[w]
    BY <1>0, <2>1, GoTypes, StepNames
  <2> QED
    BY <1>0, <2>1, <2>2 DEF UploadFrame, Storage!Ended
<1>o. CASE Storage!LateError(u)
  <2>1. /\ x6[u].step \in {"copy", "touch"} /\ Storage!Fault /\ Storage!Slip(u, "touched")
        /\ \E step \in {"undo", "failed"} : Storage!Go(u, step)
        /\ UNCHANGED <<x1, x2, x3, x4, x5, x7, x8>>
    BY <1>o, StepNames DEF Storage!LateError, Storage!At
  <2>2. x6' \in [Uploads -> Reqs] /\ \A w \in Uploads \ {u} : x6'[w] = x6[w]
    BY <1>0, <2>1, GoTypes, StepNames
  <2>3. x9' \subseteq Uploads \X Storage!Whys /\ x9 \subseteq x9'
    BY <1>0, <2>1, SlipTypes, StepNames
  <2> QED
    BY <1>0, <1>f, <2>1, <2>2, <2>3 DEF UploadFrame, Storage!Ended
<1>p. CASE Storage!Undo(u)
  <2>1. /\ x6[u].step = "undo" /\ Storage!Go(u, "failed") /\ UNCHANGED <<x2, x3, x4, x5, x7, x8>>
        /\ \/ x1' = x1 \ {u} /\ x9' = x9 /\ x10' = x10
           \/ x1' = x1 /\ Storage!Fault /\ Storage!Slip(u, "undone")
    BY <1>p DEF Storage!Undo, Storage!At
  <2>2. x6' \in [Uploads -> Reqs] /\ \A w \in Uploads \ {u} : x6'[w] = x6[w]
    BY <1>0, <2>1, GoTypes, StepNames
  <2>3. x9' \subseteq Uploads \X Storage!Whys /\ x9 \subseteq x9' /\ x10' \in 0..MaxFaults
    BY <1>0, <1>f, <2>1, SlipTypes, StepNames
  <2> QED
    BY <1>0, <2>1, <2>2, <2>3 DEF UploadFrame, Storage!Ended
<1>q. CASE Storage!Die(u)
  <2>1. /\ x6[u].step \notin Storage!Ended /\ Storage!Fault /\ Storage!Slip(u, "dead")
        /\ Storage!Go(u, "failed") /\ x7' = [x7 EXCEPT ![u] = Storage!NoSweep]
        /\ UNCHANGED <<x1, x2, x3, x4, x5, x8>>
    BY <1>q DEF Storage!Die
  <2>2. x6' \in [Uploads -> Reqs] /\ \A w \in Uploads \ {u} : x6'[w] = x6[w]
    BY <1>0, <2>1, GoTypes, StepNames
  <2>3. x9' \subseteq Uploads \X Storage!Whys /\ x9 \subseteq x9'
    BY <1>0, <2>1, SlipTypes, StepNames
  <2>4. x7' \in [Named -> Sweeps] /\ \A w \in Named \ {u} : x7'[w] = x7[w]
    BY <1>0, <2>1, SweepTypes, NewSweeps
  <2> QED
    BY <1>0, <1>f, <2>1, <2>2, <2>3, <2>4 DEF UploadFrame
<1>r. CASE Storage!Cleaned(u)
  <2>1. /\ x6[u].step = "clean" /\ \E step \in {"undo", "failed"} : Storage!Go(u, step)
        /\ \/ x9' = x9 /\ x10' = x10
           \/ Storage!Fault /\ Storage!Slip(u, "unclean")
        /\ x7' = [x7 EXCEPT ![u] = Storage!NoSweep]
        /\ UNCHANGED <<x1, x2, x3, x4, x5, x8>>
    BY <1>r, StepNames DEF Storage!Cleaned, Storage!At
  <2>2. x6' \in [Uploads -> Reqs] /\ \A w \in Uploads \ {u} : x6'[w] = x6[w]
    BY <1>0, <2>1, GoTypes, StepNames
  <2>3. x9' \subseteq Uploads \X Storage!Whys /\ x9 \subseteq x9' /\ x10' \in 0..MaxFaults
    BY <1>0, <1>f, <2>1, SlipTypes, StepNames
  <2>4. x7' \in [Named -> Sweeps] /\ \A w \in Named \ {u} : x7'[w] = x7[w]
    BY <1>0, <2>1, SweepTypes, NewSweeps
  <2> QED
    BY <1>0, <2>1, <2>2, <2>3, <2>4 DEF UploadFrame, Storage!Ended
<1> QED
  BY <1>a, <1>b, <1>c, <1>d, <1>e, <1>g, <1>h, <1>i, <1>j, <1>l, <1>m, <1>o, <1>p, <1>q, <1>r DEF UploadStep

-----------------------------------------------------------------------------
\* What a step has to leave alone for an upload to keep what holds of it.
Kept(w) ==
  /\ x8' = "none" => x8 = "none"
  /\ x9 \subseteq x9' /\ x6'[w] = x6[w] /\ x7'[w] = x7[w]
  /\ \A k \in Storage!KeysOf(w) : (k \in x4' <=> k \in x4) /\ (k \in x5' <=> k \in x5)
  /\ w \in x1' <=> w \in x1
  /\ \A v : v.id = w => (v \in x2' <=> v \in x2)

\* An upload of which nothing changes keeps its invariant.
LEMMA KeptHolds ==
  ASSUME NEW w \in Uploads, UploadHolds(w), Kept(w)
  PROVE  UploadHolds(w)'
<1> DEFINE K == Storage!KeysOf(w)
<1>1. ASSUME NEW whys, Storage!Slipped(w, whys) PROVE Storage!Slipped(w, whys)'
  BY <1>1 DEF Storage!Slipped, Kept
<1>2. w \in Ids' <=> w \in Ids
  BY DEF Ids, Kept
<1>3. x6'[w] = x6[w] /\ x7'[w] = x7[w] /\ (w \in x1' <=> w \in x1)
  BY DEF Kept
<1>4. \A k \in K : (k \in x4' <=> k \in x4) /\ (k \in x5' <=> k \in x5)
  BY DEF Kept
<1>5. UploadSteps(w)'
  <2>1. \A v \in x2' : v.id = w => v.diagram = x6'[w].diagram
    BY <1>3 DEF UploadHolds, UploadSteps, Kept
  <2>2. x6'[w].step \in Before \cup Landed => K \cap x5' = {}
    BY <1>3, <1>4 DEF UploadHolds, UploadSteps
  <2> HIDE DEF K
  <2>3. w \in Ids' => \/ x6'[w].step \in {"copy", "touch", "made", "failed", "undo"}
                      \/ x6'[w].step = "clean" /\ Storage!Slipped(w, {"lost"})'
    BY <1>1, <1>2, <1>3 DEF UploadHolds, UploadSteps, Storage!At
  <2>4. /\ x6'[w].diagram \in {w, Storage!First}
        /\ x6'[w].step = "diagram" => x6'[w].diagram = w
        /\ x6'[w].step \in {"idle", "check", "number"} => x6'[w].diagram # w
        /\ x7'[w].on <=> x6'[w].step = "clean"
        /\ x7'[w].keys \subseteq Storage!KeysOf(w)
        /\ ~x7'[w].on => x7'[w].keys = {}
    BY <1>3 DEF UploadHolds, UploadSteps, Storage!At, Storage!IsNew
  <2> QED
    BY <2>1, <2>2, <2>3, <2>4 DEF UploadSteps, Storage!At, Storage!IsNew, K, Landed, Before,
       Storage!KeysOf, Storage!First
<1>6. ASSUME x8' = "none" PROVE UploadObjects(w)'
  <2>1. UploadObjects(w)
    BY <1>6 DEF UploadHolds, Kept
  <2>2. \A k : Pending(w, k)' <=> Pending(w, k)
    BY <1>3 DEF Pending
  <2>3. w \in Ids' /\ ~Storage!Slipped(w, {"lost"})' => K \subseteq x4'
    BY <1>1, <1>2, <1>4, <2>1 DEF UploadObjects
  <2>4. /\ x6'[w].step = "puts" => K \subseteq x4' \cup x5'
        /\ x6'[w].step = "insert" => K \subseteq x4'
        /\ x6'[w].step \in Before => K \cap x4' = {}
    BY <1>3, <1>4, <2>1 DEF UploadObjects, Storage!At
  <2>5. /\ x6'[w].step = "undo" \/ x6'[w].step = "failed"
        /\ w \notin Ids' /\ ~Storage!Slipped(w, {"late", "unclean", "dead"})'
        => K \cap (x4' \cup x5') = {}
    BY <1>1, <1>2, <1>3, <1>4, <2>1 DEF UploadObjects, Storage!At
  <2>6. x6'[w].step = "clean" /\ w \notin Ids' /\ ~Storage!Slipped(w, {"late"})' =>
           /\ K \cap x5' = {}
           /\ \A k \in K \cap x4' : Pending(w, k)'
    BY <1>1, <1>2, <1>3, <1>4, <2>1, <2>2 DEF UploadObjects, Storage!At
  <2> QED
    BY <2>3, <2>4, <2>5, <2>6 DEF UploadObjects, Storage!At, Before, Storage!KeysOf
<1>7. ASSUME x8' = "none" PROVE UploadDocuments(w)'
  <2>1. UploadDocuments(w)
    BY <1>7 DEF UploadHolds, Kept
  <2> HIDE DEF K
  <2>2. /\ x6'[w].step \in {"copy", "touch", "made"} => w \in Ids'
        /\ w \in x1' => x6'[w].diagram = w /\ x6'[w].step \notin {"idle", "diagram"}
        /\ x6'[w].diagram = w /\ x6'[w].step \notin {"idle", "diagram", "failed"} => w \in x1'
    BY <1>2, <1>3, <2>1 DEF UploadDocuments, Storage!IsNew
  <2>3. /\ x6'[w].diagram = w /\ x6'[w].step = "failed" /\ w \in x1' =>
             Storage!Slipped(w, {"dead", "undone"})'
        /\ x6'[w].step = "undo" /\ w \in Ids' => Storage!Slipped(w, {"touched", "lost"})'
        /\ x6'[w].diagram = w /\ x6'[w].step = "failed" /\ w \in Ids' =>
             w \in x1' \/ Storage!Slipped(w, {"touched", "lost", "dead"})'
    BY <1>1, <1>2, <1>3, <2>1 DEF UploadDocuments, Storage!IsNew, Storage!At
  <2> QED
    BY <2>2, <2>3 DEF UploadDocuments, Storage!IsNew, Storage!At
<1> QED
  BY <1>5, <1>6, <1>7 DEF UploadHolds

\* A step of an upload leaves what is of the others.
LEMMA OthersKept ==
  ASSUME NEW u \in Uploads, UploadFrame(u), NEW w \in Uploads, w # u
  PROVE  Kept(w)
<1>1. Storage!KeysOf(u) \cap Storage!KeysOf(w) = {}
  BY KeysDiffer, Versions
<1> QED
  BY <1>1 DEF UploadFrame, Kept, Named

\* A step of an upload does not touch the first version.
LEMMA FirstKept ==
  ASSUME NEW u \in Uploads, UploadFrame(u), FirstHolds
  PROVE  FirstHolds'
<1>1. u # 0 /\ u \in Nat
  BY Versions
<1> QED
  BY <1>1 DEF UploadFrame, FirstHolds, Storage!First, Storage!KeysOf

\* What is late stays late.
LEMMA LateStays ==
  ASSUME x9 \subseteq x9'
  PROVE  /\ \A u : Overlaps(u) => Overlaps(u)'
         /\ \A k : IsLate(k) => IsLate(k)'
<1>1. \A u : Overlaps(u) => Overlaps(u)'
  BY DEF Overlaps, Storage!Slipped
<1> QED
  BY <1>1 DEF IsLate, Storage!KeysOf

\* Of an upload that is running, what it leaves after the deletion was asked for is late.
LEMMA DeletionKept ==
  ASSUME NEW u \in Uploads, UploadFrame(u), DeletionHolds
  PROVE  DeletionHolds'
<1>1. u # 0 /\ u \in Nat /\ 0 \in Named
  BY Versions DEF Named
<1>2. x8' = x8 /\ x7'[0] = x7[0] /\ x9 \subseteq x9'
  BY <1>1 DEF UploadFrame
<1>3. x8 # "none" => Overlaps(u)
  BY DEF UploadFrame, DeletionHolds, IsOver
<1>4. x8 # "none" => Overlaps(u)'
  BY <1>2, <1>3, LateStays
<1>5. \A k : Pending(0, k)' <=> Pending(0, k)
  BY <1>2 DEF Pending
<1>6. \A k \in x4' : k \in x4 \/ k \in Storage!KeysOf(u)
  BY DEF UploadFrame
<1>7. x8 # "none" => \A k \in x4' : k \in x4 \/ IsLate(k)'
  BY <1>4, <1>6 DEF IsLate, Storage!KeysOf
<1>8. ASSUME x8 # "none", NEW w \in Uploads PROVE Overlaps(w)' \/ IsOver(w)'
  <2>1. CASE w = u
    BY <1>4, <1>8, <2>1
  <2>2. CASE w # u
    <3>1. Kept(w)
      BY <2>2, OthersKept
    <3>2. IsOver(w) => IsOver(w)'
      BY <3>1 DEF Kept, IsOver, Storage!Ended, Storage!KeysOf
    <3> QED
      BY <1>2, <1>8, <3>2, LateStays DEF DeletionHolds
  <2> QED
    BY <2>1, <2>2
<1>9. x8 = "objects" => \A k \in x4' : IsLate(k)' \/ Pending(0, k)'
  BY <1>2, <1>5, <1>7, LateStays DEF DeletionHolds, Storage!Job
<1>10. x8 \notin {"none", "objects"} => \A k \in x4' : IsLate(k)'
  BY <1>2, <1>7, LateStays DEF DeletionHolds
<1>11. x8 \in {"versions", "diagrams", "deleted"} => \A v \in x3' : Overlaps(v)'
  <2>1. \A v \in x3' : v \in x3 \/ v = u
    BY DEF UploadFrame
  <2> QED
    BY <1>2, <1>4, <2>1, LateStays DEF DeletionHolds
<1>12. x8 \in {"diagrams", "deleted"} => \A v \in Ids' : Overlaps(v)'
  <2>1. \A v \in Ids' : v \in Ids \/ v = u
    BY DEF UploadFrame, Ids
  <2> QED
    BY <1>2, <1>4, <2>1, LateStays DEF DeletionHolds
<1>13. x8 = "deleted" => \A d \in x1' : Overlaps(d)'
  <2>1. \A d \in x1' : d \in x1 \/ d = u
    BY DEF UploadFrame
  <2> QED
    BY <1>2, <1>4, <2>1, LateStays DEF DeletionHolds
<1> QED
  BY <1>2, <1>8, <1>9, <1>10, <1>11, <1>12, <1>13 DEF DeletionHolds, Storage!Job

\* A step of an upload keeps the invariant of that upload.
LEMMA UploadOwn ==
  ASSUME Storage!TypeOK, IsFiniteSet(x2), NEW u \in Uploads, UploadStep(u), UploadHolds(u)
  PROVE  UploadHolds(u)'
<1> DEFINE K == Storage!KeysOf(u)
<1>0. /\ x6 \in [Uploads -> Reqs] /\ x7 \in [Named -> Sweeps] /\ x9 \subseteq Uploads \X Storage!Whys
      /\ x2 \subseteq Docs
  BY StorageShape
<1>f. UploadFrame(u)
  BY UploadEffects
<1>w. ASSUME NEW whys, Storage!Slipped(u, whys) PROVE Storage!Slipped(u, whys)'
  BY <1>f, <1>w DEF Storage!Slipped, UploadFrame
<1>s. ASSUME NEW why, NEW whys, why \in whys, Storage!Slip(u, why) PROVE Storage!Slipped(u, whys)'
  BY <1>s DEF Storage!Slipped, Storage!Slip
<1>n. u # 0 /\ u \in Named
  BY Versions DEF Named
<1>g. ASSUME NEW step \in Storage!Steps, Storage!Go(u, step)
      PROVE  x6'[u].step = step /\ x6'[u].diagram = x6[u].diagram
  BY <1>0, <1>g, GoTypes
<1>c. ASSUME Storage!Clean(u)
      PROVE  /\ x6'[u].step = "clean" /\ x6'[u].diagram = x6[u].diagram
             /\ x7'[u].on /\ x7'[u].keys = {} /\ x7'[u].more /\ x7'[u].token = -1
  BY <1>0, <1>c, <1>g, <1>n, NewSweeps, SweepTypes, StepNames DEF Storage!Clean
<1>i. ASSUME x2' = Storage!Inserted(u)
      PROVE  /\ u \in Ids' /\ \A v \in x2' : v.id = u => v \in x2 \/ v.diagram = x6[u].diagram
  <2> DEFINE doc == [id |-> u, diagram |-> x6[u].diagram, number |-> x6[u].number]
  <2>1. \A v : v \in x2' <=> v \in x2 \/ v = doc
    BY <1>0, <1>i, InsertedTypes
  <2>2. doc.id = u /\ doc.diagram = x6[u].diagram
    OBVIOUS
  <2> HIDE DEF doc
  <2> QED
    BY <2>1, <2>2 DEF Ids
<1>x. x2' = x2 => Ids' = Ids
  BY DEF Ids
<1> USE DEF UploadHolds, UploadSteps, UploadObjects, UploadDocuments, Storage!At, Storage!IsNew,
        Before, Landed, Storage!First
<1>A. CASE Storage!Ask(u)
  <2>1. PICK d \in {u, 0} : x6' = [x6 EXCEPT ![u] = [step |-> IF d = u THEN "diagram" ELSE "check",
                                                     diagram |-> d, number |-> 1]]
    BY <1>A DEF Storage!Ask
  <2>2. x6'[u].step = (IF d = u THEN "diagram" ELSE "check") /\ x6'[u].diagram = d
    BY <1>0, <2>1
  <2>3. UNCHANGED <<x1, x2, x3, x4, x5, x7, x8, x9, x10>> /\ x8 = "none" /\ x6[u].step = "idle"
    BY <1>A DEF Storage!Ask
  <2>4. Ids' = Ids /\ u \notin Ids /\ u \notin x1
    BY <2>3, <1>x, <1>n
  <2>5. UploadSteps(u)'
    BY <1>n, <2>2, <2>3, <2>4 DEF Ids
  <2>6. UploadObjects(u)'
    BY <1>n, <2>2, <2>3, <2>4
  <2>7. UploadDocuments(u)'
    BY <1>n, <2>2, <2>3, <2>4
  <2> QED
    BY <2>5, <2>6, <2>7
<1>B. CASE Storage!CreateDiagram(u)
  <2>1. /\ x6[u].step = "diagram" /\ Storage!Go(u, "image") /\ x1' = x1 \cup {u}
        /\ UNCHANGED <<x2, x3, x4, x5, x7, x8, x9, x10>>
    BY <1>B DEF Storage!CreateDiagram
  <2>2. x6'[u].step = "image" /\ x6'[u].diagram = x6[u].diagram
    BY <1>g, <2>1, StepNames
  <2>4. Ids' = Ids
    BY <2>1, <1>x
  <2>5. UploadSteps(u)'
    BY <1>n, <1>w, <2>1, <2>2, <2>4
  <2>6. x8' = "none" => UploadObjects(u)'
    BY <1>n, <1>w, <2>1, <2>2, <2>4
  <2>7. x8' = "none" => UploadDocuments(u)'
    BY <1>n, <1>w, <2>1, <2>2, <2>4
  <2> QED
    BY <2>5, <2>6, <2>7
<1>C. CASE Storage!CheckDraft(u)
  <2>1. /\ x6[u].step = "check" /\ UNCHANGED <<x1, x2, x3, x4, x5, x7, x8, x9, x10>>
        /\ \E step \in {"number", "failed"} : Storage!Go(u, step)
    BY <1>C DEF Storage!CheckDraft
  <2>2. x6'[u].step \in {"number", "failed"} /\ x6'[u].diagram = x6[u].diagram
    BY <1>g, <2>1, StepNames
  <2>4. Ids' = Ids
    BY <2>1, <1>x
  <2>5. UploadSteps(u)'
    BY <1>n, <1>w, <2>1, <2>2, <2>4
  <2>6. x8' = "none" => UploadObjects(u)'
    BY <1>n, <1>w, <2>1, <2>2, <2>4
  <2>7. x8' = "none" => UploadDocuments(u)'
    BY <1>n, <1>w, <2>1, <2>2, <2>4
  <2> QED
    BY <2>5, <2>6, <2>7
<1>D. CASE Storage!ReadNumber(u)
  <2>1. /\ x6[u].step = "number" /\ UNCHANGED <<x1, x2, x3, x4, x5, x7, x8, x9, x10>>
        /\ \E n : x6' = [x6 EXCEPT ![u].step = "image", ![u].number = n]
    BY <1>D DEF Storage!ReadNumber
  <2>2. x6'[u].step = "image" /\ x6'[u].diagram = x6[u].diagram
    <3>1. PICK n : x6' = [x6 EXCEPT ![u].step = "image", ![u].number = n]
      BY <2>1
    <3>2. x6'[u] = [x6[u] EXCEPT !.step = "image", !.number = n]
      BY <1>0, <3>1
    <3> QED
      BY <1>0, <3>2 DEF Reqs
  <2>4. Ids' = Ids
    BY <2>1, <1>x
  <2>5. UploadSteps(u)'
    BY <1>n, <1>w, <2>1, <2>2, <2>4
  <2>6. x8' = "none" => UploadObjects(u)'
    BY <1>n, <1>w, <2>1, <2>2, <2>4
  <2>7. x8' = "none" => UploadDocuments(u)'
    BY <1>n, <1>w, <2>1, <2>2, <2>4
  <2> QED
    BY <2>5, <2>6, <2>7
<1>E. CASE Storage!Process(u)
  <2>1. x6[u].step = "image" /\ UNCHANGED <<x1, x2, x3, x4, x7, x8, x9, x10>>
    BY <1>E DEF Storage!Process
  <2>2. /\ x6'[u].diagram = x6[u].diagram
        /\ \/ x6'[u].step = "puts" /\ x5' = x5 \cup K
           \/ x5' = x5 /\ x6'[u].step = (IF x6[u].diagram = u THEN "undo" ELSE "failed")
    BY <1>E, <1>g, StepNames DEF Storage!Process, Storage!AfterError
  <2>4. Ids' = Ids
    BY <2>1, <1>x
  <2>5. UploadSteps(u)'
    BY <1>n, <1>w, <2>1, <2>2, <2>4
  <2>6. x8' = "none" => UploadObjects(u)'
    BY <1>n, <1>w, <2>1, <2>2, <2>4
  <2>7. x8' = "none" => UploadDocuments(u)'
    BY <1>n, <1>w, <2>1, <2>2, <2>4
  <2> QED
    BY <2>5, <2>6, <2>7
<1>G. CASE Storage!PutsDone(u)
  <2>1. /\ x6[u].step = "puts" /\ Storage!Go(u, "insert") /\ K \cap x5 = {}
        /\ UNCHANGED <<x1, x2, x3, x4, x5, x7, x8, x9, x10>>
    BY <1>G DEF Storage!PutsDone, Storage!Uploaded
  <2>2. x6'[u].step = "insert" /\ x6'[u].diagram = x6[u].diagram
    BY <1>g, <2>1, StepNames
  <2>4. Ids' = Ids
    BY <2>1, <1>x
  <2>5. UploadSteps(u)'
    BY <1>n, <1>w, <2>1, <2>2, <2>4
  <2>6. x8' = "none" => UploadObjects(u)'
    BY <1>n, <1>w, <2>1, <2>2, <2>4
  <2>7. x8' = "none" => UploadDocuments(u)'
    BY <1>n, <1>w, <2>1, <2>2, <2>4
  <2> QED
    BY <2>5, <2>6, <2>7
<1>H. CASE Storage!PutFails(u)
  <2>1. x6[u].step = "puts" /\ Storage!Clean(u) /\ UNCHANGED <<x1, x2, x3, x8>>
    BY <1>H DEF Storage!PutFails
  <2>2. /\ x6'[u].step = "clean" /\ x6'[u].diagram = x6[u].diagram
        /\ x7'[u].on /\ x7'[u].keys = {} /\ x7'[u].more /\ x7'[u].token = -1
    BY <1>c, <2>1
  <2>4. Ids' = Ids
    BY <2>1, <1>x
  <2>3. u \notin Ids
    BY <2>1
  <2>8. K \cap x5' # {} => Storage!Slipped(u, {"late"})'
    BY <1>H, <1>s DEF Storage!PutFails
  <2>9. \A k \in K : Pending(u, k)'
    <3>1. \A k \in K : k \in Nat
      BY KeyNames, Versions
    <3> QED
      BY <2>2, <3>1 DEF Pending
  <2>5. UploadSteps(u)'
    BY <1>n, <1>w, <2>1, <2>2, <2>4, <2>3
  <2>6. x8' = "none" => UploadObjects(u)'
    BY <1>n, <1>w, <2>1, <2>2, <2>4, <2>3, <2>8, <2>9
  <2>7. x8' = "none" => UploadDocuments(u)'
    BY <1>n, <1>w, <2>1, <2>2, <2>4, <2>3
  <2> QED
    BY <2>5, <2>6, <2>7
<1>I. CASE Storage!Insert(u)
  <2>1. x6[u].step = "insert" /\ UNCHANGED <<x1, x3, x4, x5, x8, x9, x10>>
    BY <1>I DEF Storage!Insert
  <2>2. \/ /\ x2' = x2 /\ x6'[u].step = "clean" /\ x6'[u].diagram = x6[u].diagram
           /\ x7'[u].on /\ x7'[u].keys = {} /\ x7'[u].more /\ x7'[u].token = -1
        \/ /\ x2' = Storage!Inserted(u) /\ x7' = x7
           /\ x6'[u].step \in {"touch", "copy"} /\ x6'[u].diagram = x6[u].diagram
    <3>1. CASE Storage!Clean(u) /\ x2' = x2
      BY <1>c, <3>1
    <3>2. CASE /\ x2' = Storage!Inserted(u) /\ x7' = x7
               /\ \E step \in {"touch", "copy"} : Storage!Go(u, step)
      BY <1>g, <3>2, StepNames
    <3> QED
      BY <1>I, <3>1, <3>2 DEF Storage!Insert
  <2>3. u \notin Ids
    BY <2>1
  <2>9. x7'[u].more /\ x7'[u].token = -1 => \A k \in K : Pending(u, k)'
    <3>1. \A k \in K : k \in Nat
      BY KeyNames, Versions
    <3> QED
      BY <3>1 DEF Pending
  <2>a. CASE x2' = x2
    <3>4. Ids' = Ids
      BY <2>a, <1>x
    <3>1. /\ x6'[u].step = "clean" /\ x6'[u].diagram = x6[u].diagram
          /\ x7'[u].on /\ x7'[u].keys = {} /\ x7'[u].more /\ x7'[u].token = -1
      BY <2>2, <2>3, <2>a, <1>i, <3>4
    <3>5. UploadSteps(u)'
      BY <1>n, <2>1, <2>a, <2>3, <3>1, <3>4
    <3>6. x8' = "none" => UploadObjects(u)'
      BY <1>n, <2>1, <2>a, <2>3, <2>9, <3>1, <3>4
    <3>7. x8' = "none" => UploadDocuments(u)'
      BY <1>n, <2>1, <2>a, <2>3, <3>1, <3>4
    <3> QED
      BY <3>5, <3>6, <3>7
  <2>b. CASE x2' # x2
    <3>1. /\ x2' = Storage!Inserted(u) /\ x7' = x7
          /\ x6'[u].step \in {"touch", "copy"} /\ x6'[u].diagram = x6[u].diagram
      BY <2>2, <2>b
    <3>4. u \in Ids' /\ \A v \in x2' : v.id = u => v.diagram = x6[u].diagram
      BY <1>i, <3>1
    <3>5. UploadSteps(u)'
      BY <1>n, <2>1, <3>1, <3>4
    <3>6. x8' = "none" => UploadObjects(u)'
      BY <1>n, <2>1, <3>1, <3>4
    <3>7. x8' = "none" => UploadDocuments(u)'
      BY <1>n, <2>1, <3>1, <3>4
    <3> QED
      BY <3>5, <3>6, <3>7
  <2> QED
    BY <2>a, <2>b
<1>J. CASE Storage!InsertFails(u)
  <2>1. x6[u].step = "insert" /\ UNCHANGED <<x1, x3, x4, x5, x8>>
    BY <1>J DEF Storage!InsertFails
  <2>2. /\ x6'[u].step = "clean" /\ x6'[u].diagram = x6[u].diagram
        /\ x7'[u].on /\ x7'[u].keys = {} /\ x7'[u].more /\ x7'[u].token = -1
    BY <1>J, <1>c DEF Storage!InsertFails
  <2>3. u \notin Ids
    BY <2>1
  <2>4. \/ Ids' = Ids /\ x2' = x2
        \/ Storage!Slipped(u, {"lost"})' /\ u \in Ids'
    BY <1>J, <1>i, <1>x, <1>s DEF Storage!InsertFails
  <2>8. \A v \in x2' : v.id = u => v.diagram = x6[u].diagram
    BY <1>J, <1>i DEF Storage!InsertFails
  <2>9. \A k \in K : Pending(u, k)'
    <3>1. \A k \in K : k \in Nat
      BY KeyNames, Versions
    <3> QED
      BY <2>2, <3>1 DEF Pending
  <2>5. UploadSteps(u)'
    BY <1>n, <2>1, <2>2, <2>3, <2>4, <2>8
  <2>6. x8' = "none" => UploadObjects(u)'
    BY <1>n, <1>w, <2>1, <2>2, <2>3, <2>4, <2>9
  <2>7. x8' = "none" => UploadDocuments(u)'
    BY <1>n, <1>w, <2>1, <2>2, <2>3, <2>4
  <2> QED
    BY <2>5, <2>6, <2>7
<1>L. CASE Storage!Copy(u)
  <2>1. x6[u].step = "copy" /\ Storage!Go(u, "touch") /\ UNCHANGED <<x1, x2, x4, x5, x7, x8, x9, x10>>
    BY <1>L DEF Storage!Copy
  <2>2. x6'[u].step = "touch" /\ x6'[u].diagram = x6[u].diagram
    BY <1>g, <2>1, StepNames
  <2>4. Ids' = Ids
    BY <2>1, <1>x
  <2>5. UploadSteps(u)'
    BY <1>n, <1>w, <2>1, <2>2, <2>4
  <2>6. x8' = "none" => UploadObjects(u)'
    BY <1>n, <1>w, <2>1, <2>2, <2>4
  <2>7. x8' = "none" => UploadDocuments(u)'
    BY <1>n, <1>w, <2>1, <2>2, <2>4
  <2> QED
    BY <2>5, <2>6, <2>7
<1>M. CASE Storage!Touch(u)
  <2>1. x6[u].step = "touch" /\ Storage!Go(u, "made") /\ UNCHANGED <<x1, x2, x4, x5, x7, x8, x9, x10>>
    BY <1>M DEF Storage!Touch
  <2>2. x6'[u].step = "made" /\ x6'[u].diagram = x6[u].diagram
    BY <1>g, <2>1, StepNames
  <2>4. Ids' = Ids
    BY <2>1, <1>x
  <2>5. UploadSteps(u)'
    BY <1>n, <1>w, <2>1, <2>2, <2>4
  <2>6. x8' = "none" => UploadObjects(u)'
    BY <1>n, <1>w, <2>1, <2>2, <2>4
  <2>7. x8' = "none" => UploadDocuments(u)'
    BY <1>n, <1>w, <2>1, <2>2, <2>4
  <2> QED
    BY <2>5, <2>6, <2>7
<1>O. CASE Storage!LateError(u)
  <2>1. x6[u].step \in {"copy", "touch"} /\ UNCHANGED <<x1, x2, x3, x4, x5, x7, x8>>
    BY <1>O DEF Storage!LateError
  <2>2. /\ x6'[u].diagram = x6[u].diagram
        /\ x6'[u].step = (IF x6[u].diagram = u THEN "undo" ELSE "failed")
    BY <1>O, <1>g, StepNames DEF Storage!LateError, Storage!AfterError
  <2>4. Ids' = Ids
    BY <2>1, <1>x
  <2>8. \A whys : "touched" \in whys => Storage!Slipped(u, whys)'
    BY <1>O, <1>s DEF Storage!LateError
  <2>5. UploadSteps(u)'
    BY <1>n, <1>w, <2>1, <2>2, <2>4
  <2>6. x8' = "none" => UploadObjects(u)'
    BY <1>n, <1>w, <2>1, <2>2, <2>4
  <2>7. x8' = "none" => UploadDocuments(u)'
    BY <1>n, <1>w, <2>1, <2>2, <2>4, <2>8
  <2> QED
    BY <2>5, <2>6, <2>7
<1>P. CASE Storage!Undo(u)
  <2>1. /\ x6[u].step = "undo" /\ Storage!Go(u, "failed") /\ UNCHANGED <<x2, x3, x4, x5, x7, x8>>
        /\ x1' = x1 \ {u} \/ (x1' = x1 /\ Storage!Slipped(u, {"dead", "undone"})')
    BY <1>P, <1>s DEF Storage!Undo
  <2>2. x6'[u].step = "failed" /\ x6'[u].diagram = x6[u].diagram
    BY <1>g, <2>1, StepNames
  <2>4. Ids' = Ids
    BY <2>1, <1>x
  <2>8. Storage!Slipped(u, {"touched", "lost"}) => Storage!Slipped(u, {"touched", "lost", "dead"})'
    <3>1. Storage!Slipped(u, {"touched", "lost"}) => Storage!Slipped(u, {"touched", "lost", "dead"})
      BY DEF Storage!Slipped
    <3> QED
      BY <1>w, <3>1
  <2>5. UploadSteps(u)'
    BY <1>n, <1>w, <2>1, <2>2, <2>4
  <2>6. x8' = "none" => UploadObjects(u)'
    BY <1>n, <1>w, <2>1, <2>2, <2>4
  <2>7. x8' = "none" => UploadDocuments(u)'
    BY <1>n, <1>w, <2>1, <2>2, <2>4, <2>8
  <2> QED
    BY <2>5, <2>6, <2>7
<1>Q. CASE Storage!Die(u)
  <2>1. /\ x6[u].step \notin Storage!Ended /\ Storage!Go(u, "failed") /\ UNCHANGED <<x1, x2, x3, x4, x5, x8>>
        /\ x7' = [x7 EXCEPT ![u] = Storage!NoSweep]
    BY <1>Q DEF Storage!Die
  <2>2. x6'[u].step = "failed" /\ x6'[u].diagram = x6[u].diagram
    BY <1>g, <2>1, StepNames
  <2>3. ~x7'[u].on /\ x7'[u].keys = {}
    BY <1>0, <1>n, <2>1, NewSweeps, SweepTypes
  <2>4. Ids' = Ids
    BY <2>1, <1>x
  <2>8. \A whys : "dead" \in whys => Storage!Slipped(u, whys)'
    BY <1>Q, <1>s DEF Storage!Die
  <2>5. UploadSteps(u)'
    BY <1>n, <1>w, <2>1, <2>2, <2>4, <2>3, <2>8
  <2>6. x8' = "none" => UploadObjects(u)'
    BY <1>n, <1>w, <2>1, <2>2, <2>4, <2>3, <2>8
  <2>7. x8' = "none" => UploadDocuments(u)'
    BY <1>n, <1>w, <2>1, <2>2, <2>4, <2>3, <2>8
  <2> QED
    BY <2>5, <2>6, <2>7
<1>R. CASE Storage!Cleaned(u)
  <2>1. /\ x6[u].step = "clean" /\ UNCHANGED <<x1, x2, x3, x4, x5, x8>>
        /\ x7' = [x7 EXCEPT ![u] = Storage!NoSweep]
    BY <1>R DEF Storage!Cleaned
  <2>2. /\ x6'[u].diagram = x6[u].diagram
        /\ x6'[u].step = (IF x6[u].diagram = u THEN "undo" ELSE "failed")
    BY <1>R, <1>g, StepNames DEF Storage!Cleaned, Storage!AfterError
  <2>3. ~x7'[u].on /\ x7'[u].keys = {}
    BY <1>0, <1>n, <2>1, NewSweeps, SweepTypes
  <2>4. Ids' = Ids
    BY <2>1, <1>x
  <2>8. \/ x7[u].keys = {} /\ ~x7[u].more
        \/ Storage!Slipped(u, {"late", "unclean", "dead"})'
    BY <1>R, <1>s DEF Storage!Cleaned, Storage!Swept
  <2>9. /\ Storage!Slipped(u, {"late"}) => Storage!Slipped(u, {"late", "unclean", "dead"})'
        /\ Storage!Slipped(u, {"lost"}) => /\ Storage!Slipped(u, {"touched", "lost"})'
                                          /\ Storage!Slipped(u, {"touched", "lost", "dead"})'
    <3>1. /\ Storage!Slipped(u, {"late"}) => Storage!Slipped(u, {"late", "unclean", "dead"})
          /\ Storage!Slipped(u, {"lost"}) => /\ Storage!Slipped(u, {"touched", "lost"})
                                            /\ Storage!Slipped(u, {"touched", "lost", "dead"})
      BY DEF Storage!Slipped
    <3> QED
      BY <1>w, <3>1
  <2>5. UploadSteps(u)'
    BY <1>n, <1>w, <2>1, <2>2, <2>4, <2>3
  <2>6. x8' = "none" => UploadObjects(u)'
    BY <1>n, <1>w, <2>1, <2>2, <2>4, <2>3, <2>8, <2>9 DEF Pending
  <2>7. x8' = "none" => UploadDocuments(u)'
    BY <1>n, <1>w, <2>1, <2>2, <2>4, <2>3, <2>9
  <2> QED
    BY <2>5, <2>6, <2>7
<1> QED
  BY <1>A, <1>B, <1>C, <1>D, <1>E, <1>G, <1>H, <1>I, <1>J, <1>L, <1>M, <1>O, <1>P, <1>Q, <1>R DEF UploadStep

\* What a listing has not passed yet is on the page, or after it and still to be asked.
LEMMA Listing ==
  ASSUME Storage!TypeOK, NEW w \in Named, Storage!List(w)
  PROVE  /\ x7' \in [Named -> Sweeps] /\ \A v \in Named \ {w} : x7'[v] = x7[v]
         /\ x7[w].on /\ x7'[w].on
         /\ x7'[w].keys \subseteq Storage!Prefix(w)
         /\ \A k \in Storage!Prefix(w) : Pending(w, k) => Pending(w, k)'
<1> DEFINE token == x7[w].token
           rest == {k \in Storage!Prefix(w) : k > token}
           page == {k \in rest : Storage!Cardinality({j \in rest : j < k}) < Page}
           next == Storage!Max(page \cup {token})
           more == Storage!IsTruncated(rest, page)
<1>0. x4 \subseteq Keys /\ x7 \in [Named -> Sweeps]
  BY StorageShape
<1>1. token \in Int
  BY <1>0 DEF Sweeps
<1>2. rest \subseteq Keys /\ page \subseteq rest /\ rest \subseteq Storage!Prefix(w)
  BY <1>0 DEF Storage!Prefix
<1>3. IsFiniteSet(rest) /\ IsFiniteSet(page) /\ rest \subseteq Nat /\ page \subseteq Nat
  <2>1. IsFiniteSet(rest)
    BY <1>2, KeysAreFew, FS_Subset
  <2> QED
    BY <1>2, <2>1, KeysAreFew, FS_Subset
<1>4. /\ x7[w].on /\ x7[w].keys = {} /\ x7[w].more
      /\ x7' = [x7 EXCEPT ![w] = [on |-> TRUE, token |-> next, keys |-> page, more |-> more]]
  BY DEF Storage!List
<1>5. more \in BOOLEAN /\ (more <=> rest # page)
  BY DEF Storage!IsTruncated
<1>6. \A S : Storage!Cardinality(S) = Cardinality(S)
  BY DEF Storage!Cardinality, Cardinality
<1>7. ASSUME NEW k \in rest, k \notin page, NEW p \in page PROVE p < k
  <2> DEFINE below(x) == {j \in rest : j < x}
  <2>1. k \in Nat /\ p \in Nat /\ p # k
    BY <1>2, <1>3, <1>7
  <2>2. SUFFICES ASSUME k < p PROVE FALSE
    BY <2>1
  <2>3. \A j \in rest : j < k => j < p
    <3> SUFFICES ASSUME NEW j \in rest, j < k PROVE j < p
      OBVIOUS
    <3>1. j \in Nat
      BY <1>3
    <3> QED
      BY <2>1, <2>2, <3>1
  <2>4. below(k) \subseteq below(p) /\ below(p) \subseteq rest /\ below(k) \subseteq rest
    BY <2>3
  <2>5. IsFiniteSet(below(p)) /\ IsFiniteSet(below(k))
    <3> HIDE DEF below, rest
    <3> QED
      BY <1>3, <2>4, FS_Subset
  <2>6. Cardinality(below(p)) < Page
    BY <1>6
  <2>7. /\ Cardinality(below(k)) <= Cardinality(below(p))
        /\ Cardinality(below(k)) \in Nat /\ Cardinality(below(p)) \in Nat
    <3> HIDE DEF below
    <3> QED
      BY <2>4, <2>5, FS_Subset, FS_CardinalityType
  <2>8. Cardinality(below(k)) < Page
    <3> HIDE DEF below
    <3> QED
      BY <2>6, <2>7, Bounds
  <2> QED
    BY <1>6, <1>7, <2>8
<1>8. next \in page \cup {token} /\ next \in Int
  <2> DEFINE seen == page \cup {token}
  <2>1. seen \subseteq Int /\ seen # {}
    BY <1>1, <1>3
  <2>2. IsFiniteSet(seen)
    <3> HIDE DEF page
    <3> QED
      BY <1>3, FS_AddElement
  <2> HIDE DEF seen
  <2>3. Storage!Max(seen) \in seen
    BY <2>1, <2>2, LargestIsMax
  <2> QED
    BY <2>1, <2>3 DEF seen
<1>9. \A k \in rest : k \in page \/ (more /\ k > next)
  <2> SUFFICES ASSUME NEW k \in rest, k \notin page PROVE more /\ k > next
    OBVIOUS
  <2>1. k > token /\ k \in Nat
    BY <1>3
  <2>2. CASE next = token
    BY <2>1, <2>2, <1>5
  <2>3. CASE next \in page
    <3>1. next < k
      BY <1>7, <2>3
    <3> HIDE DEF next
    <3> QED
      BY <1>5, <1>8, <2>1, <3>1
  <2> QED
    BY <2>2, <2>3, <1>8
<1>r. \A k \in Storage!Prefix(w) : k > token => k \in rest
  OBVIOUS
<1> HIDE DEF rest, page, next, more
<1>10. [on |-> TRUE, token |-> next, keys |-> page, more |-> more] \in Sweeps
  BY <1>2, <1>5, <1>8 DEF Sweeps
<1>11. x7' \in [Named -> Sweeps] /\ \A v \in Named \ {w} : x7'[v] = x7[v]
  BY <1>0, <1>4, <1>10
<1>12. x7'[w].on /\ x7'[w].keys = page /\ x7'[w].more = more /\ x7'[w].token = next
  BY <1>0, <1>4
<1>13. ASSUME NEW k \in Storage!Prefix(w), Pending(w, k) PROVE Pending(w, k)'
  <2>1. k \in rest
    BY <1>4, <1>13, <1>r DEF Pending
  <2> QED
    BY <1>9, <1>12, <2>1 DEF Pending
<1> QED
  BY <1>2, <1>4, <1>11, <1>12, <1>13

\* The keys a removal holds are those of its upload.
LEMMA SweepSteps ==
  ASSUME StorageInv, NEW w \in Named, Storage!List(w) \/ Storage!DeletePage(w)
  PROVE  StorageInv'
<1>0. /\ x1 \subseteq Named /\ x3 \subseteq Named /\ x2 \subseteq Docs
      /\ x4 \subseteq Keys /\ x5 \subseteq Keys
      /\ x6 \in [Uploads -> Reqs] /\ x7 \in [Named -> Sweeps]
      /\ x8 \in Storage!JobSteps /\ x9 \subseteq Uploads \X Storage!Whys /\ x10 \in 0..MaxFaults
  BY StorageShape DEF StorageInv
<1>1. UNCHANGED <<x1, x2, x3, x5, x6, x8, x9, x10>>
  BY DEF Storage!List, Storage!DeletePage
<1>2. /\ x7' \in [Named -> Sweeps] /\ \A v \in Named \ {w} : x7'[v] = x7[v]
      /\ x7[w].on /\ x7'[w].on
      /\ x7'[w].keys \subseteq Storage!Prefix(w)
      /\ \A k \in Storage!Prefix(w) : k \in x4' /\ Pending(w, k) => Pending(w, k)'
      /\ x4' = x4 \/ x4' = x4 \ x7[w].keys
  <2>1. CASE Storage!List(w)
    <3>1. x4' = x4
      BY <2>1 DEF Storage!List
    <3> QED
      BY <2>1, <3>1, Listing DEF StorageInv
  <2>2. CASE Storage!DeletePage(w)
    <3>1. x7[w].on /\ x4' = x4 \ x7[w].keys /\ x7' = [x7 EXCEPT ![w].keys = {}]
      BY <2>2 DEF Storage!DeletePage
    <3>2. [x7[w] EXCEPT !.keys = {}] \in Sweeps
      BY <1>0 DEF Sweeps
    <3>3. x7'[w] = [x7[w] EXCEPT !.keys = {}] /\ x7' \in [Named -> Sweeps]
          /\ \A v \in Named \ {w} : x7'[v] = x7[v]
      BY <1>0, <3>1, <3>2
    <3>4. x7'[w].on /\ x7'[w].keys = {} /\ x7'[w].more = x7[w].more /\ x7'[w].token = x7[w].token
      BY <1>0, <3>1, <3>3 DEF Sweeps
    <3>5. ASSUME NEW k, k \in x4', Pending(w, k) PROVE Pending(w, k)'
      BY <3>1, <3>4, <3>5 DEF Pending
    <3> QED
      BY <3>1, <3>3, <3>4, <3>5
  <2> QED
    BY <2>1, <2>2
<1>3. Storage!TypeOK'
  <2>1. x4' \subseteq Keys
    BY <1>0, <1>2
  <2> QED
    BY <1>0, <1>1, <1>2, <2>1 DEF Storage!TypeOK, Named, Docs, Reqs, Sweeps, Keys, Storage!First,
       Storage!Job
<1>4. w = 0 => x8 = "objects"
  BY <1>2 DEF StorageInv, DeletionHolds, Storage!Job
<1>5. ASSUME NEW u \in Uploads, u # w, w # 0 PROVE Kept(u)
  <2>1. w \in Uploads
    BY <1>5 DEF Named
  <2>2. x7[w].keys \subseteq Storage!KeysOf(w)
    BY <2>1 DEF StorageInv, UploadHolds, UploadSteps
  <2>3. Storage!KeysOf(u) \cap Storage!KeysOf(w) = {}
    BY <1>5, <2>1, KeysDiffer, Versions
  <2>4. u \in Named
    BY DEF Named
  <2> QED
    BY <1>1, <1>2, <1>5, <2>2, <2>3, <2>4 DEF Kept
<1>6. ASSUME NEW u \in Uploads PROVE UploadHolds(u)'
  <2>0. UploadHolds(u) /\ u # 0 /\ u \in Named
    BY Versions DEF StorageInv, Named
  <2>1. CASE u # w /\ w # 0
    BY <1>5, <2>0, <2>1, KeptHolds
  <2>2. CASE w = 0
    <3>1. x7'[u] = x7[u]
      BY <1>2, <2>0, <2>2
    <3> QED
      BY <1>1, <1>4, <2>0, <2>2, <3>1 DEF UploadHolds, UploadSteps, Ids, Storage!At, Storage!IsNew,
         Storage!Slipped, Before, Landed, Storage!First, Storage!KeysOf
  <2>3. CASE u = w
    <3>0. Storage!Prefix(u) = x4 \cap Storage!KeysOf(u)
      BY <2>0 DEF Storage!Prefix, Storage!Job
    <3>1. Storage!At(u, "clean") /\ x7'[u].on /\ x7'[u].keys \subseteq Storage!KeysOf(u)
      BY <1>2, <2>0, <2>3, <3>0 DEF UploadHolds, UploadSteps
    <3>2. \A k \in Storage!KeysOf(u) : k \in x4' /\ Pending(u, k) => Pending(u, k)'
      BY <1>2, <2>3, <3>0
    <3>3. Ids' = Ids /\ x4' \subseteq x4 /\ x6' = x6 /\ x5' = x5 /\ x2' = x2 /\ x8' = x8 /\ x1' = x1 /\ x9' = x9
      BY <1>1, <1>2 DEF Ids
    <3>4. \A whys : Storage!Slipped(u, whys)' <=> Storage!Slipped(u, whys)
      BY <3>3 DEF Storage!Slipped
    <3>5. UploadSteps(u)'
      BY <2>0, <3>1, <3>3, <3>4 DEF UploadHolds, UploadSteps, Storage!At, Storage!IsNew,
         Before, Landed, Storage!First
    <3>6. x8' = "none" => UploadObjects(u)'
      BY <2>0, <3>1, <3>2, <3>3, <3>4 DEF UploadHolds, UploadSteps, UploadObjects, Storage!At, Before
    <3>7. x8' = "none" => UploadDocuments(u)'
      BY <2>0, <3>1, <3>3, <3>4 DEF UploadHolds, UploadDocuments, Storage!At, Storage!IsNew
    <3> QED
      BY <3>5, <3>6, <3>7 DEF UploadHolds
  <2> QED
    BY <2>1, <2>2, <2>3
<1>7. FirstHolds'
  <2>1. CASE w = 0
    BY <1>1, <1>4, <2>1 DEF FirstHolds
  <2>2. CASE w # 0
    <3>1. w \in Uploads
      BY <2>2 DEF Named
    <3>2. x7[w].keys \subseteq Storage!KeysOf(w)
      BY <3>1 DEF StorageInv, UploadHolds, UploadSteps
    <3>3. Storage!KeysOf(0) \cap Storage!KeysOf(w) = {}
      BY <2>2, <3>1, KeysDiffer, Versions
    <3> QED
      BY <1>1, <1>2, <3>2, <3>3 DEF StorageInv, FirstHolds, Storage!First, Storage!KeysOf
  <2> QED
    BY <2>1, <2>2
<1>8. DeletionHolds'
  <2>0. DeletionHolds /\ 0 \in Named /\ x4' \subseteq x4
    BY <1>2 DEF StorageInv, Named
  <2>1. x7'[0].on <=> x8' = "objects"
    BY <1>1, <1>2, <2>0 DEF DeletionHolds, Storage!Job
  <2>2. \A k : IsLate(k)' <=> IsLate(k)
    BY <1>1 DEF IsLate, Overlaps, Storage!Slipped, Storage!KeysOf
  <2>3. \A k \in x4' : Pending(0, k) => Pending(0, k)'
    <3>1. CASE w = 0
      <4>1. Storage!Prefix(w) = x4
        BY <3>1 DEF Storage!Prefix, Storage!Job
      <4> QED
        BY <1>2, <2>0, <3>1, <4>1
    <3>2. CASE w # 0
      BY <1>2, <2>0, <3>2 DEF Pending
    <3> QED
      BY <3>1, <3>2
  <2>4. \A u : (Overlaps(u)' <=> Overlaps(u)) /\ (IsOver(u)' <=> IsOver(u))
    BY <1>1 DEF Overlaps, IsOver, Storage!Slipped, Storage!KeysOf, Storage!Ended
  <2>5. Ids' = Ids
    BY <1>1 DEF Ids
  <2> QED
    BY <1>1, <2>0, <2>1, <2>2, <2>3, <2>4, <2>5 DEF DeletionHolds, Storage!Job
<1>9. IsFiniteSet(x2') /\ \A k \in x5' : \E u \in Uploads : k \in Storage!KeysOf(u)'
  BY <1>1 DEF StorageInv, Storage!KeysOf
<1> QED
  BY <1>3, <1>6, <1>7, <1>8, <1>9 DEF StorageInv

\* A copy that lands keeps the invariant.
LEMMA LandSteps == ASSUME StorageInv, Storage!Land PROVE StorageInv'
<1>0. /\ x1 \subseteq Named /\ x3 \subseteq Named /\ x2 \subseteq Docs
      /\ x4 \subseteq Keys /\ x5 \subseteq Keys
      /\ x6 \in [Uploads -> Reqs] /\ x7 \in [Named -> Sweeps]
      /\ x8 \in Storage!JobSteps /\ x9 \subseteq Uploads \X Storage!Whys /\ x10 \in 0..MaxFaults
  BY StorageShape DEF StorageInv
<1>1. PICK k \in x5 : x5' = x5 \ {k} /\ x4' = x4 \cup {k}
  BY DEF Storage!Land
<1>2. UNCHANGED <<x1, x2, x3, x6, x7, x8, x9, x10>>
  BY DEF Storage!Land
<1>3. PICK u \in Uploads : k \in Storage!KeysOf(u)
  BY DEF StorageInv
<1>4. Storage!TypeOK'
  BY <1>0, <1>1, <1>2 DEF Storage!TypeOK, Named, Docs, Reqs, Sweeps, Keys, Storage!First, Storage!Job
<1>5. UploadHolds(u) /\ Ids' = Ids
  BY <1>2 DEF StorageInv, Ids
<1>6. \A whys : Storage!Slipped(u, whys)' <=> Storage!Slipped(u, whys)
  BY <1>2 DEF Storage!Slipped
<1>7. \A j : Pending(u, j)' <=> Pending(u, j)
  BY <1>2 DEF Pending
<1>8. UploadSteps(u)'
  BY <1>1, <1>2, <1>5, <1>6 DEF UploadHolds, UploadSteps, Storage!At, Storage!IsNew,
     Before, Landed, Storage!First
<1>9. x8' = "none" => UploadObjects(u)'
  BY <1>1, <1>2, <1>3, <1>5, <1>6, <1>7 DEF UploadHolds, UploadSteps, UploadObjects, Storage!At, Before
<1>10. x8' = "none" => UploadDocuments(u)'
  BY <1>2, <1>5, <1>6 DEF UploadHolds, UploadDocuments, Storage!At, Storage!IsNew
<1>11. ASSUME NEW w \in Uploads, w # u PROVE Kept(w)
  <2>1. k \notin Storage!KeysOf(w)
    BY <1>3, <1>11, KeysDiffer, Versions
  <2> QED
    BY <1>1, <1>2, <2>1 DEF Kept
<1>12. \A w \in Uploads : UploadHolds(w)'
  BY <1>8, <1>9, <1>10, <1>11, KeptHolds DEF StorageInv, UploadHolds
<1>13. FirstHolds'
  BY <1>1, <1>2 DEF StorageInv, FirstHolds, Storage!First, Storage!KeysOf
<1>14. DeletionHolds'
  <2>0. DeletionHolds
    BY DEF StorageInv
  <2>1. x8 # "none" => Overlaps(u)
    BY <1>3, <2>0 DEF DeletionHolds, IsOver
  <2>2. \A j : IsLate(j)' <=> IsLate(j)
    BY <1>2 DEF IsLate, Overlaps, Storage!Slipped, Storage!KeysOf
  <2>3. x8 # "none" => IsLate(k)'
    BY <1>3, <2>1, <2>2 DEF IsLate
  <2>4. \A j : Pending(0, j)' <=> Pending(0, j)
    BY <1>2 DEF Pending
  <2>5. \A w : Overlaps(w)' <=> Overlaps(w)
    BY <1>2 DEF Overlaps, Storage!Slipped
  <2>6. \A w : IsOver(w) => IsOver(w)'
    BY <1>1, <1>2 DEF IsOver, Storage!KeysOf, Storage!Ended
  <2>7. \A j \in x4' : j \in x4 \/ j = k
    BY <1>1
  <2> QED
    BY <1>2, <1>5, <2>0, <2>2, <2>3, <2>4, <2>5, <2>6, <2>7 DEF DeletionHolds, Storage!Job
<1>15. IsFiniteSet(x2') /\ \A j \in x5' : \E w \in Uploads : j \in Storage!KeysOf(w)'
  BY <1>1, <1>2 DEF StorageInv, Storage!KeysOf
<1> QED
  BY <1>4, <1>12, <1>13, <1>14, <1>15 DEF StorageInv

\* The steps of the deletion leave to an upload its steps.
LEMMA StepsStay ==
  ASSUME NEW u \in Uploads, UploadSteps(u), x2' \subseteq x2, x5' = x5, x6' = x6, x7'[u] = x7[u],
         x9 \subseteq x9'
  PROVE  UploadSteps(u)'
<1>1. u \in Ids' => u \in Ids
  BY DEF Ids
<1>2. Storage!Slipped(u, {"lost"}) => Storage!Slipped(u, {"lost"})'
  BY DEF Storage!Slipped
<1> QED
  BY <1>1, <1>2 DEF UploadSteps, Storage!At, Storage!IsNew, Before, Landed, Storage!First, Storage!KeysOf

\* A step of the deletion of a diagram keeps the invariant.
LEMMA JobSteps ==
  ASSUME StorageInv, Storage!RequestDeletion \/ Storage!Cascade \/ Storage!Retry
  PROVE  StorageInv'
<1>0. /\ x1 \subseteq Named /\ x3 \subseteq Named /\ x2 \subseteq Docs
      /\ x4 \subseteq Keys /\ x5 \subseteq Keys
      /\ x6 \in [Uploads -> Reqs] /\ x7 \in [Named -> Sweeps]
      /\ x8 \in Storage!JobSteps /\ x9 \subseteq Uploads \X Storage!Whys /\ x10 \in 0..MaxFaults
  BY StorageShape DEF StorageInv
<1>n. 0 \in Named /\ Uploads \subseteq Named /\ \A u \in Uploads : u # 0
  BY Versions DEF Named
<1>d. DeletionHolds
  BY DEF StorageInv
<1>k. \A k \in x4 : k \in Nat
  BY <1>0, KeysAreFew
<1>1. /\ x4' = x4 /\ x5' = x5 /\ x6' = x6 /\ x8' # "none" /\ x9 \subseteq x9'
      /\ x1' \in {x1, {}} /\ x2' \in {x2, {}} /\ x3' \in {x3, {}}
      /\ x8' \in Storage!JobSteps /\ x9' \subseteq Uploads \X Storage!Whys /\ x10' \in 0..MaxFaults
  <2>1. CASE Storage!RequestDeletion
    <3>1. Storage!Running \X {"overlap"} \subseteq Uploads \X Storage!Whys
      BY DEF Storage!Running, Storage!Whys
    <3> QED
      BY <1>0, <2>1, <3>1 DEF Storage!RequestDeletion, Storage!JobSteps
  <2>2. CASE Storage!Cascade
    BY <1>0, <2>2 DEF Storage!Cascade, Storage!JobSteps
  <2>3. CASE Storage!Retry
    BY <1>0, <2>3, Bounds DEF Storage!Retry, Storage!JobSteps, Storage!Fault
  <2> QED
    BY <2>1, <2>2, <2>3
<1>2. x7' = x7 \/ \E s \in Sweeps : x7' = [x7 EXCEPT ![0] = s]
  BY NewSweeps DEF Storage!RequestDeletion, Storage!Cascade, Storage!Retry, Storage!Job
<1>3. x7' \in [Named -> Sweeps] /\ \A w \in Named \ {0} : x7'[w] = x7[w]
  BY <1>0, <1>2
<1>4. Storage!TypeOK'
  <2>1. x1' \subseteq Named /\ x3' \subseteq Named /\ x2' \subseteq Docs
    BY <1>0, <1>1
  <2> QED
    BY <1>0, <1>1, <1>3, <2>1 DEF Storage!TypeOK, Named, Docs, Reqs, Sweeps, Keys, Storage!First,
       Storage!Job
<1>5. IsFiniteSet(x2') /\ \A j \in x5' : \E w \in Uploads : j \in Storage!KeysOf(w)'
  BY <1>1, FS_EmptySet DEF StorageInv, Storage!KeysOf
<1>6. \A u \in Uploads : UploadHolds(u)'
  <2> SUFFICES ASSUME NEW u \in Uploads PROVE UploadSteps(u)'
    BY <1>1 DEF UploadHolds
  <2> QED
    BY <1>1, <1>3, <1>n, StepsStay DEF StorageInv, UploadHolds
<1>7. FirstHolds'
  BY <1>1 DEF FirstHolds
<1>8. /\ \A u : Overlaps(u) => Overlaps(u)'
      /\ \A k : IsLate(k) => IsLate(k)'
      /\ \A u : IsOver(u)' <=> IsOver(u)
  BY <1>1, LateStays DEF IsOver, Storage!Ended, Storage!KeysOf
<1>9. \A u \in Uploads : Overlaps(u)' \/ IsOver(u)'
  <2>1. CASE Storage!RequestDeletion
    <3> SUFFICES ASSUME NEW u \in Uploads, ~IsOver(u) PROVE Overlaps(u)'
      BY <1>8
    <3>1. u \in Storage!Running
      BY DEF IsOver, Storage!Running
    <3>2. <<u, "overlap">> \in x9'
      BY <2>1, <3>1 DEF Storage!RequestDeletion
    <3> QED
      BY <3>2 DEF Overlaps, Storage!Slipped
  <2>2. CASE Storage!Cascade \/ Storage!Retry
    <3>1. x8 # "none"
      BY <2>2 DEF Storage!Cascade, Storage!Retry
    <3> QED
      BY <1>8, <1>d, <3>1 DEF DeletionHolds
  <2> QED
    BY <2>1, <2>2
<1>10. CASE Storage!RequestDeletion \/ Storage!Retry
  <2>1. x8' = "objects" /\ x7' = [x7 EXCEPT ![0] = Storage!NewSweep]
    BY <1>10 DEF Storage!RequestDeletion, Storage!Retry, Storage!Job
  <2>2. x7'[0] = Storage!NewSweep
    BY <1>0, <1>n, <2>1
  <2>3. \A k \in x4' : Pending(0, k)'
    <3>1. x7'[0].more /\ x7'[0].token = -1
      BY <2>2, NewSweeps
    <3> QED
      BY <1>1, <1>k, <3>1 DEF Pending
  <2>4. x7'[0].on
    BY <2>2, NewSweeps
  <2> QED
    BY <1>4, <1>5, <1>6, <1>7, <1>9, <2>1, <2>3, <2>4 DEF DeletionHolds, Storage!Job, StorageInv
<1>11. CASE Storage!Cascade
  <2>1. CASE x8 = "objects"
    <3>1. x8' = "activities" /\ x7' = [x7 EXCEPT ![0] = Storage!NoSweep]
          /\ x7[0].keys = {} /\ ~x7[0].more
      BY <1>11, <2>1 DEF Storage!Cascade, Storage!Job, Storage!Swept
    <3>2. ~x7'[0].on
      BY <1>0, <1>n, <3>1, NewSweeps
    <3>3. \A k \in x4' : IsLate(k)'
      BY <1>1, <1>8, <1>d, <2>1, <3>1 DEF DeletionHolds, Storage!Job, Pending
    <3> QED
      BY <1>4, <1>5, <1>6, <1>7, <1>9, <3>1, <3>2, <3>3 DEF DeletionHolds, Storage!Job, StorageInv
  <2>2. CASE x8 # "objects"
    <3>1. x7' = x7 /\ x8 \notin {"none", "objects"} /\ x8' \notin {"none", "objects"}
      BY <1>11, <2>2 DEF Storage!Cascade
    <3>2. ~x7'[0].on
      BY <1>d, <2>2, <3>1 DEF DeletionHolds, Storage!Job
    <3>3. \A k \in x4' : IsLate(k)'
      BY <1>1, <1>8, <1>d, <3>1 DEF DeletionHolds
    <3>4. x8' \in {"versions", "diagrams", "deleted"} => \A v \in x3' : Overlaps(v)'
      BY <1>11, <1>8, <1>d, <2>2 DEF DeletionHolds, Storage!Cascade
    <3>5. x8' \in {"diagrams", "deleted"} => \A v \in Ids' : Overlaps(v)'
      BY <1>11, <1>8, <1>d, <2>2 DEF DeletionHolds, Storage!Cascade, Ids
    <3>6. x8' = "deleted" => \A v \in x1' : Overlaps(v)'
      BY <1>11, <1>8, <1>d, <2>2 DEF DeletionHolds, Storage!Cascade
    <3> QED
      BY <1>4, <1>5, <1>6, <1>7, <1>9, <3>1, <3>2, <3>3, <3>4, <3>5, <3>6
      DEF DeletionHolds, Storage!Job, StorageInv
  <2> QED
    BY <2>1, <2>2
<1> QED
  BY <1>10, <1>11

\* Every step of the images keeps the invariant.
LEMMA StorageSteps == ASSUME StorageInv, Storage!Next PROVE StorageInv'
<1>1. ASSUME NEW u \in Uploads, UploadStep(u) PROVE StorageInv'
  <2>0. Storage!TypeOK /\ IsFiniteSet(x2) /\ FirstHolds /\ DeletionHolds
    BY DEF StorageInv
  <2>1. Storage!TypeOK' /\ IsFiniteSet(x2') /\ UploadFrame(u)
    BY <1>1, <2>0, UploadEffects
  <2>2. FirstHolds' /\ DeletionHolds'
    BY <2>0, <2>1, FirstKept, DeletionKept
  <2>3. UploadHolds(u)'
    BY <1>1, <2>0, UploadOwn DEF StorageInv
  <2>4. \A w \in Uploads : w # u => UploadHolds(w)'
    BY <2>1, OthersKept, KeptHolds DEF StorageInv
  <2>5. \A k \in x5' : \E w \in Uploads : k \in Storage!KeysOf(w)'
    BY <2>1 DEF UploadFrame, StorageInv, Storage!KeysOf
  <2> QED
    BY <2>1, <2>2, <2>3, <2>4, <2>5 DEF StorageInv
<1>2. \/ \E u \in Uploads : UploadStep(u)
      \/ \E w \in Named : Storage!List(w) \/ Storage!DeletePage(w)
      \/ Storage!Land \/ Storage!RequestDeletion \/ Storage!Cascade \/ Storage!Retry
  BY DEF Storage!Next, UploadStep, Named, Storage!Job
<1> QED
  BY <1>1, <1>2, SweepSteps, LandSteps, JobSteps

\* What the invariant says of the images and the documents.
LEMMA StorageAgrees ==
  StorageInv => /\ Storage!ImagesExist /\ Storage!NothingLeft
                /\ Storage!DiagramsHaveVersions /\ Storage!DeletedIsGone
<1> SUFFICES ASSUME StorageInv
             PROVE  /\ Storage!ImagesExist /\ Storage!NothingLeft
                    /\ Storage!DiagramsHaveVersions /\ Storage!DeletedIsGone
  OBVIOUS
<1>0. x1 \subseteq Named /\ x2 \subseteq Docs
  BY StorageShape DEF StorageInv
<1>i. \A v \in x2 : v.id \in Ids /\ v.id \in Named
  BY <1>0 DEF Ids, Docs
<1>1. Storage!ImagesExist
  <2> SUFFICES ASSUME x8 = "none", NEW v \in x2, ~Storage!Slipped(v.id, {"lost"})
               PROVE  Storage!KeysOf(v.id) \subseteq x4
    BY DEF Storage!ImagesExist
  <2>1. CASE v.id = 0
    BY <2>1 DEF StorageInv, FirstHolds, Storage!First
  <2>2. CASE v.id \in Uploads
    BY <1>i, <2>2 DEF StorageInv, UploadHolds, UploadObjects
  <2> QED
    BY <1>i, <2>1, <2>2 DEF Named
<1>2. Storage!NothingLeft
  <2> SUFFICES ASSUME x8 = "none", NEW u \in Uploads, Storage!At(u, "failed"), u \notin Ids,
                      ~Storage!Slipped(u, {"late", "unclean", "dead"})
               PROVE  x4 \cap Storage!KeysOf(u) = {}
    BY DEF Storage!NothingLeft, Ids
  <2> QED
    BY DEF StorageInv, UploadHolds, UploadObjects
<1>3. Storage!DiagramsHaveVersions
  <2> SUFFICES ASSUME x8 = "none"
               PROVE  /\ \A d \in x1 \ {0} : Storage!At(d, "made") \/ Storage!At(d, "failed") =>
                            Storage!Of(d) # {} \/ Storage!Slipped(d, {"dead", "undone"})
                      /\ \A v \in x2 : \/ v.diagram \in x1
                                       \/ Storage!Slipped(v.id, {"touched", "lost", "dead"})
    BY DEF Storage!DiagramsHaveVersions, Storage!First
  <2>0. \A u \in Uploads : UploadSteps(u) /\ UploadDocuments(u)
    BY DEF StorageInv, UploadHolds
  <2>1. ASSUME NEW d \in x1 \ {0}, Storage!At(d, "made") \/ Storage!At(d, "failed")
        PROVE  Storage!Of(d) # {} \/ Storage!Slipped(d, {"dead", "undone"})
    <3>1. d \in Uploads
      BY <1>0 DEF Named
    <3>2. Storage!IsNew(d)
      BY <2>0, <2>1, <3>1 DEF UploadDocuments
    <3>3. CASE Storage!At(d, "made")
      <4>1. PICK v \in x2 : v.id = d
        BY <2>0, <3>1, <3>3 DEF UploadDocuments, Ids, Storage!At
      <4>2. v.diagram = d
        BY <2>0, <3>1, <3>2, <4>1 DEF UploadSteps, Storage!IsNew
      <4> QED
        BY <4>2 DEF Storage!Of
    <3>4. CASE Storage!At(d, "failed")
      BY <2>0, <2>1, <3>1, <3>2, <3>4 DEF UploadDocuments
    <3> QED
      BY <2>1, <3>3, <3>4
  <2>2. ASSUME NEW v \in x2
        PROVE  v.diagram \in x1 \/ Storage!Slipped(v.id, {"touched", "lost", "dead"})
    <3>1. 0 \in x1
      BY DEF StorageInv, FirstHolds, Storage!First
    <3>2. CASE v.id = 0
      BY <3>1, <3>2 DEF StorageInv, FirstHolds, Storage!First
    <3>3. CASE v.id \in Uploads
      <4> DEFINE u == v.id
      <4>1. v.diagram = x6[u].diagram /\ x6[u].diagram \in {u, 0}
        BY <2>0, <3>3 DEF UploadSteps, Storage!First
      <4>2. x6[u].step \in {"copy", "touch", "made", "failed", "undo", "clean"}
        BY <1>i, <2>0, <3>3 DEF UploadSteps, Storage!At
      <4>3. CASE v.diagram = u
        BY <1>i, <2>0, <3>3, <4>1, <4>2, <4>3 DEF UploadDocuments, Storage!IsNew, Storage!At
      <4> QED
        BY <3>1, <4>1, <4>3
    <3> QED
      BY <1>i, <3>2, <3>3 DEF Named
  <2> QED
    BY <2>1, <2>2
<1>4. Storage!DeletedIsGone
  <2> SUFFICES ASSUME x8 = "deleted",
                      NEW v \in x1 \cup x3 \cup {w.id : w \in x2} \cup {k \div Images : k \in x4}
               PROVE  Overlaps(v)
    BY DEF Storage!DeletedIsGone, Overlaps
  <2>0. DeletionHolds
    BY DEF StorageInv
  <2>1. CASE v \in x1 \cup x3 \cup {w.id : w \in x2}
    BY <2>0, <2>1 DEF DeletionHolds, Ids
  <2>2. CASE v \in {k \div Images : k \in x4}
    <3>1. PICK k \in x4 : v = k \div Images
      BY <2>2
    <3>2. PICK u \in Uploads : Overlaps(u) /\ k \in Storage!KeysOf(u)
      BY <2>0 DEF DeletionHolds, IsLate
    <3>3. v = u
      BY <3>1, <3>2, KeyNames, Versions
    <3> QED
      BY <3>2, <3>3
  <2> QED
    BY <2>1, <2>2
<1> QED
  BY <1>1, <1>2, <1>3, <1>4

-----------------------------------------------------------------------------
(* The exports: x1 .. x8 are export, bucket, queue, request, after, worker, sweep and *)
(* lost.                                                                              *)

\* What is so of an export, by its status: nobody touches its file before it is past, nor
\* its input before it ended, and a file in progress is in somebody's hands.
ExportHolds(e) ==
  /\ x1[e] = Files!Unborn =>
       x3[e] = "out" /\ x4[e] = "none" /\ x5[e] = {} /\ x7[e] = "no"
  /\ x4[e] \in {"put", "fail"} => Files!Is(e, "pdf")
  /\ x5[e] # {} => Files!IsFinished(e)
  /\ Files!IsActive(e) => x1[e].expires = "never" /\ x7[e] = "no"
  /\ x1[e] # Files!Unborn /\ x1[e].expires # "never" => x1[e].status = "done"
  /\ x1[e].status = "done" /\ x1[e].mode = "async" => x1[e].expires # "never"
  /\ x1[e] # Files!Unborn /\ x1[e].expires = "later" => x1[e].fileKey /\ "file" \in x2[e] /\ x7[e] = "no"
  /\ Files!Is(e, "pdf") /\ Files!IsActive(e) /\ x3[e] = "completed" => "file" \in x2[e]
  /\ Files!Is(e, "pdf") /\ Files!IsActive(e) /\ (x3[e] \in {"waiting", "active"} \/ x4[e] = "enqueue")
       => "input" \in x2[e]
  /\ Files!Is(e, "file") /\ x1[e].status = "running" =>
       e \in x8 \/ \E w \in Two : x6[w] # Files!Free /\ x6[w].export = e
  /\ Files!Is(e, "file") /\ x1[e].status = "pending" =>
       x4[e] = "enqueue" \/ x3[e] = "waiting" \/ e \in x8

\* A worker generates a file that runs, and no other does.
WorkersHold ==
  /\ \A w \in Two : x6[w] # Files!Free =>
       /\ Files!Is(x6[w].export, "file") /\ x1[x6[w].export].status = "running"
       /\ x6[w].pc = "finish" => "file" \in x2[x6[w].export]
  /\ \A v, w \in Two : x6[v] # Files!Free /\ x6[w] # Files!Free /\ x6[v].export = x6[w].export => v = w

ExportsInv ==
  /\ Files!TypeOK
  /\ \A e \in Files!Exports : ExportHolds(e)
  /\ WorkersHold

\* The fields of the records.
LEMMA ExportRecords ==
  /\ Files!Unborn.status = "none"
  /\ \A r \in Files!Export :
       /\ r # Files!Unborn /\ r.format \in {"pdf", "file"} /\ r.mode \in {"sync", "async"}
       /\ r.status \in {"pending", "running", "done", "failed"}
       /\ r.fileKey \in BOOLEAN /\ r.expires \in {"never", "later", "past"}
  /\ \A r : r # Files!Unborn /\ r \in Files!Export \cup {Files!Unborn} => r \in Files!Export
  /\ \A g \in Files!Generating : g.pc \in {"render", "finish"} /\ g.export \in Files!Exports /\ g # Files!Free
  /\ Files!Free.pc = "free"
<1>1. \A g \in Files!Generating : g.pc \in {"render", "finish"} /\ g.export \in Files!Exports
  BY DEF Files!Generating
<1>2. Files!Free.pc = "free"
  BY DEF Files!Free
<1>3. \A g \in Files!Generating : g # Files!Free
  BY <1>1, <1>2
<1>4. Files!Unborn.status = "none"
  BY DEF Files!Unborn
<1>5. \A r \in Files!Export :
       /\ r.format \in {"pdf", "file"} /\ r.mode \in {"sync", "async"}
       /\ r.status \in {"pending", "running", "done", "failed"}
       /\ r.fileKey \in BOOLEAN /\ r.expires \in {"never", "later", "past"}
  BY DEF Files!Export, Files!Active, Files!Finished
<1>6. \A r \in Files!Export : r # Files!Unborn
  BY <1>4, <1>5
<1> QED
  BY <1>1, <1>2, <1>3, <1>4, <1>5, <1>6

\* An export with another value of one field.
WithStatus(r, status) == [r EXCEPT !.status = status]
WithKey(r, key) == [r EXCEPT !.fileKey = key]
WithExpiry(r, expires) == [r EXCEPT !.expires = expires]
Completed(r) == WithExpiry(WithKey(WithStatus(r, "done"), TRUE), "later")

\* A record with another status, or with another file key, is a record.
LEMMA ExportFields ==
  ASSUME NEW r \in Files!Export
  PROVE  /\ \A status \in {"pending", "running", "done", "failed"} :
              /\ WithStatus(r, status) \in Files!Export /\ WithStatus(r, status).status = status
              /\ WithStatus(r, status).format = r.format /\ WithStatus(r, status).mode = r.mode
              /\ WithStatus(r, status).expires = r.expires /\ WithStatus(r, status).fileKey = r.fileKey
         /\ \A key \in BOOLEAN :
              /\ WithKey(r, key) \in Files!Export /\ WithKey(r, key).status = r.status
              /\ WithKey(r, key).format = r.format /\ WithKey(r, key).mode = r.mode
              /\ WithKey(r, key).expires = r.expires /\ WithKey(r, key).fileKey = key
         /\ \A expires \in {"never", "later", "past"} :
              /\ WithExpiry(r, expires) \in Files!Export /\ WithExpiry(r, expires).status = r.status
              /\ WithExpiry(r, expires).format = r.format /\ WithExpiry(r, expires).mode = r.mode
              /\ WithExpiry(r, expires).expires = expires /\ WithExpiry(r, expires).fileKey = r.fileKey
<1> USE DEF Files!Export, Files!Active, Files!Finished
<1>1. \A status \in {"pending", "running", "done", "failed"} :
        /\ WithStatus(r, status) \in Files!Export /\ WithStatus(r, status).status = status
        /\ WithStatus(r, status).format = r.format /\ WithStatus(r, status).mode = r.mode
        /\ WithStatus(r, status).expires = r.expires /\ WithStatus(r, status).fileKey = r.fileKey
  BY DEF WithStatus
<1>2. \A key \in BOOLEAN :
        /\ WithKey(r, key) \in Files!Export /\ WithKey(r, key).status = r.status
        /\ WithKey(r, key).format = r.format /\ WithKey(r, key).mode = r.mode
        /\ WithKey(r, key).expires = r.expires /\ WithKey(r, key).fileKey = key
  BY DEF WithKey
<1>3. \A expires \in {"never", "later", "past"} :
        /\ WithExpiry(r, expires) \in Files!Export /\ WithExpiry(r, expires).status = r.status
        /\ WithExpiry(r, expires).format = r.format /\ WithExpiry(r, expires).mode = r.mode
        /\ WithExpiry(r, expires).expires = expires /\ WithExpiry(r, expires).fileKey = r.fileKey
  BY DEF WithExpiry
<1> QED
  BY <1>1, <1>2, <1>3

\* A record that is completed is a record.
LEMMA CompletedFields ==
  ASSUME NEW r \in Files!Export
  PROVE  /\ Completed(r) \in Files!Export /\ Completed(r).status = "done"
         /\ Completed(r).format = r.format /\ Completed(r).fileKey = TRUE /\ Completed(r).expires = "later"
<1> DEFINE a == WithStatus(r, "done")
           b == WithKey(a, TRUE)
<1>1. a \in Files!Export /\ a.status = "done" /\ a.format = r.format
  BY ExportFields
<1> HIDE DEF a
<1>2. b \in Files!Export /\ b.status = "done" /\ b.format = r.format /\ b.fileKey = TRUE
  BY <1>1, ExportFields
<1> HIDE DEF b
<1>3. /\ WithExpiry(b, "later") \in Files!Export /\ WithExpiry(b, "later").status = b.status
      /\ WithExpiry(b, "later").format = b.format /\ WithExpiry(b, "later").fileKey = b.fileKey
      /\ WithExpiry(b, "later").expires = "later"
  BY <1>2, ExportFields
<1> QED
  BY <1>2, <1>3 DEF Completed, a, b

\* At first there is no export.
LEMMA ExportsInit == Files!Init => ExportsInv
<1> SUFFICES ASSUME Files!Init PROVE ExportsInv
  OBVIOUS
<1> USE DEF Files!Init
<1>1. Files!TypeOK
  BY DEF Files!TypeOK
<1>2. ASSUME NEW e \in Files!Exports PROVE ExportHolds(e)
  <2>1. /\ x1[e] = Files!Unborn /\ x2[e] = {} /\ x3[e] = "out" /\ x4[e] = "none" /\ x5[e] = {} /\ x7[e] = "no"
        /\ x1[e].status = "none"
    BY ExportRecords
  <2> QED
    BY <2>1 DEF ExportHolds, Files!Is, Files!IsActive, Files!Active
<1>3. WorkersHold
  BY DEF WorkersHold
<1> QED
  BY <1>1, <1>2, <1>3 DEF ExportsInv

\* The step changes nothing of the other exports.
OnlyExport(e) ==
  /\ \A f \in Files!Exports \ {e} :
       /\ x1'[f] = x1[f] /\ x2'[f] = x2[f] /\ x3'[f] = x3[f]
       /\ x4'[f] = x4[f] /\ x5'[f] = x5[f] /\ x7'[f] = x7[f]
  /\ x8 \subseteq x8'

ExportTypes ==
  /\ x1 \in [Files!Exports -> Files!Export \cup {Files!Unborn}]
  /\ x2 \in [Files!Exports -> SUBSET {"input", "file"}]
  /\ x3 \in [Files!Exports -> {"out", "waiting", "active", "completed", "failed"}]
  /\ x4 \in [Files!Exports -> {"none", "put", "enqueue", "fail"}]
  /\ x5 \in [Files!Exports -> SUBSET {"clean", "remove"}]
  /\ x6 \in [Two -> Files!Generating \cup {Files!Free}]
  /\ x7 \in [Files!Exports -> {"no", "delete", "forget"}]
  /\ x8 \subseteq Files!Exports

\* A step that leaves the workers alone.
LEMMA WithoutWorkers ==
  ASSUME ExportsInv, NEW e \in Files!Exports, OnlyExport(e), x6' = x6, Files!TypeOK', ExportHolds(e)',
         Files!Is(e, "file") /\ x1[e].status = "running" =>
           /\ Files!Is(e, "file")' /\ x1'[e].status = "running"
           /\ "file" \in x2[e] => "file" \in x2'[e]
  PROVE  ExportsInv'
<1>1. ASSUME NEW f \in Files!Exports, f # e PROVE ExportHolds(f)'
  <2>1. /\ x1'[f] = x1[f] /\ x2'[f] = x2[f] /\ x3'[f] = x3[f]
        /\ x4'[f] = x4[f] /\ x5'[f] = x5[f] /\ x7'[f] = x7[f]
        /\ f \in x8 => f \in x8'
    BY <1>1 DEF OnlyExport
  <2>2. ExportHolds(f)
    BY DEF ExportsInv
  <2> QED
    BY <2>1, <2>2 DEF ExportHolds, Files!Is, Files!IsActive, Files!IsFinished, Files!Active, Files!Finished,
       Files!Unborn, Files!Free
<1>2. \A w \in Two : x6[w] # Files!Free => x6[w].export \in Files!Exports
  BY ExportRecords DEF ExportsInv, Files!TypeOK
<1>3. WorkersHold'
  <2>1. WorkersHold
    BY DEF ExportsInv
  <2>2. ASSUME NEW w \in Two, x6[w] # Files!Free
        PROVE  /\ Files!Is(x6[w].export, "file")' /\ x1'[x6[w].export].status = "running"
               /\ x6[w].pc = "finish" => "file" \in x2'[x6[w].export]
    <3>1. CASE x6[w].export = e
      BY <2>1, <2>2, <3>1 DEF WorkersHold, Files!Is, Files!Unborn
    <3>2. CASE x6[w].export # e
      <4>1. x1'[x6[w].export] = x1[x6[w].export] /\ x2'[x6[w].export] = x2[x6[w].export]
        BY <1>2, <2>2, <3>2 DEF OnlyExport
      <4> QED
        BY <2>1, <2>2, <4>1 DEF WorkersHold, Files!Is, Files!Unborn
    <3> QED
      BY <3>1, <3>2
  <2> QED
    BY <2>1, <2>2 DEF WorkersHold, Files!Is, Files!Free, Files!Unborn
<1> QED
  BY <1>1, <1>3 DEF ExportsInv, Files!Exports

\* A step of one export keeps the invariant, and what ended as it ended.
LEMMA ExportSteps ==
  ASSUME ExportsInv, NEW e \in Files!Exports,
         \/ \E format \in {"pdf", "file"} : Files!Create(e, format)
         \/ Files!CreateSync(e) \/ Files!PutInput(e) \/ Files!Enqueue(e) \/ Files!CannotEnqueue(e)
         \/ Files!Take(e) \/ Files!Return(e) \/ Files!MarkRunning(e) \/ Files!Complete(e) \/ Files!Fail(e)
         \/ Files!FailRequest(e) \/ Files!Timeout(e) \/ Files!CleanInput(e) \/ Files!RemoveJob(e)
         \/ Files!Stall(e) \/ Files!ClaimFails(e) \/ Files!Expire(e) \/ Files!FindExpired(e) \/ Files!DeleteFile(e)
         \/ Files!ForgetFile(e)
  PROVE  /\ ExportsInv'
         /\ \A f \in Files!Exports : Files!IsFinished(f) => x1'[f].status = x1[f].status
<1>0. ExportTypes
  BY DEF ExportsInv, Files!TypeOK, ExportTypes
<1>1. ExportHolds(e) /\ WorkersHold
  BY DEF ExportsInv
<1>2. x1[e] = Files!Unborn \/ x1[e] \in Files!Export
  BY <1>0 DEF ExportTypes
<1>3. Files!Unborn.status = "none" /\ \A r \in Files!Export : r # Files!Unborn
  BY ExportRecords
<1>4. ASSUME OnlyExport(e), x6' = x6, ExportTypes', ExportHolds(e)',
             Files!Is(e, "file") /\ x1[e].status = "running" =>
               /\ Files!Is(e, "file")' /\ x1'[e].status = "running"
               /\ "file" \in x2[e] => "file" \in x2'[e],
             Files!IsFinished(e) => x1'[e].status = x1[e].status
      PROVE  /\ ExportsInv'
             /\ \A f \in Files!Exports : Files!IsFinished(f) => x1'[f].status = x1[f].status
  <2>1. Files!TypeOK'
    BY <1>4 DEF ExportTypes, Files!TypeOK, Files!Exports, Files!Export, Files!Generating, Files!Free,
       Files!Unborn, Files!Active, Files!Finished
  <2>2. ExportsInv'
    BY <1>4, <2>1, WithoutWorkers
  <2>3. \A f \in Files!Exports : Files!IsFinished(f) => x1'[f].status = x1[f].status
    BY <1>4 DEF OnlyExport
  <2> QED
    BY <2>2, <2>3
<1>b. ASSUME NEW format \in {"pdf", "file"}, Files!Create(e, format)
      PROVE  /\ ExportsInv'
             /\ \A f \in Files!Exports : Files!IsFinished(f) => x1'[f].status = x1[f].status
  <2>1. /\ x1[e] = Files!Unborn
        /\ x1' = [x1 EXCEPT ![e] = [format |-> format, mode |-> "async", status |-> "pending", fileKey |-> FALSE, expires |-> "never"]]
        /\ x4' = [x4 EXCEPT ![e] = IF format = "pdf" THEN "put" ELSE "enqueue"]
        /\ UNCHANGED <<x2, x3, x5, x6, x7, x8>>
    BY <1>b DEF Files!Create, Files!NewExport
  <2>7. [format |-> format, mode |-> "async", status |-> "pending", fileKey |-> FALSE, expires |-> "never"] \in Files!Export
    BY DEF Files!Export, Files!Active, Files!Finished
  <2>2. /\ x1'[e] = [format |-> format, mode |-> "async", status |-> "pending", fileKey |-> FALSE, expires |-> "never"]
        /\ x4'[e] = (IF format = "pdf" THEN "put" ELSE "enqueue")
        /\ x2'[e] = x2[e]
        /\ x3'[e] = x3[e]
        /\ x5'[e] = x5[e]
        /\ x7'[e] = x7[e]
    BY <1>0, <2>1 DEF ExportTypes
  <2>3. x6' = x6 /\ OnlyExport(e)
    BY <1>0, <2>1 DEF ExportTypes, OnlyExport
  <2>4. ExportTypes'
    <3>1. /\ x1' \in [Files!Exports -> Files!Export \cup {Files!Unborn}]
          /\ x2' \in [Files!Exports -> SUBSET {"input", "file"}]
          /\ x3' \in [Files!Exports -> {"out", "waiting", "active", "completed", "failed"}]
          /\ x4' \in [Files!Exports -> {"none", "put", "enqueue", "fail"}]
          /\ x5' \in [Files!Exports -> SUBSET {"clean", "remove"}]
          /\ x6' \in [Two -> Files!Generating \cup {Files!Free}]
          /\ x7' \in [Files!Exports -> {"no", "delete", "forget"}]
          /\ x8' \subseteq Files!Exports
      BY <1>0, <2>1, <2>7 DEF ExportTypes
    <3> QED
      BY <3>1 DEF ExportTypes, OnlyExport, Files!Exports, Files!Export, Files!Generating, Files!Free,
         Files!Unborn, Files!Active, Files!Finished
  <2>5. ExportHolds(e)'
    BY <1>1, <1>2, <1>3, <2>1, <2>2, ExportRecords, <2>7 DEF ExportHolds, Files!Is, Files!IsActive,
       Files!IsFinished, Files!Active, Files!Finished, Files!Unborn, Files!Free
  <2>6. /\ Files!Is(e, "file") /\ x1[e].status = "running" =>
             /\ Files!Is(e, "file")' /\ x1'[e].status = "running"
             /\ "file" \in x2[e] => "file" \in x2'[e]
        /\ Files!IsFinished(e) => x1'[e].status = x1[e].status
    BY <1>1, <1>2, <1>3, <2>1, <2>2, <2>7 DEF ExportHolds, Files!Is, Files!IsActive, Files!IsFinished,
       Files!Active, Files!Finished, Files!Unborn, Files!Free
  <2> QED
    BY <1>4, <2>3, <2>4, <2>5, <2>6
<1>c. CASE Files!CreateSync(e)
  <2>1. /\ x1[e] = Files!Unborn
        /\ x1' = [x1 EXCEPT ![e] = [format |-> "file", mode |-> "sync", status |-> "done", fileKey |-> FALSE, expires |-> "never"]]
        /\ UNCHANGED <<x2, x3, x4, x5, x6, x7, x8>>
    BY <1>c DEF Files!CreateSync, Files!NewExport
  <2>7. [format |-> "file", mode |-> "sync", status |-> "done", fileKey |-> FALSE, expires |-> "never"] \in Files!Export
    BY DEF Files!Export, Files!Active, Files!Finished
  <2>2. /\ x1'[e] = [format |-> "file", mode |-> "sync", status |-> "done", fileKey |-> FALSE, expires |-> "never"]
        /\ x2'[e] = x2[e]
        /\ x3'[e] = x3[e]
        /\ x4'[e] = x4[e]
        /\ x5'[e] = x5[e]
        /\ x7'[e] = x7[e]
    BY <1>0, <2>1 DEF ExportTypes
  <2>3. x6' = x6 /\ OnlyExport(e)
    BY <1>0, <2>1 DEF ExportTypes, OnlyExport
  <2>4. ExportTypes'
    <3>1. /\ x1' \in [Files!Exports -> Files!Export \cup {Files!Unborn}]
          /\ x2' \in [Files!Exports -> SUBSET {"input", "file"}]
          /\ x3' \in [Files!Exports -> {"out", "waiting", "active", "completed", "failed"}]
          /\ x4' \in [Files!Exports -> {"none", "put", "enqueue", "fail"}]
          /\ x5' \in [Files!Exports -> SUBSET {"clean", "remove"}]
          /\ x6' \in [Two -> Files!Generating \cup {Files!Free}]
          /\ x7' \in [Files!Exports -> {"no", "delete", "forget"}]
          /\ x8' \subseteq Files!Exports
      BY <1>0, <2>1, <2>7 DEF ExportTypes
    <3> QED
      BY <3>1 DEF ExportTypes, OnlyExport, Files!Exports, Files!Export, Files!Generating, Files!Free,
         Files!Unborn, Files!Active, Files!Finished
  <2>5. ExportHolds(e)'
    BY <1>1, <1>2, <1>3, <2>1, <2>2, ExportRecords, <2>7 DEF ExportHolds, Files!Is, Files!IsActive,
       Files!IsFinished, Files!Active, Files!Finished, Files!Unborn, Files!Free
  <2>6. /\ Files!Is(e, "file") /\ x1[e].status = "running" =>
             /\ Files!Is(e, "file")' /\ x1'[e].status = "running"
             /\ "file" \in x2[e] => "file" \in x2'[e]
        /\ Files!IsFinished(e) => x1'[e].status = x1[e].status
    BY <1>1, <1>2, <1>3, <2>1, <2>2, <2>7 DEF ExportHolds, Files!Is, Files!IsActive, Files!IsFinished,
       Files!Active, Files!Finished, Files!Unborn, Files!Free
  <2> QED
    BY <1>4, <2>3, <2>4, <2>5, <2>6
<1>d. CASE Files!PutInput(e)
  <2>1. /\ x4[e] = "put"
        /\ x2' = [x2 EXCEPT ![e] = x2[e] \cup {"input"}]
        /\ x4' = [x4 EXCEPT ![e] = "enqueue"]
        /\ UNCHANGED <<x1, x3, x5, x6, x7, x8>>
    BY <1>d DEF Files!PutInput
  <2>2. /\ x2'[e] = x2[e] \cup {"input"}
        /\ x4'[e] = "enqueue"
        /\ x1'[e] = x1[e]
        /\ x3'[e] = x3[e]
        /\ x5'[e] = x5[e]
        /\ x7'[e] = x7[e]
    BY <1>0, <2>1 DEF ExportTypes
  <2>3. x6' = x6 /\ OnlyExport(e)
    BY <1>0, <2>1 DEF ExportTypes, OnlyExport
  <2>4. ExportTypes'
    <3>1. /\ x1' \in [Files!Exports -> Files!Export \cup {Files!Unborn}]
          /\ x2' \in [Files!Exports -> SUBSET {"input", "file"}]
          /\ x3' \in [Files!Exports -> {"out", "waiting", "active", "completed", "failed"}]
          /\ x4' \in [Files!Exports -> {"none", "put", "enqueue", "fail"}]
          /\ x5' \in [Files!Exports -> SUBSET {"clean", "remove"}]
          /\ x6' \in [Two -> Files!Generating \cup {Files!Free}]
          /\ x7' \in [Files!Exports -> {"no", "delete", "forget"}]
          /\ x8' \subseteq Files!Exports
      BY <1>0, <2>1 DEF ExportTypes
    <3> QED
      BY <3>1 DEF ExportTypes, OnlyExport, Files!Exports, Files!Export, Files!Generating, Files!Free,
         Files!Unborn, Files!Active, Files!Finished
  <2>5. ExportHolds(e)'
    BY <1>1, <1>2, <1>3, <2>1, <2>2, ExportRecords DEF ExportHolds, Files!Is, Files!IsActive,
       Files!IsFinished, Files!Active, Files!Finished, Files!Unborn, Files!Free
  <2>6. /\ Files!Is(e, "file") /\ x1[e].status = "running" =>
             /\ Files!Is(e, "file")' /\ x1'[e].status = "running"
             /\ "file" \in x2[e] => "file" \in x2'[e]
        /\ Files!IsFinished(e) => x1'[e].status = x1[e].status
    BY <1>1, <1>2, <1>3, <2>1, <2>2 DEF ExportHolds, Files!Is, Files!IsActive, Files!IsFinished,
       Files!Active, Files!Finished, Files!Unborn, Files!Free
  <2> QED
    BY <1>4, <2>3, <2>4, <2>5, <2>6
<1>e. CASE Files!Enqueue(e)
  <2>1. /\ x4[e] = "enqueue"
        /\ x3' = [x3 EXCEPT ![e] = "waiting"]
        /\ x4' = [x4 EXCEPT ![e] = "none"]
        /\ UNCHANGED <<x1, x2, x5, x6, x7, x8>>
    BY <1>e DEF Files!Enqueue
  <2>2. /\ x3'[e] = "waiting"
        /\ x4'[e] = "none"
        /\ x1'[e] = x1[e]
        /\ x2'[e] = x2[e]
        /\ x5'[e] = x5[e]
        /\ x7'[e] = x7[e]
    BY <1>0, <2>1 DEF ExportTypes
  <2>3. x6' = x6 /\ OnlyExport(e)
    BY <1>0, <2>1 DEF ExportTypes, OnlyExport
  <2>4. ExportTypes'
    <3>1. /\ x1' \in [Files!Exports -> Files!Export \cup {Files!Unborn}]
          /\ x2' \in [Files!Exports -> SUBSET {"input", "file"}]
          /\ x3' \in [Files!Exports -> {"out", "waiting", "active", "completed", "failed"}]
          /\ x4' \in [Files!Exports -> {"none", "put", "enqueue", "fail"}]
          /\ x5' \in [Files!Exports -> SUBSET {"clean", "remove"}]
          /\ x6' \in [Two -> Files!Generating \cup {Files!Free}]
          /\ x7' \in [Files!Exports -> {"no", "delete", "forget"}]
          /\ x8' \subseteq Files!Exports
      BY <1>0, <2>1 DEF ExportTypes
    <3> QED
      BY <3>1 DEF ExportTypes, OnlyExport, Files!Exports, Files!Export, Files!Generating, Files!Free,
         Files!Unborn, Files!Active, Files!Finished
  <2>5. ExportHolds(e)'
    BY <1>1, <1>2, <1>3, <2>1, <2>2, ExportRecords DEF ExportHolds, Files!Is, Files!IsActive,
       Files!IsFinished, Files!Active, Files!Finished, Files!Unborn, Files!Free
  <2>6. /\ Files!Is(e, "file") /\ x1[e].status = "running" =>
             /\ Files!Is(e, "file")' /\ x1'[e].status = "running"
             /\ "file" \in x2[e] => "file" \in x2'[e]
        /\ Files!IsFinished(e) => x1'[e].status = x1[e].status
    BY <1>1, <1>2, <1>3, <2>1, <2>2 DEF ExportHolds, Files!Is, Files!IsActive, Files!IsFinished,
       Files!Active, Files!Finished, Files!Unborn, Files!Free
  <2> QED
    BY <1>4, <2>3, <2>4, <2>5, <2>6
<1>f. CASE Files!CannotEnqueue(e) /\ Files!Is(e, "pdf")
  <2>1. /\ x4[e] \in {"put", "enqueue"} /\ Files!Is(e, "pdf")
        /\ x4' = [x4 EXCEPT ![e] = "fail"]
        /\ UNCHANGED <<x1, x2, x3, x5, x6, x7, x8>>
    BY <1>f DEF Files!CannotEnqueue, Files!Is
  <2>2. /\ x4'[e] = "fail"
        /\ x1'[e] = x1[e]
        /\ x2'[e] = x2[e]
        /\ x3'[e] = x3[e]
        /\ x5'[e] = x5[e]
        /\ x7'[e] = x7[e]
    BY <1>0, <2>1 DEF ExportTypes
  <2>3. x6' = x6 /\ OnlyExport(e)
    BY <1>0, <2>1 DEF ExportTypes, OnlyExport
  <2>4. ExportTypes'
    <3>1. /\ x1' \in [Files!Exports -> Files!Export \cup {Files!Unborn}]
          /\ x2' \in [Files!Exports -> SUBSET {"input", "file"}]
          /\ x3' \in [Files!Exports -> {"out", "waiting", "active", "completed", "failed"}]
          /\ x4' \in [Files!Exports -> {"none", "put", "enqueue", "fail"}]
          /\ x5' \in [Files!Exports -> SUBSET {"clean", "remove"}]
          /\ x6' \in [Two -> Files!Generating \cup {Files!Free}]
          /\ x7' \in [Files!Exports -> {"no", "delete", "forget"}]
          /\ x8' \subseteq Files!Exports
      BY <1>0, <2>1 DEF ExportTypes
    <3> QED
      BY <3>1 DEF ExportTypes, OnlyExport, Files!Exports, Files!Export, Files!Generating, Files!Free,
         Files!Unborn, Files!Active, Files!Finished
  <2>5. ExportHolds(e)'
    BY <1>1, <1>2, <1>3, <2>1, <2>2, ExportRecords DEF ExportHolds, Files!Is, Files!IsActive,
       Files!IsFinished, Files!Active, Files!Finished, Files!Unborn, Files!Free
  <2>6. /\ Files!Is(e, "file") /\ x1[e].status = "running" =>
             /\ Files!Is(e, "file")' /\ x1'[e].status = "running"
             /\ "file" \in x2[e] => "file" \in x2'[e]
        /\ Files!IsFinished(e) => x1'[e].status = x1[e].status
    BY <1>1, <1>2, <1>3, <2>1, <2>2 DEF ExportHolds, Files!Is, Files!IsActive, Files!IsFinished,
       Files!Active, Files!Finished, Files!Unborn, Files!Free
  <2> QED
    BY <1>4, <2>3, <2>4, <2>5, <2>6
<1>g. CASE Files!CannotEnqueue(e) /\ ~Files!Is(e, "pdf")
  <2>1. /\ x4[e] \in {"put", "enqueue"} /\ ~Files!Is(e, "pdf")
        /\ x4' = [x4 EXCEPT ![e] = "none"]
        /\ x8' = x8 \cup {e}
        /\ UNCHANGED <<x1, x2, x3, x5, x6, x7>>
    BY <1>g DEF Files!CannotEnqueue
  <2>2. /\ x4'[e] = "none"
        /\ x1'[e] = x1[e]
        /\ x2'[e] = x2[e]
        /\ x3'[e] = x3[e]
        /\ x5'[e] = x5[e]
        /\ x7'[e] = x7[e]
    BY <1>0, <2>1 DEF ExportTypes
  <2>3. x6' = x6 /\ OnlyExport(e)
    BY <1>0, <2>1 DEF ExportTypes, OnlyExport
  <2>4. ExportTypes'
    <3>1. /\ x1' \in [Files!Exports -> Files!Export \cup {Files!Unborn}]
          /\ x2' \in [Files!Exports -> SUBSET {"input", "file"}]
          /\ x3' \in [Files!Exports -> {"out", "waiting", "active", "completed", "failed"}]
          /\ x4' \in [Files!Exports -> {"none", "put", "enqueue", "fail"}]
          /\ x5' \in [Files!Exports -> SUBSET {"clean", "remove"}]
          /\ x6' \in [Two -> Files!Generating \cup {Files!Free}]
          /\ x7' \in [Files!Exports -> {"no", "delete", "forget"}]
          /\ x8' \subseteq Files!Exports
      BY <1>0, <2>1 DEF ExportTypes
    <3> QED
      BY <3>1 DEF ExportTypes, OnlyExport, Files!Exports, Files!Export, Files!Generating, Files!Free,
         Files!Unborn, Files!Active, Files!Finished
  <2>5. ExportHolds(e)'
    BY <1>1, <1>2, <1>3, <2>1, <2>2, ExportRecords DEF ExportHolds, Files!Is, Files!IsActive,
       Files!IsFinished, Files!Active, Files!Finished, Files!Unborn, Files!Free
  <2>6. /\ Files!Is(e, "file") /\ x1[e].status = "running" =>
             /\ Files!Is(e, "file")' /\ x1'[e].status = "running"
             /\ "file" \in x2[e] => "file" \in x2'[e]
        /\ Files!IsFinished(e) => x1'[e].status = x1[e].status
    BY <1>1, <1>2, <1>3, <2>1, <2>2 DEF ExportHolds, Files!Is, Files!IsActive, Files!IsFinished,
       Files!Active, Files!Finished, Files!Unborn, Files!Free
  <2> QED
    BY <1>4, <2>3, <2>4, <2>5, <2>6
<1>h. CASE Files!Take(e)
  <2>1. /\ x3[e] = "waiting" /\ Files!Is(e, "pdf")
        /\ x3' = [x3 EXCEPT ![e] = IF "input" \in x2[e] THEN "active" ELSE "failed"]
        /\ UNCHANGED <<x1, x2, x4, x5, x6, x7, x8>>
    BY <1>h DEF Files!Take
  <2>2. /\ x3'[e] = (IF "input" \in x2[e] THEN "active" ELSE "failed")
        /\ x1'[e] = x1[e]
        /\ x2'[e] = x2[e]
        /\ x4'[e] = x4[e]
        /\ x5'[e] = x5[e]
        /\ x7'[e] = x7[e]
    BY <1>0, <2>1 DEF ExportTypes
  <2>3. x6' = x6 /\ OnlyExport(e)
    BY <1>0, <2>1 DEF ExportTypes, OnlyExport
  <2>4. ExportTypes'
    <3>1. /\ x1' \in [Files!Exports -> Files!Export \cup {Files!Unborn}]
          /\ x2' \in [Files!Exports -> SUBSET {"input", "file"}]
          /\ x3' \in [Files!Exports -> {"out", "waiting", "active", "completed", "failed"}]
          /\ x4' \in [Files!Exports -> {"none", "put", "enqueue", "fail"}]
          /\ x5' \in [Files!Exports -> SUBSET {"clean", "remove"}]
          /\ x6' \in [Two -> Files!Generating \cup {Files!Free}]
          /\ x7' \in [Files!Exports -> {"no", "delete", "forget"}]
          /\ x8' \subseteq Files!Exports
      BY <1>0, <2>1 DEF ExportTypes
    <3> QED
      BY <3>1 DEF ExportTypes, OnlyExport, Files!Exports, Files!Export, Files!Generating, Files!Free,
         Files!Unborn, Files!Active, Files!Finished
  <2>5. ExportHolds(e)'
    BY <1>1, <1>2, <1>3, <2>1, <2>2, ExportRecords DEF ExportHolds, Files!Is, Files!IsActive,
       Files!IsFinished, Files!Active, Files!Finished, Files!Unborn, Files!Free
  <2>6. /\ Files!Is(e, "file") /\ x1[e].status = "running" =>
             /\ Files!Is(e, "file")' /\ x1'[e].status = "running"
             /\ "file" \in x2[e] => "file" \in x2'[e]
        /\ Files!IsFinished(e) => x1'[e].status = x1[e].status
    BY <1>1, <1>2, <1>3, <2>1, <2>2 DEF ExportHolds, Files!Is, Files!IsActive, Files!IsFinished,
       Files!Active, Files!Finished, Files!Unborn, Files!Free
  <2> QED
    BY <1>4, <2>3, <2>4, <2>5, <2>6
<1>i. CASE Files!Return(e) /\ x3'[e] = "completed"
  <2>1. /\ x3[e] = "active" /\ Files!Is(e, "pdf")
        /\ x2' = [x2 EXCEPT ![e] = x2[e] \cup {"file"}]
        /\ x3' = [x3 EXCEPT ![e] = "completed"]
        /\ UNCHANGED <<x1, x4, x5, x6, x7, x8>>
    BY <1>i, <1>0 DEF Files!Return, ExportTypes
  <2>2. /\ x2'[e] = x2[e] \cup {"file"}
        /\ x3'[e] = "completed"
        /\ x1'[e] = x1[e]
        /\ x4'[e] = x4[e]
        /\ x5'[e] = x5[e]
        /\ x7'[e] = x7[e]
    BY <1>0, <2>1 DEF ExportTypes
  <2>3. x6' = x6 /\ OnlyExport(e)
    BY <1>0, <2>1 DEF ExportTypes, OnlyExport
  <2>4. ExportTypes'
    <3>1. /\ x1' \in [Files!Exports -> Files!Export \cup {Files!Unborn}]
          /\ x2' \in [Files!Exports -> SUBSET {"input", "file"}]
          /\ x3' \in [Files!Exports -> {"out", "waiting", "active", "completed", "failed"}]
          /\ x4' \in [Files!Exports -> {"none", "put", "enqueue", "fail"}]
          /\ x5' \in [Files!Exports -> SUBSET {"clean", "remove"}]
          /\ x6' \in [Two -> Files!Generating \cup {Files!Free}]
          /\ x7' \in [Files!Exports -> {"no", "delete", "forget"}]
          /\ x8' \subseteq Files!Exports
      BY <1>0, <2>1 DEF ExportTypes
    <3> QED
      BY <3>1 DEF ExportTypes, OnlyExport, Files!Exports, Files!Export, Files!Generating, Files!Free,
         Files!Unborn, Files!Active, Files!Finished
  <2>5. ExportHolds(e)'
    BY <1>1, <1>2, <1>3, <2>1, <2>2, ExportRecords DEF ExportHolds, Files!Is, Files!IsActive,
       Files!IsFinished, Files!Active, Files!Finished, Files!Unborn, Files!Free
  <2>6. /\ Files!Is(e, "file") /\ x1[e].status = "running" =>
             /\ Files!Is(e, "file")' /\ x1'[e].status = "running"
             /\ "file" \in x2[e] => "file" \in x2'[e]
        /\ Files!IsFinished(e) => x1'[e].status = x1[e].status
    BY <1>1, <1>2, <1>3, <2>1, <2>2 DEF ExportHolds, Files!Is, Files!IsActive, Files!IsFinished,
       Files!Active, Files!Finished, Files!Unborn, Files!Free
  <2> QED
    BY <1>4, <2>3, <2>4, <2>5, <2>6
<1>j. CASE Files!Return(e) /\ x3'[e] # "completed"
  <2>1. /\ x3[e] = "active" /\ Files!Is(e, "pdf")
        /\ x3' = [x3 EXCEPT ![e] = "failed"]
        /\ UNCHANGED <<x1, x2, x4, x5, x6, x7, x8>>
    BY <1>j, <1>0 DEF Files!Return, ExportTypes
  <2>2. /\ x3'[e] = "failed"
        /\ x1'[e] = x1[e]
        /\ x2'[e] = x2[e]
        /\ x4'[e] = x4[e]
        /\ x5'[e] = x5[e]
        /\ x7'[e] = x7[e]
    BY <1>0, <2>1 DEF ExportTypes
  <2>3. x6' = x6 /\ OnlyExport(e)
    BY <1>0, <2>1 DEF ExportTypes, OnlyExport
  <2>4. ExportTypes'
    <3>1. /\ x1' \in [Files!Exports -> Files!Export \cup {Files!Unborn}]
          /\ x2' \in [Files!Exports -> SUBSET {"input", "file"}]
          /\ x3' \in [Files!Exports -> {"out", "waiting", "active", "completed", "failed"}]
          /\ x4' \in [Files!Exports -> {"none", "put", "enqueue", "fail"}]
          /\ x5' \in [Files!Exports -> SUBSET {"clean", "remove"}]
          /\ x6' \in [Two -> Files!Generating \cup {Files!Free}]
          /\ x7' \in [Files!Exports -> {"no", "delete", "forget"}]
          /\ x8' \subseteq Files!Exports
      BY <1>0, <2>1 DEF ExportTypes
    <3> QED
      BY <3>1 DEF ExportTypes, OnlyExport, Files!Exports, Files!Export, Files!Generating, Files!Free,
         Files!Unborn, Files!Active, Files!Finished
  <2>5. ExportHolds(e)'
    BY <1>1, <1>2, <1>3, <2>1, <2>2, ExportRecords DEF ExportHolds, Files!Is, Files!IsActive,
       Files!IsFinished, Files!Active, Files!Finished, Files!Unborn, Files!Free
  <2>6. /\ Files!Is(e, "file") /\ x1[e].status = "running" =>
             /\ Files!Is(e, "file")' /\ x1'[e].status = "running"
             /\ "file" \in x2[e] => "file" \in x2'[e]
        /\ Files!IsFinished(e) => x1'[e].status = x1[e].status
    BY <1>1, <1>2, <1>3, <2>1, <2>2 DEF ExportHolds, Files!Is, Files!IsActive, Files!IsFinished,
       Files!Active, Files!Finished, Files!Unborn, Files!Free
  <2> QED
    BY <1>4, <2>3, <2>4, <2>5, <2>6
<1>k. CASE Files!MarkRunning(e)
  <2>1. /\ x3[e] \notin {"out", "waiting"} /\ Files!Is(e, "pdf") /\ x1[e].status = "pending"
        /\ x1' = [x1 EXCEPT ![e] = WithStatus(x1[e], "running")]
        /\ UNCHANGED <<x2, x3, x4, x5, x6, x7, x8>>
    BY <1>k DEF Files!MarkRunning, WithStatus
  <2>8. x1[e] \in Files!Export
    BY <1>2, <1>3, <2>1 DEF Files!IsActive, Files!Active, Files!Is
  <2>7. /\ WithStatus(x1[e], "running") \in Files!Export /\ WithStatus(x1[e], "running").status = "running"
        /\ WithStatus(x1[e], "running").format = x1[e].format /\ WithStatus(x1[e], "running").mode = x1[e].mode /\ WithStatus(x1[e], "running").expires = x1[e].expires
    BY <2>8, ExportFields
  <2>2. /\ x1'[e] = WithStatus(x1[e], "running")
        /\ x2'[e] = x2[e]
        /\ x3'[e] = x3[e]
        /\ x4'[e] = x4[e]
        /\ x5'[e] = x5[e]
        /\ x7'[e] = x7[e]
    BY <1>0, <2>1 DEF ExportTypes
  <2>3. x6' = x6 /\ OnlyExport(e)
    BY <1>0, <2>1 DEF ExportTypes, OnlyExport
  <2>4. ExportTypes'
    <3>1. /\ x1' \in [Files!Exports -> Files!Export \cup {Files!Unborn}]
          /\ x2' \in [Files!Exports -> SUBSET {"input", "file"}]
          /\ x3' \in [Files!Exports -> {"out", "waiting", "active", "completed", "failed"}]
          /\ x4' \in [Files!Exports -> {"none", "put", "enqueue", "fail"}]
          /\ x5' \in [Files!Exports -> SUBSET {"clean", "remove"}]
          /\ x6' \in [Two -> Files!Generating \cup {Files!Free}]
          /\ x7' \in [Files!Exports -> {"no", "delete", "forget"}]
          /\ x8' \subseteq Files!Exports
      BY <1>0, <2>1, <2>7, <2>8 DEF ExportTypes
    <3> QED
      BY <3>1 DEF ExportTypes, OnlyExport, Files!Exports, Files!Export, Files!Generating, Files!Free,
         Files!Unborn, Files!Active, Files!Finished
  <2>5. ExportHolds(e)'
    BY <1>1, <1>2, <1>3, <2>1, <2>2, ExportRecords, <2>7, <2>8 DEF ExportHolds, Files!Is, Files!IsActive,
       Files!IsFinished, Files!Active, Files!Finished, Files!Unborn, Files!Free
  <2>6. /\ Files!Is(e, "file") /\ x1[e].status = "running" =>
             /\ Files!Is(e, "file")' /\ x1'[e].status = "running"
             /\ "file" \in x2[e] => "file" \in x2'[e]
        /\ Files!IsFinished(e) => x1'[e].status = x1[e].status
    BY <1>1, <1>2, <1>3, <2>1, <2>2, <2>7, <2>8 DEF ExportHolds, Files!Is, Files!IsActive,
       Files!IsFinished, Files!Active, Files!Finished, Files!Unborn, Files!Free
  <2> QED
    BY <1>4, <2>3, <2>4, <2>5, <2>6
<1>l. CASE Files!Complete(e)
  <2>1. /\ x3[e] = "completed" /\ Files!Is(e, "pdf") /\ Files!IsActive(e)
        /\ x1' = [x1 EXCEPT ![e] = Completed(x1[e])]
        /\ x5' = [x5 EXCEPT ![e] = x5[e] \cup {"clean"}]
        /\ UNCHANGED <<x2, x3, x4, x6, x7, x8>>
    BY <1>l DEF Files!Complete, Files!Returned, Files!CanComplete, Completed, WithStatus, WithKey,
       WithExpiry
  <2>8. x1[e] \in Files!Export
    BY <1>2, <1>3, <2>1 DEF Files!IsActive, Files!Active, Files!Is
  <2>7. /\ Completed(x1[e]) \in Files!Export /\ Completed(x1[e]).status = "done"
        /\ Completed(x1[e]).format = x1[e].format /\ Completed(x1[e]).fileKey = TRUE
        /\ Completed(x1[e]).expires = "later"
    BY <2>8, CompletedFields
  <2>2. /\ x1'[e] = Completed(x1[e])
        /\ x5'[e] = x5[e] \cup {"clean"}
        /\ x2'[e] = x2[e]
        /\ x3'[e] = x3[e]
        /\ x4'[e] = x4[e]
        /\ x7'[e] = x7[e]
    BY <1>0, <2>1 DEF ExportTypes
  <2>3. x6' = x6 /\ OnlyExport(e)
    BY <1>0, <2>1 DEF ExportTypes, OnlyExport
  <2>4. ExportTypes'
    <3>1. /\ x1' \in [Files!Exports -> Files!Export \cup {Files!Unborn}]
          /\ x2' \in [Files!Exports -> SUBSET {"input", "file"}]
          /\ x3' \in [Files!Exports -> {"out", "waiting", "active", "completed", "failed"}]
          /\ x4' \in [Files!Exports -> {"none", "put", "enqueue", "fail"}]
          /\ x5' \in [Files!Exports -> SUBSET {"clean", "remove"}]
          /\ x6' \in [Two -> Files!Generating \cup {Files!Free}]
          /\ x7' \in [Files!Exports -> {"no", "delete", "forget"}]
          /\ x8' \subseteq Files!Exports
      BY <1>0, <2>1, <2>7, <2>8 DEF ExportTypes
    <3> QED
      BY <3>1 DEF ExportTypes, OnlyExport, Files!Exports, Files!Export, Files!Generating, Files!Free,
         Files!Unborn, Files!Active, Files!Finished
  <2>5. ExportHolds(e)'
    BY <1>1, <1>2, <1>3, <2>1, <2>2, ExportRecords, <2>7, <2>8 DEF ExportHolds, Files!Is, Files!IsActive,
       Files!IsFinished, Files!Active, Files!Finished, Files!Unborn, Files!Free
  <2>6. /\ Files!Is(e, "file") /\ x1[e].status = "running" =>
             /\ Files!Is(e, "file")' /\ x1'[e].status = "running"
             /\ "file" \in x2[e] => "file" \in x2'[e]
        /\ Files!IsFinished(e) => x1'[e].status = x1[e].status
    BY <1>1, <1>2, <1>3, <2>1, <2>2, <2>7, <2>8 DEF ExportHolds, Files!Is, Files!IsActive,
       Files!IsFinished, Files!Active, Files!Finished, Files!Unborn, Files!Free
  <2> QED
    BY <1>4, <2>3, <2>4, <2>5, <2>6
<1>m. CASE Files!Fail(e)
  <2>1. /\ Files!Is(e, "pdf") /\ Files!IsActive(e)
        /\ x1' = [x1 EXCEPT ![e] = WithStatus(x1[e], "failed")]
        /\ x5' = [x5 EXCEPT ![e] = x5[e] \cup {"clean"}]
        /\ UNCHANGED <<x2, x3, x4, x6, x7, x8>>
    BY <1>m DEF Files!Fail, Files!FailReport, WithStatus
  <2>8. x1[e] \in Files!Export
    BY <1>2, <1>3, <2>1 DEF Files!IsActive, Files!Active, Files!Is
  <2>7. /\ WithStatus(x1[e], "failed") \in Files!Export /\ WithStatus(x1[e], "failed").status = "failed"
        /\ WithStatus(x1[e], "failed").format = x1[e].format /\ WithStatus(x1[e], "failed").mode = x1[e].mode /\ WithStatus(x1[e], "failed").expires = x1[e].expires
    BY <2>8, ExportFields
  <2>2. /\ x1'[e] = WithStatus(x1[e], "failed")
        /\ x5'[e] = x5[e] \cup {"clean"}
        /\ x2'[e] = x2[e]
        /\ x3'[e] = x3[e]
        /\ x4'[e] = x4[e]
        /\ x7'[e] = x7[e]
    BY <1>0, <2>1 DEF ExportTypes
  <2>3. x6' = x6 /\ OnlyExport(e)
    BY <1>0, <2>1 DEF ExportTypes, OnlyExport
  <2>4. ExportTypes'
    <3>1. /\ x1' \in [Files!Exports -> Files!Export \cup {Files!Unborn}]
          /\ x2' \in [Files!Exports -> SUBSET {"input", "file"}]
          /\ x3' \in [Files!Exports -> {"out", "waiting", "active", "completed", "failed"}]
          /\ x4' \in [Files!Exports -> {"none", "put", "enqueue", "fail"}]
          /\ x5' \in [Files!Exports -> SUBSET {"clean", "remove"}]
          /\ x6' \in [Two -> Files!Generating \cup {Files!Free}]
          /\ x7' \in [Files!Exports -> {"no", "delete", "forget"}]
          /\ x8' \subseteq Files!Exports
      BY <1>0, <2>1, <2>7, <2>8 DEF ExportTypes
    <3> QED
      BY <3>1 DEF ExportTypes, OnlyExport, Files!Exports, Files!Export, Files!Generating, Files!Free,
         Files!Unborn, Files!Active, Files!Finished
  <2>5. ExportHolds(e)'
    BY <1>1, <1>2, <1>3, <2>1, <2>2, ExportRecords, <2>7, <2>8 DEF ExportHolds, Files!Is, Files!IsActive,
       Files!IsFinished, Files!Active, Files!Finished, Files!Unborn, Files!Free
  <2>6. /\ Files!Is(e, "file") /\ x1[e].status = "running" =>
             /\ Files!Is(e, "file")' /\ x1'[e].status = "running"
             /\ "file" \in x2[e] => "file" \in x2'[e]
        /\ Files!IsFinished(e) => x1'[e].status = x1[e].status
    BY <1>1, <1>2, <1>3, <2>1, <2>2, <2>7, <2>8 DEF ExportHolds, Files!Is, Files!IsActive,
       Files!IsFinished, Files!Active, Files!Finished, Files!Unborn, Files!Free
  <2> QED
    BY <1>4, <2>3, <2>4, <2>5, <2>6
<1>n. CASE Files!Timeout(e)
  <2>1. /\ Files!Is(e, "pdf") /\ Files!IsActive(e)
        /\ x1' = [x1 EXCEPT ![e] = WithStatus(x1[e], "failed")]
        /\ x5' = [x5 EXCEPT ![e] = x5[e] \cup {"clean", "remove"}]
        /\ UNCHANGED <<x2, x3, x4, x6, x7, x8>>
    BY <1>n DEF Files!Timeout, Files!TooOld, Files!FailReport, WithStatus
  <2>8. x1[e] \in Files!Export
    BY <1>2, <1>3, <2>1 DEF Files!IsActive, Files!Active, Files!Is
  <2>7. /\ WithStatus(x1[e], "failed") \in Files!Export /\ WithStatus(x1[e], "failed").status = "failed"
        /\ WithStatus(x1[e], "failed").format = x1[e].format /\ WithStatus(x1[e], "failed").mode = x1[e].mode /\ WithStatus(x1[e], "failed").expires = x1[e].expires
    BY <2>8, ExportFields
  <2>2. /\ x1'[e] = WithStatus(x1[e], "failed")
        /\ x5'[e] = x5[e] \cup {"clean", "remove"}
        /\ x2'[e] = x2[e]
        /\ x3'[e] = x3[e]
        /\ x4'[e] = x4[e]
        /\ x7'[e] = x7[e]
    BY <1>0, <2>1 DEF ExportTypes
  <2>3. x6' = x6 /\ OnlyExport(e)
    BY <1>0, <2>1 DEF ExportTypes, OnlyExport
  <2>4. ExportTypes'
    <3>1. /\ x1' \in [Files!Exports -> Files!Export \cup {Files!Unborn}]
          /\ x2' \in [Files!Exports -> SUBSET {"input", "file"}]
          /\ x3' \in [Files!Exports -> {"out", "waiting", "active", "completed", "failed"}]
          /\ x4' \in [Files!Exports -> {"none", "put", "enqueue", "fail"}]
          /\ x5' \in [Files!Exports -> SUBSET {"clean", "remove"}]
          /\ x6' \in [Two -> Files!Generating \cup {Files!Free}]
          /\ x7' \in [Files!Exports -> {"no", "delete", "forget"}]
          /\ x8' \subseteq Files!Exports
      BY <1>0, <2>1, <2>7, <2>8 DEF ExportTypes
    <3> QED
      BY <3>1 DEF ExportTypes, OnlyExport, Files!Exports, Files!Export, Files!Generating, Files!Free,
         Files!Unborn, Files!Active, Files!Finished
  <2>5. ExportHolds(e)'
    BY <1>1, <1>2, <1>3, <2>1, <2>2, ExportRecords, <2>7, <2>8 DEF ExportHolds, Files!Is, Files!IsActive,
       Files!IsFinished, Files!Active, Files!Finished, Files!Unborn, Files!Free
  <2>6. /\ Files!Is(e, "file") /\ x1[e].status = "running" =>
             /\ Files!Is(e, "file")' /\ x1'[e].status = "running"
             /\ "file" \in x2[e] => "file" \in x2'[e]
        /\ Files!IsFinished(e) => x1'[e].status = x1[e].status
    BY <1>1, <1>2, <1>3, <2>1, <2>2, <2>7, <2>8 DEF ExportHolds, Files!Is, Files!IsActive,
       Files!IsFinished, Files!Active, Files!Finished, Files!Unborn, Files!Free
  <2> QED
    BY <1>4, <2>3, <2>4, <2>5, <2>6
<1>o. CASE Files!FailRequest(e) /\ Files!IsActive(e)
  <2>1. /\ x4[e] = "fail" /\ Files!IsActive(e)
        /\ x1' = [x1 EXCEPT ![e] = WithStatus(x1[e], "failed")]
        /\ x4' = [x4 EXCEPT ![e] = "none"]
        /\ x5' = [x5 EXCEPT ![e] = x5[e] \cup {"clean"}]
        /\ UNCHANGED <<x2, x3, x6, x7, x8>>
    BY <1>o DEF Files!FailRequest, Files!FailReport, WithStatus
  <2>8. x1[e] \in Files!Export
    BY <1>2, <1>3, <2>1 DEF Files!IsActive, Files!Active, Files!Is
  <2>7. /\ WithStatus(x1[e], "failed") \in Files!Export /\ WithStatus(x1[e], "failed").status = "failed"
        /\ WithStatus(x1[e], "failed").format = x1[e].format /\ WithStatus(x1[e], "failed").mode = x1[e].mode /\ WithStatus(x1[e], "failed").expires = x1[e].expires
    BY <2>8, ExportFields
  <2>2. /\ x1'[e] = WithStatus(x1[e], "failed")
        /\ x4'[e] = "none"
        /\ x5'[e] = x5[e] \cup {"clean"}
        /\ x2'[e] = x2[e]
        /\ x3'[e] = x3[e]
        /\ x7'[e] = x7[e]
    BY <1>0, <2>1 DEF ExportTypes
  <2>3. x6' = x6 /\ OnlyExport(e)
    BY <1>0, <2>1 DEF ExportTypes, OnlyExport
  <2>4. ExportTypes'
    <3>1. /\ x1' \in [Files!Exports -> Files!Export \cup {Files!Unborn}]
          /\ x2' \in [Files!Exports -> SUBSET {"input", "file"}]
          /\ x3' \in [Files!Exports -> {"out", "waiting", "active", "completed", "failed"}]
          /\ x4' \in [Files!Exports -> {"none", "put", "enqueue", "fail"}]
          /\ x5' \in [Files!Exports -> SUBSET {"clean", "remove"}]
          /\ x6' \in [Two -> Files!Generating \cup {Files!Free}]
          /\ x7' \in [Files!Exports -> {"no", "delete", "forget"}]
          /\ x8' \subseteq Files!Exports
      BY <1>0, <2>1, <2>7, <2>8 DEF ExportTypes
    <3> QED
      BY <3>1 DEF ExportTypes, OnlyExport, Files!Exports, Files!Export, Files!Generating, Files!Free,
         Files!Unborn, Files!Active, Files!Finished
  <2>5. ExportHolds(e)'
    BY <1>1, <1>2, <1>3, <2>1, <2>2, ExportRecords, <2>7, <2>8 DEF ExportHolds, Files!Is, Files!IsActive,
       Files!IsFinished, Files!Active, Files!Finished, Files!Unborn, Files!Free
  <2>6. /\ Files!Is(e, "file") /\ x1[e].status = "running" =>
             /\ Files!Is(e, "file")' /\ x1'[e].status = "running"
             /\ "file" \in x2[e] => "file" \in x2'[e]
        /\ Files!IsFinished(e) => x1'[e].status = x1[e].status
    BY <1>1, <1>2, <1>3, <2>1, <2>2, <2>7, <2>8 DEF ExportHolds, Files!Is, Files!IsActive,
       Files!IsFinished, Files!Active, Files!Finished, Files!Unborn, Files!Free
  <2> QED
    BY <1>4, <2>3, <2>4, <2>5, <2>6
<1>p. CASE Files!FailRequest(e) /\ ~Files!IsActive(e)
  <2>1. /\ x4[e] = "fail" /\ ~Files!IsActive(e)
        /\ x4' = [x4 EXCEPT ![e] = "none"]
        /\ UNCHANGED <<x1, x2, x3, x5, x6, x7, x8>>
    BY <1>p DEF Files!FailRequest, Files!FailReport
  <2>2. /\ x4'[e] = "none"
        /\ x1'[e] = x1[e]
        /\ x2'[e] = x2[e]
        /\ x3'[e] = x3[e]
        /\ x5'[e] = x5[e]
        /\ x7'[e] = x7[e]
    BY <1>0, <2>1 DEF ExportTypes
  <2>3. x6' = x6 /\ OnlyExport(e)
    BY <1>0, <2>1 DEF ExportTypes, OnlyExport
  <2>4. ExportTypes'
    <3>1. /\ x1' \in [Files!Exports -> Files!Export \cup {Files!Unborn}]
          /\ x2' \in [Files!Exports -> SUBSET {"input", "file"}]
          /\ x3' \in [Files!Exports -> {"out", "waiting", "active", "completed", "failed"}]
          /\ x4' \in [Files!Exports -> {"none", "put", "enqueue", "fail"}]
          /\ x5' \in [Files!Exports -> SUBSET {"clean", "remove"}]
          /\ x6' \in [Two -> Files!Generating \cup {Files!Free}]
          /\ x7' \in [Files!Exports -> {"no", "delete", "forget"}]
          /\ x8' \subseteq Files!Exports
      BY <1>0, <2>1 DEF ExportTypes
    <3> QED
      BY <3>1 DEF ExportTypes, OnlyExport, Files!Exports, Files!Export, Files!Generating, Files!Free,
         Files!Unborn, Files!Active, Files!Finished
  <2>5. ExportHolds(e)'
    BY <1>1, <1>2, <1>3, <2>1, <2>2, ExportRecords DEF ExportHolds, Files!Is, Files!IsActive,
       Files!IsFinished, Files!Active, Files!Finished, Files!Unborn, Files!Free
  <2>6. /\ Files!Is(e, "file") /\ x1[e].status = "running" =>
             /\ Files!Is(e, "file")' /\ x1'[e].status = "running"
             /\ "file" \in x2[e] => "file" \in x2'[e]
        /\ Files!IsFinished(e) => x1'[e].status = x1[e].status
    BY <1>1, <1>2, <1>3, <2>1, <2>2 DEF ExportHolds, Files!Is, Files!IsActive, Files!IsFinished,
       Files!Active, Files!Finished, Files!Unborn, Files!Free
  <2> QED
    BY <1>4, <2>3, <2>4, <2>5, <2>6
<1>q. CASE Files!CleanInput(e)
  <2>1. /\ "clean" \in x5[e]
        /\ x2' = [x2 EXCEPT ![e] = x2[e] \ {"input"}]
        /\ x5' = [x5 EXCEPT ![e] = x5[e] \ {"clean"}]
        /\ UNCHANGED <<x1, x3, x4, x6, x7, x8>>
    BY <1>q DEF Files!CleanInput, Files!UnderPrefix
  <2>2. /\ x2'[e] = x2[e] \ {"input"}
        /\ x5'[e] = x5[e] \ {"clean"}
        /\ x1'[e] = x1[e]
        /\ x3'[e] = x3[e]
        /\ x4'[e] = x4[e]
        /\ x7'[e] = x7[e]
    BY <1>0, <2>1 DEF ExportTypes
  <2>3. x6' = x6 /\ OnlyExport(e)
    BY <1>0, <2>1 DEF ExportTypes, OnlyExport
  <2>4. ExportTypes'
    <3>1. /\ x1' \in [Files!Exports -> Files!Export \cup {Files!Unborn}]
          /\ x2' \in [Files!Exports -> SUBSET {"input", "file"}]
          /\ x3' \in [Files!Exports -> {"out", "waiting", "active", "completed", "failed"}]
          /\ x4' \in [Files!Exports -> {"none", "put", "enqueue", "fail"}]
          /\ x5' \in [Files!Exports -> SUBSET {"clean", "remove"}]
          /\ x6' \in [Two -> Files!Generating \cup {Files!Free}]
          /\ x7' \in [Files!Exports -> {"no", "delete", "forget"}]
          /\ x8' \subseteq Files!Exports
      BY <1>0, <2>1 DEF ExportTypes
    <3> QED
      BY <3>1 DEF ExportTypes, OnlyExport, Files!Exports, Files!Export, Files!Generating, Files!Free,
         Files!Unborn, Files!Active, Files!Finished
  <2>5. ExportHolds(e)'
    BY <1>1, <1>2, <1>3, <2>1, <2>2, ExportRecords DEF ExportHolds, Files!Is, Files!IsActive,
       Files!IsFinished, Files!Active, Files!Finished, Files!Unborn, Files!Free
  <2>6. /\ Files!Is(e, "file") /\ x1[e].status = "running" =>
             /\ Files!Is(e, "file")' /\ x1'[e].status = "running"
             /\ "file" \in x2[e] => "file" \in x2'[e]
        /\ Files!IsFinished(e) => x1'[e].status = x1[e].status
    BY <1>1, <1>2, <1>3, <2>1, <2>2 DEF ExportHolds, Files!Is, Files!IsActive, Files!IsFinished,
       Files!Active, Files!Finished, Files!Unborn, Files!Free
  <2> QED
    BY <1>4, <2>3, <2>4, <2>5, <2>6
<1>r. CASE Files!RemoveJob(e)
  <2>1. /\ "remove" \in x5[e]
        /\ x3' = [x3 EXCEPT ![e] = IF x3[e] = "waiting" THEN "out" ELSE x3[e]]
        /\ x5' = [x5 EXCEPT ![e] = x5[e] \ {"remove"}]
        /\ UNCHANGED <<x1, x2, x4, x6, x7, x8>>
    BY <1>r DEF Files!RemoveJob
  <2>2. /\ x3'[e] = (IF x3[e] = "waiting" THEN "out" ELSE x3[e])
        /\ x5'[e] = x5[e] \ {"remove"}
        /\ x1'[e] = x1[e]
        /\ x2'[e] = x2[e]
        /\ x4'[e] = x4[e]
        /\ x7'[e] = x7[e]
    BY <1>0, <2>1 DEF ExportTypes
  <2>3. x6' = x6 /\ OnlyExport(e)
    BY <1>0, <2>1 DEF ExportTypes, OnlyExport
  <2>4. ExportTypes'
    <3>1. /\ x1' \in [Files!Exports -> Files!Export \cup {Files!Unborn}]
          /\ x2' \in [Files!Exports -> SUBSET {"input", "file"}]
          /\ x3' \in [Files!Exports -> {"out", "waiting", "active", "completed", "failed"}]
          /\ x4' \in [Files!Exports -> {"none", "put", "enqueue", "fail"}]
          /\ x5' \in [Files!Exports -> SUBSET {"clean", "remove"}]
          /\ x6' \in [Two -> Files!Generating \cup {Files!Free}]
          /\ x7' \in [Files!Exports -> {"no", "delete", "forget"}]
          /\ x8' \subseteq Files!Exports
      BY <1>0, <2>1 DEF ExportTypes
    <3> QED
      BY <3>1 DEF ExportTypes, OnlyExport, Files!Exports, Files!Export, Files!Generating, Files!Free,
         Files!Unborn, Files!Active, Files!Finished
  <2>5. ExportHolds(e)'
    BY <1>1, <1>2, <1>3, <2>1, <2>2, ExportRecords DEF ExportHolds, Files!Is, Files!IsActive,
       Files!IsFinished, Files!Active, Files!Finished, Files!Unborn, Files!Free
  <2>6. /\ Files!Is(e, "file") /\ x1[e].status = "running" =>
             /\ Files!Is(e, "file")' /\ x1'[e].status = "running"
             /\ "file" \in x2[e] => "file" \in x2'[e]
        /\ Files!IsFinished(e) => x1'[e].status = x1[e].status
    BY <1>1, <1>2, <1>3, <2>1, <2>2 DEF ExportHolds, Files!Is, Files!IsActive, Files!IsFinished,
       Files!Active, Files!Finished, Files!Unborn, Files!Free
  <2> QED
    BY <1>4, <2>3, <2>4, <2>5, <2>6
<1>s. CASE Files!Stall(e)
  <2>1. /\ x3[e] = "active" /\ x3'[e] \in {"waiting", "failed"}
        /\ x3' = [x3 EXCEPT ![e] = x3'[e]]
        /\ UNCHANGED <<x1, x2, x4, x5, x6, x7, x8>>
    BY <1>s, <1>0 DEF Files!Stall, ExportTypes
  <2>2. /\ x3'[e] = x3'[e]
        /\ x1'[e] = x1[e]
        /\ x2'[e] = x2[e]
        /\ x4'[e] = x4[e]
        /\ x5'[e] = x5[e]
        /\ x7'[e] = x7[e]
    BY <1>0, <2>1 DEF ExportTypes
  <2>3. x6' = x6 /\ OnlyExport(e)
    BY <1>0, <2>1 DEF ExportTypes, OnlyExport
  <2>4. ExportTypes'
    <3>1. /\ x1' \in [Files!Exports -> Files!Export \cup {Files!Unborn}]
          /\ x2' \in [Files!Exports -> SUBSET {"input", "file"}]
          /\ x3' \in [Files!Exports -> {"out", "waiting", "active", "completed", "failed"}]
          /\ x4' \in [Files!Exports -> {"none", "put", "enqueue", "fail"}]
          /\ x5' \in [Files!Exports -> SUBSET {"clean", "remove"}]
          /\ x6' \in [Two -> Files!Generating \cup {Files!Free}]
          /\ x7' \in [Files!Exports -> {"no", "delete", "forget"}]
          /\ x8' \subseteq Files!Exports
      BY <1>0, <2>1 DEF ExportTypes
    <3> QED
      BY <3>1 DEF ExportTypes, OnlyExport, Files!Exports, Files!Export, Files!Generating, Files!Free,
         Files!Unborn, Files!Active, Files!Finished
  <2>5. ExportHolds(e)'
    BY <1>1, <1>2, <1>3, <2>1, <2>2, ExportRecords DEF ExportHolds, Files!Is, Files!IsActive,
       Files!IsFinished, Files!Active, Files!Finished, Files!Unborn, Files!Free
  <2>6. /\ Files!Is(e, "file") /\ x1[e].status = "running" =>
             /\ Files!Is(e, "file")' /\ x1'[e].status = "running"
             /\ "file" \in x2[e] => "file" \in x2'[e]
        /\ Files!IsFinished(e) => x1'[e].status = x1[e].status
    BY <1>1, <1>2, <1>3, <2>1, <2>2 DEF ExportHolds, Files!Is, Files!IsActive, Files!IsFinished,
       Files!Active, Files!Finished, Files!Unborn, Files!Free
  <2> QED
    BY <1>4, <2>3, <2>4, <2>5, <2>6
<1>y. CASE Files!ClaimFails(e)
  <2>1. /\ Files!Is(e, "file") /\ x3' = [x3 EXCEPT ![e] = "failed"] /\ x8' = x8 \cup {e}
        /\ UNCHANGED <<x1, x2, x4, x5, x6, x7>>
    BY <1>y DEF Files!ClaimFails
  <2>2. /\ x3'[e] = "failed" /\ e \in x8'
        /\ x1'[e] = x1[e]
        /\ x2'[e] = x2[e]
        /\ x4'[e] = x4[e]
        /\ x5'[e] = x5[e]
        /\ x7'[e] = x7[e]
    BY <1>0, <2>1 DEF ExportTypes
  <2>3. x6' = x6 /\ OnlyExport(e)
    BY <1>0, <2>1 DEF ExportTypes, OnlyExport
  <2>4. ExportTypes'
    <3>1. /\ x1' \in [Files!Exports -> Files!Export \cup {Files!Unborn}]
          /\ x2' \in [Files!Exports -> SUBSET {"input", "file"}]
          /\ x3' \in [Files!Exports -> {"out", "waiting", "active", "completed", "failed"}]
          /\ x4' \in [Files!Exports -> {"none", "put", "enqueue", "fail"}]
          /\ x5' \in [Files!Exports -> SUBSET {"clean", "remove"}]
          /\ x6' \in [Two -> Files!Generating \cup {Files!Free}]
          /\ x7' \in [Files!Exports -> {"no", "delete", "forget"}]
          /\ x8' \subseteq Files!Exports
      BY <1>0, <2>1 DEF ExportTypes
    <3> QED
      BY <3>1 DEF ExportTypes, OnlyExport, Files!Exports, Files!Export, Files!Generating, Files!Free,
         Files!Unborn, Files!Active, Files!Finished
  <2>5. ExportHolds(e)'
    BY <1>1, <1>2, <1>3, <2>1, <2>2, ExportRecords DEF ExportHolds, Files!Is, Files!IsActive,
       Files!IsFinished, Files!Active, Files!Finished, Files!Unborn, Files!Free
  <2>6. /\ Files!Is(e, "file") /\ x1[e].status = "running" =>
             /\ Files!Is(e, "file")' /\ x1'[e].status = "running"
             /\ "file" \in x2[e] => "file" \in x2'[e]
        /\ Files!IsFinished(e) => x1'[e].status = x1[e].status
    BY <1>1, <1>2, <1>3, <2>1, <2>2 DEF ExportHolds, Files!Is, Files!IsActive, Files!IsFinished,
       Files!Active, Files!Finished, Files!Unborn, Files!Free
  <2> QED
    BY <1>4, <2>3, <2>4, <2>5, <2>6
<1>t. CASE Files!Expire(e)
  <2>1. /\ x1[e] # Files!Unborn /\ x1[e].expires = "later"
        /\ x1' = [x1 EXCEPT ![e] = WithExpiry(x1[e], "past")]
        /\ UNCHANGED <<x2, x3, x4, x5, x6, x7, x8>>
    BY <1>t DEF Files!Expire, WithExpiry
  <2>8. x1[e] \in Files!Export
    BY <1>2, <1>3, <2>1 DEF Files!IsActive, Files!Active, Files!Is
  <2>7. /\ WithExpiry(x1[e], "past") \in Files!Export /\ WithExpiry(x1[e], "past").status = x1[e].status
        /\ WithExpiry(x1[e], "past").format = x1[e].format /\ WithExpiry(x1[e], "past").mode = x1[e].mode /\ WithExpiry(x1[e], "past").expires = "past"
    BY <2>8, ExportFields
  <2>2. /\ x1'[e] = WithExpiry(x1[e], "past")
        /\ x2'[e] = x2[e]
        /\ x3'[e] = x3[e]
        /\ x4'[e] = x4[e]
        /\ x5'[e] = x5[e]
        /\ x7'[e] = x7[e]
    BY <1>0, <2>1 DEF ExportTypes
  <2>3. x6' = x6 /\ OnlyExport(e)
    BY <1>0, <2>1 DEF ExportTypes, OnlyExport
  <2>4. ExportTypes'
    <3>1. /\ x1' \in [Files!Exports -> Files!Export \cup {Files!Unborn}]
          /\ x2' \in [Files!Exports -> SUBSET {"input", "file"}]
          /\ x3' \in [Files!Exports -> {"out", "waiting", "active", "completed", "failed"}]
          /\ x4' \in [Files!Exports -> {"none", "put", "enqueue", "fail"}]
          /\ x5' \in [Files!Exports -> SUBSET {"clean", "remove"}]
          /\ x6' \in [Two -> Files!Generating \cup {Files!Free}]
          /\ x7' \in [Files!Exports -> {"no", "delete", "forget"}]
          /\ x8' \subseteq Files!Exports
      BY <1>0, <2>1, <2>7, <2>8 DEF ExportTypes
    <3> QED
      BY <3>1 DEF ExportTypes, OnlyExport, Files!Exports, Files!Export, Files!Generating, Files!Free,
         Files!Unborn, Files!Active, Files!Finished
  <2>5. ExportHolds(e)'
    BY <1>1, <1>2, <1>3, <2>1, <2>2, ExportRecords, <2>7, <2>8 DEF ExportHolds, Files!Is, Files!IsActive,
       Files!IsFinished, Files!Active, Files!Finished, Files!Unborn, Files!Free
  <2>6. /\ Files!Is(e, "file") /\ x1[e].status = "running" =>
             /\ Files!Is(e, "file")' /\ x1'[e].status = "running"
             /\ "file" \in x2[e] => "file" \in x2'[e]
        /\ Files!IsFinished(e) => x1'[e].status = x1[e].status
    BY <1>1, <1>2, <1>3, <2>1, <2>2, <2>7, <2>8 DEF ExportHolds, Files!Is, Files!IsActive,
       Files!IsFinished, Files!Active, Files!Finished, Files!Unborn, Files!Free
  <2> QED
    BY <1>4, <2>3, <2>4, <2>5, <2>6
<1>u. CASE Files!FindExpired(e)
  <2>1. /\ x1[e] # Files!Unborn /\ x1[e].expires = "past"
        /\ x7' = [x7 EXCEPT ![e] = "delete"]
        /\ UNCHANGED <<x1, x2, x3, x4, x5, x6, x8>>
    BY <1>u DEF Files!FindExpired, Files!IsExpired
  <2>2. /\ x7'[e] = "delete"
        /\ x1'[e] = x1[e]
        /\ x2'[e] = x2[e]
        /\ x3'[e] = x3[e]
        /\ x4'[e] = x4[e]
        /\ x5'[e] = x5[e]
    BY <1>0, <2>1 DEF ExportTypes
  <2>3. x6' = x6 /\ OnlyExport(e)
    BY <1>0, <2>1 DEF ExportTypes, OnlyExport
  <2>4. ExportTypes'
    <3>1. /\ x1' \in [Files!Exports -> Files!Export \cup {Files!Unborn}]
          /\ x2' \in [Files!Exports -> SUBSET {"input", "file"}]
          /\ x3' \in [Files!Exports -> {"out", "waiting", "active", "completed", "failed"}]
          /\ x4' \in [Files!Exports -> {"none", "put", "enqueue", "fail"}]
          /\ x5' \in [Files!Exports -> SUBSET {"clean", "remove"}]
          /\ x6' \in [Two -> Files!Generating \cup {Files!Free}]
          /\ x7' \in [Files!Exports -> {"no", "delete", "forget"}]
          /\ x8' \subseteq Files!Exports
      BY <1>0, <2>1 DEF ExportTypes
    <3> QED
      BY <3>1 DEF ExportTypes, OnlyExport, Files!Exports, Files!Export, Files!Generating, Files!Free,
         Files!Unborn, Files!Active, Files!Finished
  <2>5. ExportHolds(e)'
    BY <1>1, <1>2, <1>3, <2>1, <2>2, ExportRecords DEF ExportHolds, Files!Is, Files!IsActive,
       Files!IsFinished, Files!Active, Files!Finished, Files!Unborn, Files!Free
  <2>6. /\ Files!Is(e, "file") /\ x1[e].status = "running" =>
             /\ Files!Is(e, "file")' /\ x1'[e].status = "running"
             /\ "file" \in x2[e] => "file" \in x2'[e]
        /\ Files!IsFinished(e) => x1'[e].status = x1[e].status
    BY <1>1, <1>2, <1>3, <2>1, <2>2 DEF ExportHolds, Files!Is, Files!IsActive, Files!IsFinished,
       Files!Active, Files!Finished, Files!Unborn, Files!Free
  <2> QED
    BY <1>4, <2>3, <2>4, <2>5, <2>6
<1>v. CASE Files!DeleteFile(e)
  <2>1. /\ x7[e] = "delete"
        /\ x2' = [x2 EXCEPT ![e] = x2[e] \ {"file"}]
        /\ x7' = [x7 EXCEPT ![e] = "forget"]
        /\ UNCHANGED <<x1, x3, x4, x5, x6, x8>>
    BY <1>v DEF Files!DeleteFile
  <2>2. /\ x2'[e] = x2[e] \ {"file"}
        /\ x7'[e] = "forget"
        /\ x1'[e] = x1[e]
        /\ x3'[e] = x3[e]
        /\ x4'[e] = x4[e]
        /\ x5'[e] = x5[e]
    BY <1>0, <2>1 DEF ExportTypes
  <2>3. x6' = x6 /\ OnlyExport(e)
    BY <1>0, <2>1 DEF ExportTypes, OnlyExport
  <2>4. ExportTypes'
    <3>1. /\ x1' \in [Files!Exports -> Files!Export \cup {Files!Unborn}]
          /\ x2' \in [Files!Exports -> SUBSET {"input", "file"}]
          /\ x3' \in [Files!Exports -> {"out", "waiting", "active", "completed", "failed"}]
          /\ x4' \in [Files!Exports -> {"none", "put", "enqueue", "fail"}]
          /\ x5' \in [Files!Exports -> SUBSET {"clean", "remove"}]
          /\ x6' \in [Two -> Files!Generating \cup {Files!Free}]
          /\ x7' \in [Files!Exports -> {"no", "delete", "forget"}]
          /\ x8' \subseteq Files!Exports
      BY <1>0, <2>1 DEF ExportTypes
    <3> QED
      BY <3>1 DEF ExportTypes, OnlyExport, Files!Exports, Files!Export, Files!Generating, Files!Free,
         Files!Unborn, Files!Active, Files!Finished
  <2>5. ExportHolds(e)'
    BY <1>1, <1>2, <1>3, <2>1, <2>2, ExportRecords DEF ExportHolds, Files!Is, Files!IsActive,
       Files!IsFinished, Files!Active, Files!Finished, Files!Unborn, Files!Free
  <2>6. /\ Files!Is(e, "file") /\ x1[e].status = "running" =>
             /\ Files!Is(e, "file")' /\ x1'[e].status = "running"
             /\ "file" \in x2[e] => "file" \in x2'[e]
        /\ Files!IsFinished(e) => x1'[e].status = x1[e].status
    BY <1>1, <1>2, <1>3, <2>1, <2>2 DEF ExportHolds, Files!Is, Files!IsActive, Files!IsFinished,
       Files!Active, Files!Finished, Files!Unborn, Files!Free
  <2> QED
    BY <1>4, <2>3, <2>4, <2>5, <2>6
<1>w. CASE Files!ForgetFile(e)
  <2>1. /\ x7[e] = "forget" /\ x1[e] # Files!Unborn
        /\ x1' = [x1 EXCEPT ![e] = WithKey(x1[e], FALSE)]
        /\ x7' = [x7 EXCEPT ![e] = "no"]
        /\ UNCHANGED <<x2, x3, x4, x5, x6, x8>>
    BY <1>w, <1>1 DEF Files!ForgetFile, WithKey, ExportHolds
  <2>8. x1[e] \in Files!Export
    BY <1>2, <1>3, <2>1 DEF Files!IsActive, Files!Active, Files!Is
  <2>7. /\ WithKey(x1[e], FALSE) \in Files!Export /\ WithKey(x1[e], FALSE).status = x1[e].status
        /\ WithKey(x1[e], FALSE).format = x1[e].format /\ WithKey(x1[e], FALSE).mode = x1[e].mode /\ WithKey(x1[e], FALSE).expires = x1[e].expires
    BY <2>8, ExportFields
  <2>2. /\ x1'[e] = WithKey(x1[e], FALSE)
        /\ x7'[e] = "no"
        /\ x2'[e] = x2[e]
        /\ x3'[e] = x3[e]
        /\ x4'[e] = x4[e]
        /\ x5'[e] = x5[e]
    BY <1>0, <2>1 DEF ExportTypes
  <2>3. x6' = x6 /\ OnlyExport(e)
    BY <1>0, <2>1 DEF ExportTypes, OnlyExport
  <2>4. ExportTypes'
    <3>1. /\ x1' \in [Files!Exports -> Files!Export \cup {Files!Unborn}]
          /\ x2' \in [Files!Exports -> SUBSET {"input", "file"}]
          /\ x3' \in [Files!Exports -> {"out", "waiting", "active", "completed", "failed"}]
          /\ x4' \in [Files!Exports -> {"none", "put", "enqueue", "fail"}]
          /\ x5' \in [Files!Exports -> SUBSET {"clean", "remove"}]
          /\ x6' \in [Two -> Files!Generating \cup {Files!Free}]
          /\ x7' \in [Files!Exports -> {"no", "delete", "forget"}]
          /\ x8' \subseteq Files!Exports
      BY <1>0, <2>1, <2>7, <2>8 DEF ExportTypes
    <3> QED
      BY <3>1 DEF ExportTypes, OnlyExport, Files!Exports, Files!Export, Files!Generating, Files!Free,
         Files!Unborn, Files!Active, Files!Finished
  <2>5. ExportHolds(e)'
    <3>1. x1'[e] \in Files!Export /\ x1'[e] # Files!Unborn /\ x1[e] # Files!Unborn
      BY <2>1, <2>2, <2>7, ExportRecords
    <3>2. /\ x1'[e].status = x1[e].status /\ x1'[e].format = x1[e].format
          /\ x1'[e].mode = x1[e].mode /\ x1'[e].expires = x1[e].expires
      BY <2>2, <2>7
    <3>3. x1[e].expires # "later" /\ ~Files!IsActive(e)
      BY <1>1, <1>2, <2>1 DEF ExportHolds
    <3>4. ~Files!IsActive(e)' /\ (Files!IsFinished(e) => Files!IsFinished(e)')
          /\ (Files!Is(e, "pdf")' <=> Files!Is(e, "pdf"))
      BY <3>1, <3>2, <3>3 DEF Files!IsActive, Files!IsFinished, Files!Is
    <3>5. x1'[e].status \notin {"running", "pending"}
      BY <3>4 DEF Files!IsActive, Files!Active
    <3> QED
      BY <1>1, <1>2, <2>2, <3>1, <3>2, <3>3, <3>4, <3>5 DEF ExportHolds
  <2>6. /\ Files!Is(e, "file") /\ x1[e].status = "running" =>
             /\ Files!Is(e, "file")' /\ x1'[e].status = "running"
             /\ "file" \in x2[e] => "file" \in x2'[e]
        /\ Files!IsFinished(e) => x1'[e].status = x1[e].status
    BY <1>1, <1>2, <1>3, <2>1, <2>2, <2>7, <2>8 DEF ExportHolds, Files!Is, Files!IsActive,
       Files!IsFinished, Files!Active, Files!Finished, Files!Unborn, Files!Free
  <2> QED
    BY <1>4, <2>3, <2>4, <2>5, <2>6
<1> QED
  BY <1>b, <1>c, <1>d, <1>e, <1>f, <1>g, <1>h, <1>i, <1>j, <1>k, <1>l, <1>m, <1>n, <1>o, <1>p, <1>q, <1>r,
     <1>s, <1>t, <1>u, <1>v, <1>w, <1>y

\* A step of the worker w with the export e.
LEMMA WithWorker ==
  ASSUME ExportsInv, NEW e \in Files!Exports, NEW w \in Two, OnlyExport(e), Files!TypeOK', ExportHolds(e)',
         x6[w] # Files!Free => x6[w].export = e,
         \A v \in Two \ {w} : x6'[v] = x6[v] /\ (x6[v] # Files!Free => x6[v].export # e),
         x6'[w] # Files!Free =>
           /\ x6'[w].export = e /\ Files!Is(e, "file")' /\ x1'[e].status = "running"
           /\ x6'[w].pc = "finish" => "file" \in x2'[e]
  PROVE  ExportsInv'
<1>1. ASSUME NEW f \in Files!Exports, f # e PROVE ExportHolds(f)'
  <2>1. /\ x1'[f] = x1[f] /\ x2'[f] = x2[f] /\ x3'[f] = x3[f]
        /\ x4'[f] = x4[f] /\ x5'[f] = x5[f] /\ x7'[f] = x7[f]
        /\ f \in x8 => f \in x8'
    BY <1>1 DEF OnlyExport
  <2>2. ExportHolds(f)
    BY DEF ExportsInv
  <2>3. (\E v \in Two : x6[v] # Files!Free /\ x6[v].export = f) =>
          \E v \in Two : x6'[v] # Files!Free /\ x6'[v].export = f
    BY <1>1
  <2> QED
    BY <2>1, <2>2, <2>3 DEF ExportHolds, Files!Is, Files!IsActive, Files!IsFinished, Files!Active,
       Files!Finished,
       Files!Unborn, Files!Free
<1>2. \A v \in Two : x6[v] # Files!Free => x6[v].export \in Files!Exports
  BY ExportRecords DEF ExportsInv, Files!TypeOK
<1>3. WorkersHold'
  <2>1. WorkersHold
    BY DEF ExportsInv
  <2>2. ASSUME NEW v \in Two, x6'[v] # Files!Free
        PROVE  /\ Files!Is(x6[v].export, "file")' /\ x1'[x6'[v].export].status = "running"
               /\ x6'[v].pc = "finish" => "file" \in x2'[x6'[v].export]
    <3>1. CASE v = w
      BY <2>2, <3>1 DEF Files!Is, Files!Unborn
    <3>2. CASE v # w
      <4>1. x6'[v] = x6[v] /\ x6[v] # Files!Free /\ x6[v].export # e /\ x6[v].export \in Files!Exports
        BY <1>2, <2>2, <3>2
      <4>2. x1'[x6[v].export] = x1[x6[v].export] /\ x2'[x6[v].export] = x2[x6[v].export]
        BY <4>1 DEF OnlyExport
      <4> QED
        BY <2>1, <4>1, <4>2 DEF WorkersHold, Files!Is, Files!Unborn
    <3> QED
      BY <3>1, <3>2
  <2>3. ASSUME NEW u \in Two, NEW v \in Two, x6'[u] # Files!Free, x6'[v] # Files!Free, x6'[u].export = x6'[v].export
        PROVE  u = v
    BY <2>1, <2>3 DEF WorkersHold
  <2> QED
    BY <2>2, <2>3 DEF WorkersHold, Files!Is, Files!Free, Files!Unborn
<1> QED
  BY <1>1, <1>3 DEF ExportsInv, Files!Exports

\* A step of a worker keeps the invariant, and what ended as it ended.
LEMMA WorkerSteps ==
  ASSUME ExportsInv, NEW w \in Two,
         \/ \E e \in Files!Exports : Files!Generate(w, e)
         \/ Files!Store(w) \/ Files!Finish(w) \/ Files!GenerateFails(w)
         \/ Files!FailureFails(w) \/ Files!Die(w)
  PROVE  /\ ExportsInv'
         /\ \A f \in Files!Exports : Files!IsFinished(f) => x1'[f].status = x1[f].status
<1>0. ExportTypes
  BY DEF ExportsInv, Files!TypeOK, ExportTypes
<1>1. (\A e \in Files!Exports : ExportHolds(e)) /\ WorkersHold
  BY DEF ExportsInv
<1>2. \A e \in Files!Exports : x1[e] = Files!Unborn \/ x1[e] \in Files!Export
  BY <1>0 DEF ExportTypes
<1>3. Files!Unborn.status = "none" /\ \A r \in Files!Export : r # Files!Unborn
  BY ExportRecords
<1>4. ASSUME NEW e \in Files!Exports, OnlyExport(e), ExportTypes', ExportHolds(e)',
             x6[w] # Files!Free => x6[w].export = e,
             \A v \in Two \ {w} : x6'[v] = x6[v] /\ (x6[v] # Files!Free => x6[v].export # e),
             x6'[w] # Files!Free =>
               /\ x6'[w].export = e /\ Files!Is(e, "file")' /\ x1'[e].status = "running"
               /\ x6'[w].pc = "finish" => "file" \in x2'[e],
             Files!IsFinished(e) => x1'[e].status = x1[e].status
      PROVE  /\ ExportsInv'
             /\ \A f \in Files!Exports : Files!IsFinished(f) => x1'[f].status = x1[f].status
  <2>1. Files!TypeOK'
    BY <1>4 DEF ExportTypes, Files!TypeOK, Files!Exports, Files!Export, Files!Generating, Files!Free,
       Files!Unborn, Files!Active, Files!Finished
  <2>2. ExportsInv'
    BY <1>4, <2>1, WithWorker
  <2>3. \A f \in Files!Exports : Files!IsFinished(f) => x1'[f].status = x1[f].status
    BY <1>4 DEF OnlyExport
  <2> QED
    BY <2>2, <2>3
<1>5. Files!Free.pc = "free" /\ (\A g \in Files!Generating : g # Files!Free) /\ Files!Free \notin Files!Generating
  BY ExportRecords
<1>6. CASE x6[w] = Files!Free
  <2>1. PICK e \in Files!Exports : Files!Generate(w, e)
    BY <1>5, <1>6 DEF Files!Store, Files!Finish, Files!GenerateFails, Files!FailureFails, Files!Die
  <2>2. x3[e] = "waiting" /\ Files!Is(e, "file") /\ UNCHANGED <<x2, x4, x5, x7, x8>>
    BY <2>1 DEF Files!Generate
  <2>3. CASE x1[e].status = "pending"
    <3> DEFINE g == [pc |-> "render", export |-> e]
    <3>1. /\ x1' = [x1 EXCEPT ![e] = WithStatus(x1[e], "running")]
          /\ x6' = [x6 EXCEPT ![w] = g]
          /\ x3' = [x3 EXCEPT ![e] = "active"]
      BY <2>1, <2>3 DEF Files!Generate, Files!CanGenerate, WithStatus
    <3>2. g \in Files!Generating /\ g.pc = "render" /\ g.export = e
      BY DEF Files!Generating
    <3> HIDE DEF g
    <3>3. x1[e] \in Files!Export
      BY <1>2, <2>2 DEF Files!Is
    <3>4. /\ WithStatus(x1[e], "running") \in Files!Export /\ WithStatus(x1[e], "running").status = "running"
          /\ WithStatus(x1[e], "running").format = x1[e].format
          /\ WithStatus(x1[e], "running").expires = x1[e].expires
      BY <3>3, ExportFields
    <3>5. /\ x1'[e] = WithStatus(x1[e], "running") /\ x2'[e] = x2[e] /\ x3'[e] = "active"
          /\ x4'[e] = x4[e] /\ x5'[e] = x5[e] /\ x7'[e] = x7[e] /\ x6'[w] = g
      BY <1>0, <2>2, <3>1 DEF ExportTypes
    <3>6. OnlyExport(e)
      BY <1>0, <2>2, <3>1 DEF ExportTypes, OnlyExport
    <3>7. /\ x1' \in [Files!Exports -> Files!Export \cup {Files!Unborn}]
          /\ x2' = x2 /\ x3' \in [Files!Exports -> {"out", "waiting", "active", "completed", "failed"}]
          /\ x4' = x4 /\ x5' = x5 /\ x6' \in [Two -> Files!Generating \cup {Files!Free}]
          /\ x7' = x7 /\ x8' = x8
      BY <1>0, <2>2, <3>1, <3>2, <3>4 DEF ExportTypes
    <3>8. ExportTypes'
      BY <1>0, <3>7 DEF ExportTypes, Files!Exports, Files!Export, Files!Generating, Files!Free,
         Files!Unborn,
         Files!Active, Files!Finished
    <3>9. \A v \in Two \ {w} : x6'[v] = x6[v] /\ (x6[v] # Files!Free => x6[v].export # e)
      BY <1>0, <1>1, <2>3, <3>1 DEF ExportTypes, WorkersHold
    <3>10. Files!Is(e, "file")' /\ x1'[e].status = "running"
      BY <1>3, <2>2, <3>4, <3>5 DEF Files!Is, Files!Unborn
    <3>11. ExportHolds(e)'
      <4>1. \E v \in Two : x6'[v] # Files!Free /\ x6'[v].export = e
        BY <1>5, <3>2, <3>5
      <4>2. ExportHolds(e)
        BY <1>1
      <4> QED
        BY <1>3, <2>2, <2>3, <3>3, <3>4, <3>5, <3>10, <4>1, <4>2, ExportRecords
        DEF ExportHolds, Files!Is, Files!IsActive, Files!IsFinished, Files!Active, Files!Finished, Files!Unborn,
            Files!Free
    <3>12. Files!IsFinished(e) => x1'[e].status = x1[e].status
      BY <2>3 DEF Files!IsFinished, Files!Finished
    <3> QED
      BY <1>4, <1>6, <3>2, <3>5, <3>6, <3>8, <3>9, <3>10, <3>11, <3>12
  <2>4. CASE x1[e].status # "pending"
    <3>1. x1' = x1 /\ x6' = x6 /\ x3' = [x3 EXCEPT ![e] = "completed"]
      BY <2>1, <2>4 DEF Files!Generate, Files!CanGenerate
    <3>2. x3'[e] = "completed" /\ OnlyExport(e)
      BY <1>0, <2>2, <3>1 DEF ExportTypes, OnlyExport
    <3>3. x3' \in [Files!Exports -> {"out", "waiting", "active", "completed", "failed"}]
      BY <1>0, <3>1 DEF ExportTypes
    <3>4. Files!TypeOK'
      BY <1>0, <2>2, <3>1, <3>3 DEF ExportTypes, Files!TypeOK, Files!Exports, Files!Export,
         Files!Generating,
         Files!Free, Files!Unborn, Files!Active, Files!Finished
    <3>5. ExportHolds(e)'
      <4>1. ExportHolds(e) /\ x1[e].format = "file"
        BY <1>1, <2>2 DEF Files!Is
      <4> QED
        BY <2>2, <2>4, <3>1, <3>2, <4>1 DEF ExportHolds, Files!Is, Files!IsActive, Files!IsFinished,
           Files!Active,
           Files!Finished, Files!Unborn, Files!Free
    <3>6. Files!Is(e, "file") /\ x1[e].status = "running" =>
            /\ Files!Is(e, "file")' /\ x1'[e].status = "running"
            /\ "file" \in x2[e] => "file" \in x2'[e]
      BY <2>2, <3>1 DEF Files!Is, Files!Unborn
    <3>7. ExportsInv'
      BY <3>1, <3>2, <3>4, <3>5, <3>6, WithoutWorkers
    <3> QED
      BY <3>1, <3>7
  <2> QED
    BY <2>3, <2>4
<1>7. CASE x6[w] # Files!Free
  <2>7. x6[w] \in Files!Generating
    BY <1>0, <1>7 DEF ExportTypes
  <2>8. PICK e \in Files!Exports : e = x6[w].export
    BY <2>7, ExportRecords
  <2>1. x6[w] \in Files!Generating /\ e \in Files!Exports /\ x6[w].pc \in {"render", "finish"}
    BY <2>7, ExportRecords
  <2>2. /\ Files!Is(e, "file") /\ x1[e].status = "running"
        /\ x6[w].pc = "finish" => "file" \in x2[e]
        /\ \A v \in Two \ {w} : x6[v] # Files!Free => x6[v].export # e
    BY <1>1, <1>7, <2>8 DEF WorkersHold
  <2>3. x1[e] \in Files!Export /\ ExportHolds(e) /\ ~Files!IsFinished(e) /\ x1[e].format = "file"
    BY <1>1, <1>2, <2>1, <2>2 DEF Files!Is, Files!IsFinished, Files!Finished
  <2>4. CASE Files!Store(w)
    <3> DEFINE g == [x6[w] EXCEPT !.pc = "finish"]
    <3>1. /\ x2' = [x2 EXCEPT ![e] = x2[e] \cup {"file"}] /\ x6' = [x6 EXCEPT ![w] = g]
          /\ UNCHANGED <<x1, x3, x4, x5, x7, x8>>
      BY <2>4, <2>8 DEF Files!Store
    <3>2. g \in Files!Generating /\ g.pc = "finish" /\ g.export = e
      BY <2>1, <2>8 DEF Files!Generating
    <3> HIDE DEF g
    <3>3. x2'[e] = x2[e] \cup {"file"} /\ x6'[w] = g
      BY <1>0, <2>1, <3>1 DEF ExportTypes
    <3>4. OnlyExport(e)
      BY <1>0, <3>1 DEF ExportTypes, OnlyExport
    <3>5. x2' \in [Files!Exports -> SUBSET {"input", "file"}] /\ x6' \in [Two -> Files!Generating \cup {Files!Free}]
      BY <1>0, <3>1, <3>2 DEF ExportTypes
    <3>6. ExportTypes'
      BY <1>0, <3>1, <3>5 DEF ExportTypes, Files!Exports, Files!Export, Files!Generating, Files!Free,
         Files!Unborn,
         Files!Active, Files!Finished
    <3>7. \A v \in Two \ {w} : x6'[v] = x6[v]
      BY <1>0, <3>1 DEF ExportTypes
    <3>8. Files!Is(e, "file")' /\ x1'[e].status = "running" /\ "file" \in x2'[e]
      BY <2>2, <3>1, <3>3 DEF Files!Is, Files!Unborn
    <3>9. \E v \in Two : x6'[v] # Files!Free /\ x6'[v].export = e
      BY <1>5, <3>2, <3>3
    <3>10. ExportHolds(e)'
      BY <2>2, <2>3, <3>1, <3>3, <3>9 DEF ExportHolds, Files!Is, Files!IsActive, Files!IsFinished,
         Files!Active,
         Files!Finished, Files!Unborn, Files!Free
    <3> QED
      BY <1>4, <2>1, <2>2, <2>3, <3>2, <3>3, <3>4, <3>6, <3>7, <3>8, <3>10, <2>8
  <2>5. CASE Files!Finish(w) \/ Files!GenerateFails(w)
    <3>1. PICK r \in Files!Export :
            /\ x1' = [x1 EXCEPT ![e] = r] /\ r.format = "file"
            /\ \/ r.status = "done" /\ r.expires = "later" /\ r.fileKey /\ "file" \in x2[e]
               \/ r.status = "failed" /\ r.expires = x1[e].expires
      <4>1. CASE Files!Finish(w)
        <5>1. x1' = [x1 EXCEPT ![e] = Completed(x1[e])]
          BY <4>1, <2>8 DEF Files!Finish, Completed, WithStatus, WithKey, WithExpiry
        <5>2. "file" \in x2[e]
          BY <2>2, <4>1 DEF Files!Finish
        <5> QED
          BY <2>3, <5>1, <5>2, CompletedFields
      <4>2. CASE Files!GenerateFails(w)
        <5>1. x1' = [x1 EXCEPT ![e] = WithStatus(x1[e], "failed")]
          BY <4>2, <2>8 DEF Files!GenerateFails, Files!FailedStatus, WithStatus
        <5>2. /\ WithStatus(x1[e], "failed") \in Files!Export /\ WithStatus(x1[e], "failed").status = "failed"
              /\ WithStatus(x1[e], "failed").format = x1[e].format
              /\ WithStatus(x1[e], "failed").expires = x1[e].expires
          BY <2>3, ExportFields
        <5> QED
          BY <2>3, <5>1, <5>2
      <4> QED
        BY <2>5, <4>1, <4>2
    <3>2. /\ x3' = [x3 EXCEPT ![e] = IF x3[e] = "active" THEN "completed" ELSE x3[e]]
          /\ x6' = [x6 EXCEPT ![w] = Files!Free] /\ UNCHANGED <<x2, x4, x5, x7, x8>>
      BY <2>5, <2>8 DEF Files!Finish, Files!GenerateFails
    <3>3. x1'[e] = r /\ x3'[e] = (IF x3[e] = "active" THEN "completed" ELSE x3[e]) /\ x6'[w] = Files!Free
      BY <1>0, <2>1, <3>1, <3>2 DEF ExportTypes
    <3>4. OnlyExport(e)
      BY <1>0, <3>1, <3>2 DEF ExportTypes, OnlyExport
    <3>5. /\ x1' \in [Files!Exports -> Files!Export \cup {Files!Unborn}]
          /\ x3' \in [Files!Exports -> {"out", "waiting", "active", "completed", "failed"}]
          /\ x6' \in [Two -> Files!Generating \cup {Files!Free}]
      BY <1>0, <2>1, <3>1, <3>2 DEF ExportTypes
    <3>6. ExportTypes'
      BY <1>0, <3>2, <3>5 DEF ExportTypes, Files!Exports, Files!Export, Files!Generating, Files!Free,
         Files!Unborn,
         Files!Active, Files!Finished
    <3>7. \A v \in Two \ {w} : x6'[v] = x6[v]
      BY <1>0, <3>2 DEF ExportTypes
    <3>8. ExportHolds(e)'
      <4>1. r # Files!Unborn
        BY ExportRecords
      <4>2. x1[e].expires = "never" /\ x7[e] = "no"
        BY <2>2, <2>3 DEF ExportHolds, Files!IsActive, Files!Active
      <4> QED
        BY <1>3, <2>2, <2>3, <3>1, <3>2, <3>3, <4>1, <4>2 DEF ExportHolds, Files!Is, Files!IsActive,
           Files!IsFinished, Files!Active, Files!Finished, Files!Unborn, Files!Free
    <3> QED
      BY <1>4, <2>1, <2>2, <2>3, <3>3, <3>4, <3>6, <3>7, <3>8, <2>8
  <2>6. CASE Files!Die(w)
    <3>1. x6' = [x6 EXCEPT ![w] = Files!Free] /\ x8' = x8 \cup {e} /\ UNCHANGED <<x1, x2, x3, x4, x5, x7>>
      BY <2>6, <2>8 DEF Files!Die
    <3>2. x6'[w] = Files!Free /\ OnlyExport(e)
      BY <1>0, <3>1 DEF ExportTypes, OnlyExport
    <3>3. x8' \subseteq Files!Exports /\ x6' \in [Two -> Files!Generating \cup {Files!Free}]
      BY <1>0, <2>1, <3>1 DEF ExportTypes
    <3>4. ExportTypes'
      BY <1>0, <3>1, <3>3 DEF ExportTypes, Files!Exports, Files!Export, Files!Generating, Files!Free,
         Files!Unborn,
         Files!Active, Files!Finished
    <3>5. \A v \in Two \ {w} : x6'[v] = x6[v]
      BY <1>0, <3>1 DEF ExportTypes
    <3>6. ExportHolds(e)'
      BY <2>3, <3>1 DEF ExportHolds, Files!Is, Files!IsActive, Files!IsFinished, Files!Active,
         Files!Finished,
         Files!Unborn, Files!Free
    <3> QED
      BY <1>4, <2>1, <2>2, <2>3, <3>2, <3>4, <3>5, <3>6, <2>8
  <2>9. CASE Files!FailureFails(w)
    <3>1. /\ x3' = [x3 EXCEPT ![e] = IF x3[e] = "active" THEN "failed" ELSE x3[e]]
          /\ x6' = [x6 EXCEPT ![w] = Files!Free] /\ x8' = x8 \cup {e}
          /\ UNCHANGED <<x1, x2, x4, x5, x7>>
      BY <2>9, <2>8 DEF Files!FailureFails
    <3>2. /\ x6'[w] = Files!Free /\ OnlyExport(e)
          /\ x3'[e] = (IF x3[e] = "active" THEN "failed" ELSE x3[e])
      BY <1>0, <3>1 DEF ExportTypes, OnlyExport
    <3>3. /\ x8' \subseteq Files!Exports /\ x6' \in [Two -> Files!Generating \cup {Files!Free}]
          /\ x3' \in [Files!Exports -> {"out", "waiting", "active", "completed", "failed"}]
      BY <1>0, <2>1, <3>1 DEF ExportTypes
    <3>4. ExportTypes'
      BY <1>0, <3>1, <3>3 DEF ExportTypes, Files!Exports, Files!Export, Files!Generating, Files!Free,
         Files!Unborn, Files!Active, Files!Finished
    <3>5. \A v \in Two \ {w} : x6'[v] = x6[v]
      BY <1>0, <3>1 DEF ExportTypes
    <3>6. ExportHolds(e)'
      BY <2>3, <3>1, <3>2 DEF ExportHolds, Files!Is, Files!IsActive, Files!IsFinished, Files!Active,
         Files!Finished, Files!Unborn, Files!Free
    <3> QED
      BY <1>4, <2>1, <2>2, <2>3, <3>2, <3>4, <3>5, <3>6, <2>8
  <2> QED
    BY <1>7, <2>4, <2>5, <2>6, <2>9 DEF Files!Generate
<1> QED
  BY <1>6, <1>7

\* Every step of the exports keeps the invariant, and the status of what ended.
LEMMA ExportsSteps ==
  ASSUME ExportsInv, Files!Next
  PROVE  /\ ExportsInv'
         /\ \A f \in Files!Exports : Files!IsFinished(f) => x1'[f].status = x1[f].status
BY ExportSteps, WorkerSteps DEF Files!Next

\* What the run checks of the exports.
LEMMA ExportsHold == ExportsInv => Files!Downloadable /\ Files!InputKept /\ Files!BlockedOnlyWhenLost
<1> SUFFICES ASSUME ExportsInv PROVE Files!Downloadable /\ Files!InputKept /\ Files!BlockedOnlyWhenLost
  OBVIOUS
<1>1. \A e \in Files!Exports : ExportHolds(e) /\ (x1[e] = Files!Unborn \/ x1[e] \in Files!Export)
  BY DEF ExportsInv, Files!TypeOK
<1>2. Files!Downloadable
  BY <1>1, ExportRecords DEF ExportHolds, Files!Downloadable, Files!IsFinished, Files!Finished
<1>3. Files!InputKept
  BY <1>1 DEF ExportHolds, Files!InputKept
<1>4. Files!BlockedOnlyWhenLost
  <2> SUFFICES ASSUME NEW e \in Files!Exports, Files!Is(e, "file"), Files!IsActive(e)
               PROVE  \/ x4[e] = "enqueue" \/ x3[e] = "waiting"
                      \/ \E w \in Two : x6[w] # Files!Free /\ x6[w].export = e
                      \/ e \in x8
    BY DEF Files!BlockedOnlyWhenLost
  <2> QED
    BY <1>1 DEF ExportHolds, Files!IsActive, Files!Active
<1> QED
  BY <1>2, <1>3, <1>4

-----------------------------------------------------------------------------
(* The analyses: x1 .. x6 are data, run, files, queue, prune and req. *)

\* A run that prune may delete: it is finished, and so are KeepRuns later ones.
Passed(i) == i \in Analysis!Old
Doomed(j, i) == \/ x5[j].pc \in {"files", "run"} /\ i \in x5[j].old
                \/ x5[j].pc = "run" /\ x5[j].one = i
Pruned(i) == \E k \in Analysis!Runs : x5[k].pc = "run" /\ x5[k].one = i

\* What is so of a run: its input is there while a worker may read it, and what was analysed
\* is no later than what was printed.
RunHolds(i) ==
  /\ x2[i] = Analysis!Unborn => x4[i] = "out"
  /\ Analysis!IsActive(i) /\ x4[i] \in {"active", "completed"} => "input" \in x3[i]
  /\ x2[i].status = "done" => Analysis!Readable(i) \/ Pruned(i)
  /\ x2[i].status \in Analysis!Active \cup Analysis!Finished =>
       x2[i].analysed <= x2[i].print /\ x2[i].print <= x1

\* What a pruning will delete may be deleted, whatever else happens meanwhile.
PruneHolds(j) ==
  /\ x5[j].pc # "no" => x2[j].status \in Analysis!Finished \cup {"deleted"}
  /\ x5[j].pc = "run" => x5[j].one # 0
  /\ \A i \in Analysis!Runs : Doomed(j, i) => x2[i] = Analysis!Deleted \/ Passed(i)

RequestHolds(q) ==
  /\ q.pc = "create" => q.analysed <= x1 /\ (q.kind = "insights" => q.analysed <= q.print /\ q.print <= x1)
  /\ q.pc \in {"put", "enqueue", "fail"} => x2[q.run] # Analysis!Unborn

AnalysisInv ==
  /\ Analysis!TypeOK
  /\ \A i \in Analysis!Runs : RunHolds(i) /\ PruneHolds(i)
  /\ \A r \in Two : RequestHolds(x6[r])

AnalysisTypes ==
  /\ x1 \in Analysis!DataVersion
  /\ x2 \in [Analysis!Runs -> Analysis!Run \cup {Analysis!Unborn, Analysis!Deleted}]
  /\ x3 \in [Analysis!Runs -> SUBSET {"input", "results"}]
  /\ x4 \in [Analysis!Runs -> {"out", "waiting", "active", "completed", "failed"}]
  /\ x5 \in [Analysis!Runs -> Analysis!Pruning \cup {[pc |-> "no"], [pc |-> "list"]}]
  /\ x6 \in [Two -> Analysis!Request]

\* The fields of a run.
LEMMA AnalysisRecords ==
  /\ Analysis!Unborn.status = "none" /\ Analysis!Deleted.status = "deleted"
  /\ \A r \in Analysis!Run :
       /\ r.status \in {"pending", "running", "done", "failed"}
       /\ r.analysed \in Analysis!DataVersion /\ r.print \in Analysis!DataVersion
       /\ r # Analysis!Unborn /\ r # Analysis!Deleted
  /\ Analysis!DataVersion \subseteq Nat /\ Analysis!Runs \subseteq Nat /\ 0 \notin Analysis!Runs
<1>1. Analysis!Unborn.status = "none" /\ Analysis!Deleted.status = "deleted"
  BY DEF Analysis!Unborn, Analysis!Deleted
<1>2. \A r \in Analysis!Run :
       /\ r.status \in {"pending", "running", "done", "failed"}
       /\ r.analysed \in Analysis!DataVersion /\ r.print \in Analysis!DataVersion
  BY DEF Analysis!Run, Analysis!Active, Analysis!Finished
<1>3. Analysis!DataVersion \subseteq Nat /\ Analysis!Runs \subseteq Nat /\ 0 \notin Analysis!Runs
  BY Bounds DEF Analysis!DataVersion, Analysis!Runs
<1> QED
  BY <1>1, <1>2, <1>3

\* The fields of a request.
LEMMA RequestRecords ==
  /\ Analysis!Idle \in Analysis!Request /\ Analysis!Idle.pc = "idle"
  /\ \A q \in Analysis!Request :
       /\ q.pc \in {"idle", "export", "create", "put", "enqueue", "fail"}
       /\ q.pc = "export" => q.print \in Analysis!DataVersion
       /\ q.pc = "create" =>
            /\ q.kind \in {"full", "insights"}
            /\ q.analysed \in Analysis!DataVersion /\ q.print \in Analysis!DataVersion
       /\ q.pc \in {"put", "enqueue", "fail"} =>
            /\ q.run \in Analysis!Runs
            /\ \A pc \in {"put", "enqueue", "fail"} :
                 [q EXCEPT !.pc = pc] \in Analysis!Request /\ [q EXCEPT !.pc = pc].pc = pc
                 /\ [q EXCEPT !.pc = pc].run = q.run
<1> USE DEF Analysis!Request, Analysis!Idle
<1>1. Analysis!Idle \in Analysis!Request /\ Analysis!Idle.pc = "idle"
  OBVIOUS
<1>2. ASSUME NEW q \in Analysis!Request
      PROVE  /\ q.pc \in {"idle", "export", "create", "put", "enqueue", "fail"}
             /\ q.pc = "export" => q.print \in Analysis!DataVersion
             /\ q.pc = "create" =>
                  /\ q.kind \in {"full", "insights"}
                  /\ q.analysed \in Analysis!DataVersion /\ q.print \in Analysis!DataVersion
             /\ q.pc \in {"put", "enqueue", "fail"} =>
                  q \in [pc : {"put", "enqueue", "fail"}, run : Analysis!Runs]
  OBVIOUS
<1>3. ASSUME NEW q \in [pc : {"put", "enqueue", "fail"}, run : Analysis!Runs],
             NEW pc \in {"put", "enqueue", "fail"}
      PROVE  /\ q.run \in Analysis!Runs
             /\ [q EXCEPT !.pc = pc] \in Analysis!Request /\ [q EXCEPT !.pc = pc].pc = pc
             /\ [q EXCEPT !.pc = pc].run = q.run
  OBVIOUS
<1> QED
  BY <1>1, <1>2, <1>3

\* The fields of a pruning.
LEMMA PruneRecords ==
  /\ [pc |-> "no"].pc = "no" /\ [pc |-> "list"].pc = "list"
  /\ \A p \in Analysis!Pruning \cup {[pc |-> "no"], [pc |-> "list"]} :
       /\ p.pc \in {"no", "list", "files", "run"}
       /\ p.pc \in {"files", "run"} => p.old \subseteq Analysis!Runs /\ p.one \in Analysis!Runs \cup {0}
  /\ \A pc \in {"files", "run"}, old \in SUBSET Analysis!Runs, one \in Analysis!Runs \cup {0} :
       /\ [pc |-> pc, old |-> old, one |-> one] \in Analysis!Pruning
       /\ [pc |-> pc, old |-> old, one |-> one].pc = pc
       /\ [pc |-> pc, old |-> old, one |-> one].old = old
       /\ [pc |-> pc, old |-> old, one |-> one].one = one
BY DEF Analysis!Pruning

\* At first there is no run.
LEMMA AnalysisInit == Analysis!Init => AnalysisInv
<1> SUFFICES ASSUME Analysis!Init PROVE AnalysisInv
  OBVIOUS
<1> USE DEF Analysis!Init
<1>1. Analysis!TypeOK
  BY Bounds, RequestRecords DEF Analysis!TypeOK, Analysis!DataVersion
<1>2. ASSUME NEW i \in Analysis!Runs PROVE RunHolds(i) /\ PruneHolds(i)
  <2>1. x2[i] = Analysis!Unborn /\ x4[i] = "out" /\ x5[i] = [pc |-> "no"] /\ x2[i].status = "none" /\ x5[i].pc = "no"
    BY AnalysisRecords
  <2> QED
    BY <2>1 DEF RunHolds, PruneHolds, Doomed, Analysis!IsActive, Analysis!Active, Analysis!Finished
<1>3. ASSUME NEW r \in Two PROVE RequestHolds(x6[r])
  BY RequestRecords DEF RequestHolds
<1> QED
  BY <1>1, <1>2, <1>3 DEF AnalysisInv

Later(i) == {k \in Analysis!Runs : k > i /\ Analysis!IsFinished(k)}

\* A run is old when it is finished and KeepRuns of the later ones are.
LEMMA PassedIs ==
  \A i \in Analysis!Runs : Passed(i) <=> Analysis!IsFinished(i) /\ Cardinality(Later(i)) >= KeepRuns
<1> SUFFICES ASSUME NEW i \in Analysis!Runs
             PROVE  Passed(i) <=> Analysis!IsFinished(i) /\ Cardinality(Later(i)) >= KeepRuns
  OBVIOUS
<1>1. Analysis!Old = {k \in Analysis!Runs : Analysis!IsFinished(k) /\ Analysis!Cardinality(Later(k)) >= KeepRuns}
  BY DEF Analysis!Old, Later
<1> QED
  BY <1>1, FilesCardinality DEF Passed

\* One run changes at most, and it is not a finished one unless it is deleted for good reason:
\* of the others, those that may be deleted still may.
LEMMA PassedStays ==
  ASSUME NEW m \in Analysis!Runs, \A k \in Analysis!Runs \ {m} : x2'[k] = x2[k],
         (Analysis!IsFinished(m) => x2'[m] = x2[m]) \/ Passed(m),
         NEW i \in Analysis!Runs, i # m \/ x2'[m] = x2[m], Passed(i)
  PROVE  Passed(i)'
<1>1. Analysis!IsFinished(i)' /\ Analysis!IsFinished(i) /\ Cardinality(Later(i)) >= KeepRuns
  BY PassedIs DEF Analysis!IsFinished
<1>2. Later(i)' \subseteq Analysis!Runs /\ IsFiniteSet(Later(i)') /\ IsFiniteSet(Later(m))
  <2>1. IsFiniteSet(Analysis!Runs)
    <3>1. 1 \in Int /\ MaxRuns \in Int
      BY Bounds
    <3> QED
      BY <3>1, FS_Interval DEF Analysis!Runs
  <2>2. Later(i)' \subseteq Analysis!Runs /\ Later(m) \subseteq Analysis!Runs
    BY DEF Later, Analysis!Runs
  <2> QED
    BY <2>1, <2>2, FS_Subset
<1>3. Cardinality(Later(i)') >= KeepRuns
  <2>1. CASE Analysis!IsFinished(m) => x2'[m] = x2[m]
    <3>1. Later(i) \subseteq Later(i)'
      BY <2>1 DEF Later, Analysis!IsFinished, Analysis!Runs
    <3> QED
      BY <1>1, <1>2, <3>1, FS_Subset, FS_CardinalityType, Bounds
  <2>2. CASE Passed(m) /\ m > i
    <3>1. Later(m) \subseteq Later(i)'
      BY <2>2, AnalysisRecords DEF Later, Analysis!IsFinished, Analysis!Runs
    <3>2. Cardinality(Later(m)) >= KeepRuns
      BY <2>2, PassedIs
    <3> QED
      BY <1>2, <3>1, <3>2, FS_Subset, FS_CardinalityType, Bounds
  <2>3. CASE ~(m > i)
    <3>1. Later(i) \subseteq Later(i)'
      BY <2>3 DEF Later, Analysis!IsFinished, Analysis!Runs
    <3> QED
      BY <1>1, <1>2, <3>1, FS_Subset, FS_CardinalityType, Bounds
  <2> QED
    BY <2>1, <2>2, <2>3
<1>4. Analysis!Old' = {k \in Analysis!Runs : Analysis!IsFinished(k)' /\ Analysis!Cardinality(Later(k)') >= KeepRuns}
  BY DEF Analysis!Old, Later, Analysis!IsFinished, Analysis!Runs, Analysis!Finished
<1> QED
  BY <1>1, <1>3, <1>4, FilesCardinality DEF Passed

\* A step of one request, or of the project.
LEMMA RequestStep ==
  ASSUME AnalysisInv, NEW r \in Two, NEW q \in Analysis!Request,
         x6' = [x6 EXCEPT ![r] = q], UNCHANGED <<x1, x2, x3, x4, x5>>, RequestHolds(q)
  PROVE  AnalysisInv'
<1>1. AnalysisTypes /\ \A k \in Two : x6'[k] = IF k = r THEN q ELSE x6[k]
  BY DEF AnalysisInv, Analysis!TypeOK, AnalysisTypes
<1>2. x6' \in [Two -> Analysis!Request]
  BY <1>1 DEF AnalysisTypes
<1>3. Analysis!TypeOK'
  BY <1>1, <1>2 DEF Analysis!TypeOK, AnalysisTypes, Analysis!DataVersion, Analysis!Runs, Analysis!Run,
     Analysis!Unborn,
     Analysis!Deleted, Analysis!Active, Analysis!Finished, Analysis!Request, Analysis!Idle, Analysis!Pruning
<1>4. ASSUME NEW i \in Analysis!Runs PROVE RunHolds(i)' /\ PruneHolds(i)'
  <2>1. RunHolds(i) /\ PruneHolds(i)
    BY DEF AnalysisInv
  <2>2. RunHolds(i)'
    BY <2>1 DEF RunHolds, Analysis!Unborn, Analysis!IsActive, Analysis!Active, Analysis!Readable, Pruned,
       Analysis!Runs, Analysis!Finished
  <2>3. Analysis!Old' = Analysis!Old
    BY DEF Analysis!Old, Analysis!Runs, Analysis!IsFinished, Analysis!Finished
  <2>4. \A k : Passed(k)' <=> Passed(k)
    BY <2>3 DEF Passed
  <2>5. PruneHolds(i)'
    BY <2>1, <2>4 DEF PruneHolds, Analysis!Finished, Analysis!Runs, Doomed, Analysis!Deleted
  <2> QED
    BY <2>2, <2>5
<1>5. ASSUME NEW k \in Two PROVE RequestHolds(x6[k])'
  BY <1>1 DEF AnalysisInv, RequestHolds, Analysis!Unborn
<1> QED
  BY <1>3, <1>4, <1>5 DEF AnalysisInv, Analysis!Runs

\* A step of one run: it does not change what is finished, and may start to prune.
LEMMA RunStep ==
  ASSUME AnalysisInv, NEW i \in Analysis!Runs, AnalysisTypes', x1' = x1,
         \A k \in Analysis!Runs \ {i} : x2'[k] = x2[k] /\ x3'[k] = x3[k] /\ x4'[k] = x4[k] /\ x5'[k] = x5[k],
         Analysis!IsFinished(i) \/ x2[i].status = "deleted" => x2'[i] = x2[i],
         x2[i] # Analysis!Unborn => x2'[i] # Analysis!Unborn,
         x5'[i] = x5[i] \/ (x5[i].pc = "no" /\ x5'[i].pc = "list" /\ x2'[i].status \in {"done", "failed"}),
         RunHolds(i)',
         \A r \in Two : x6'[r] = x6[r] \/ x6'[r].pc = "idle"
                       \/ (x6'[r].pc \in {"put", "enqueue", "fail"} /\ x2'[x6'[r].run] # Analysis!Unborn)
  PROVE  AnalysisInv'
<1>1. AnalysisTypes
  BY DEF AnalysisInv, Analysis!TypeOK, AnalysisTypes
<1>2. Analysis!TypeOK'
  BY DEF Analysis!TypeOK, AnalysisTypes, Analysis!DataVersion, Analysis!Runs, Analysis!Run, Analysis!Unborn,
     Analysis!Deleted, Analysis!Active, Analysis!Finished, Analysis!Request, Analysis!Idle, Analysis!Pruning
<1>3. ASSUME NEW k \in Analysis!Runs PROVE RunHolds(k)'
  <2>1. CASE k # i
    <3>1. RunHolds(k) /\ x2'[k] = x2[k] /\ x3'[k] = x3[k] /\ x4'[k] = x4[k]
      BY <2>1 DEF AnalysisInv
    <3>2. Pruned(k) => Pruned(k)'
      <4>1. \A j \in Analysis!Runs : x5[j].pc = "run" => x5'[j] = x5[j]
        OBVIOUS
      <4> QED
        BY <4>1 DEF Pruned, Analysis!Runs
    <3> QED
      BY <3>1, <3>2 DEF RunHolds, Analysis!IsActive, Analysis!Active, Analysis!Finished, Analysis!Readable,
         Analysis!Unborn
  <2> QED
    BY <2>1
<1>4. ASSUME NEW k \in Analysis!Runs, Passed(k) PROVE Passed(k)'
  <2>1. Analysis!IsFinished(i) => x2'[i] = x2[i]
    OBVIOUS
  <2>2. k = i => Analysis!IsFinished(i)
    BY <1>4 DEF Passed, Analysis!Old
  <2> QED
    BY <1>4, <2>1, <2>2, PassedStays
<1>5. ASSUME NEW k \in Analysis!Runs, x2[k] = Analysis!Deleted PROVE x2'[k] = Analysis!Deleted
  BY <1>5, AnalysisRecords
<1>6. ASSUME NEW j \in Analysis!Runs PROVE PruneHolds(j)'
  <2>1. PruneHolds(j)
    BY DEF AnalysisInv
  <2>2. CASE x5'[j] = x5[j]
    <3>1. x2[j].status \in {"done", "failed", "deleted"} => x2'[j] = x2[j]
      BY DEF Analysis!IsFinished, Analysis!Finished
    <3>2. \A k \in Analysis!Runs : Doomed(j, k)' => x2'[k] = Analysis!Deleted \/ Passed(k)'
      BY <1>4, <1>5, <2>1, <2>2 DEF PruneHolds, Doomed
    <3> QED
      BY <2>1, <2>2, <3>1, <3>2 DEF PruneHolds, Analysis!Finished, Analysis!Runs, Analysis!Deleted
  <2>3. CASE x5'[j] # x5[j]
    <3>1. x5'[j].pc = "list" /\ x2'[j].status \in {"done", "failed"}
      BY <2>3
    <3> QED
      BY <3>1 DEF PruneHolds, Doomed, Analysis!Finished
  <2> QED
    BY <2>2, <2>3
<1>7. ASSUME NEW r \in Two PROVE RequestHolds(x6[r])'
  <2>1. RequestHolds(x6[r]) /\ x6[r] \in Analysis!Request
    BY <1>1 DEF AnalysisInv, AnalysisTypes
  <2>2. CASE x6'[r] = x6[r]
    <3>1. x6[r].pc \in {"put", "enqueue", "fail"} => x6[r].run \in Analysis!Runs
      BY <2>1, RequestRecords
    <3>2. x6[r].pc \in {"put", "enqueue", "fail"} => x2'[x6[r].run] # Analysis!Unborn
      BY <2>1, <3>1 DEF RequestHolds
    <3> QED
      BY <2>1, <2>2, <3>2 DEF RequestHolds, Analysis!Unborn
  <2>3. CASE x6'[r].pc = "idle"
    BY <2>3 DEF RequestHolds
  <2>4. CASE x6'[r].pc \in {"put", "enqueue", "fail"} /\ x2'[x6'[r].run] # Analysis!Unborn
    BY <2>4 DEF RequestHolds, Analysis!Unborn
  <2> QED
    BY <2>2, <2>3, <2>4
<1> QED
  BY <1>2, <1>3, <1>6, <1>7 DEF AnalysisInv, Analysis!Runs

\* The steps that move one request and nothing else.
LEMMA RequestSteps ==
  ASSUME AnalysisInv, NEW r \in Two,
         \/ Analysis!Export(r) \/ Analysis!Fire(r) \/ Analysis!FireExport(r) \/ Analysis!Regenerate(r)
         \/ Analysis!CannotEnqueue(r)
         \/ Analysis!Create(r) /\ \E i \in Analysis!Runs : Analysis!IsActive(i)
         \/ Analysis!FailRequest(r) /\ ~Analysis!IsActive(x6[r].run)
  PROVE  AnalysisInv' /\ x2' = x2
<1>1. AnalysisTypes
  BY DEF AnalysisInv, Analysis!TypeOK, AnalysisTypes
<1>2. x6[r] \in Analysis!Request /\ RequestHolds(x6[r]) /\ x1 \in Analysis!DataVersion
  BY <1>1 DEF AnalysisTypes, AnalysisInv
<1>3. ASSUME NEW kind \in {"full", "insights"}, NEW analysed \in Analysis!DataVersion, NEW print \in Analysis!DataVersion
      PROVE  /\ [pc |-> "create", kind |-> kind, analysed |-> analysed, print |-> print] \in Analysis!Request
             /\ [pc |-> "create", kind |-> kind, analysed |-> analysed, print |-> print].pc = "create"
             /\ [pc |-> "create", kind |-> kind, analysed |-> analysed, print |-> print].kind = kind
             /\ [pc |-> "create", kind |-> kind, analysed |-> analysed, print |-> print].analysed = analysed
             /\ [pc |-> "create", kind |-> kind, analysed |-> analysed, print |-> print].print = print
  BY DEF Analysis!Request
<1> USE DEF Analysis!Step
<1>4. PICK q \in Analysis!Request :
        x6' = [x6 EXCEPT ![r] = q] /\ RequestHolds(q) /\ UNCHANGED <<x1, x2, x3, x4, x5>>
  <2>1. CASE Analysis!Export(r)
    <3> DEFINE q == [pc |-> "create", kind |-> "full", analysed |-> x1, print |-> x1]
    <3>1. q \in Analysis!Request /\ q.pc = "create" /\ q.kind = "full" /\ q.analysed = x1 /\ q.print = x1
      BY <1>2, <1>3
    <3>2. x6' = [x6 EXCEPT ![r] = q] /\ UNCHANGED <<x1, x2, x3, x4, x5>>
      BY <2>1 DEF Analysis!Export
    <3> HIDE DEF q
    <3>3. RequestHolds(q)
      BY <1>2, <3>1, AnalysisRecords DEF RequestHolds
    <3> QED
      BY <3>1, <3>2, <3>3
  <2>2. CASE Analysis!Fire(r)
    <3> DEFINE q == [pc |-> "export", print |-> x1]
    <3>1. q \in Analysis!Request /\ q.pc = "export"
      BY <1>2 DEF Analysis!Request
    <3>2. x6' = [x6 EXCEPT ![r] = q] /\ UNCHANGED <<x1, x2, x3, x4, x5>>
      BY <2>2 DEF Analysis!Fire
    <3> HIDE DEF q
    <3>3. RequestHolds(q)
      BY <3>1 DEF RequestHolds
    <3> QED
      BY <3>1, <3>2, <3>3
  <2>3. CASE Analysis!FireExport(r)
    <3> DEFINE q == [pc |-> "create", kind |-> "full", analysed |-> x1, print |-> x6[r].print]
    <3>1. x6[r].print \in Analysis!DataVersion
      BY <1>2, <2>3, RequestRecords DEF Analysis!FireExport
    <3>2. q \in Analysis!Request /\ q.pc = "create" /\ q.kind = "full" /\ q.analysed = x1
      BY <1>2, <1>3, <3>1
    <3>3. x6' = [x6 EXCEPT ![r] = q] /\ UNCHANGED <<x1, x2, x3, x4, x5>>
      BY <2>3 DEF Analysis!FireExport
    <3> HIDE DEF q
    <3>4. RequestHolds(q)
      BY <1>2, <3>2, AnalysisRecords DEF RequestHolds
    <3> QED
      BY <3>2, <3>3, <3>4
  <2>4. CASE Analysis!Regenerate(r)
    <3>1. PICK i \in Analysis!Runs :
            /\ x2[i].status = "done"
            /\ x6' = [x6 EXCEPT ![r] = [pc |-> "create", kind |-> "insights",
                                        analysed |-> x2[i].analysed, print |-> x2[i].print]]
      BY <2>4 DEF Analysis!Regenerate
    <3> DEFINE q == [pc |-> "create", kind |-> "insights", analysed |-> x2[i].analysed, print |-> x2[i].print]
    <3>2. x2[i] \in Analysis!Run
      BY <1>1, <3>1, AnalysisRecords DEF AnalysisTypes
    <3>3. x2[i].analysed \in Analysis!DataVersion /\ x2[i].print \in Analysis!DataVersion
      BY <3>2, AnalysisRecords
    <3>4. x2[i].analysed <= x2[i].print /\ x2[i].print <= x1
      BY <3>1 DEF AnalysisInv, RunHolds, Analysis!Finished
    <3>5. /\ q \in Analysis!Request /\ q.pc = "create" /\ q.analysed = x2[i].analysed /\ q.print = x2[i].print
      BY <1>3, <3>3
    <3>6. x6' = [x6 EXCEPT ![r] = q] /\ UNCHANGED <<x1, x2, x3, x4, x5>>
      BY <2>4, <3>1 DEF Analysis!Regenerate
    <3> HIDE DEF q
    <3>7. RequestHolds(q)
      BY <1>2, <3>3, <3>4, <3>5, AnalysisRecords DEF RequestHolds
    <3> QED
      BY <3>5, <3>6, <3>7
  <2>5. CASE Analysis!CannotEnqueue(r)
    <3> DEFINE q == [x6[r] EXCEPT !.pc = "fail"]
    <3>1. x6[r].pc \in {"put", "enqueue"} /\ x6' = [x6 EXCEPT ![r] = q] /\ UNCHANGED <<x1, x2, x3, x4, x5>>
      BY <2>5 DEF Analysis!CannotEnqueue
    <3>2. q \in Analysis!Request /\ q.pc = "fail" /\ q.run = x6[r].run
      BY <1>2, <3>1, RequestRecords
    <3> HIDE DEF q
    <3>3. RequestHolds(q)
      BY <1>2, <3>1, <3>2 DEF RequestHolds
    <3> QED
      BY <3>1, <3>2, <3>3
  <2>6. CASE \/ Analysis!Create(r) /\ \E i \in Analysis!Runs : Analysis!IsActive(i)
             \/ Analysis!FailRequest(r) /\ ~Analysis!IsActive(x6[r].run)
    <3>1. x6' = [x6 EXCEPT ![r] = Analysis!Idle] /\ UNCHANGED <<x1, x2, x3, x4, x5>>
      BY <2>6 DEF Analysis!Create, Analysis!FailRequest
    <3>2. RequestHolds(Analysis!Idle)
      BY RequestRecords DEF RequestHolds
    <3> QED
      BY <3>1, <3>2, RequestRecords
  <2> QED
    BY <2>1, <2>2, <2>3, <2>4, <2>5, <2>6
<1> QED
  BY <1>4, RequestStep

\* The steps that give birth to a run, or move it through the bucket and the queue.
LEMMA JobStep ==
  ASSUME AnalysisInv, NEW r, NEW i \in Analysis!Runs,
         \/ /\ Analysis!Put(r) \/ Analysis!Enqueue(r)
            /\ r \in Two /\ i = x6[r].run
         \/ Analysis!Take(i) \/ Analysis!Return(i)
  PROVE  AnalysisInv' /\ x2' = x2
<1>1. AnalysisTypes
  BY DEF AnalysisInv, Analysis!TypeOK, AnalysisTypes
<1>2. (r \in Two => x6[r] \in Analysis!Request /\ RequestHolds(x6[r])) /\ RunHolds(i)
  BY <1>1 DEF AnalysisTypes, AnalysisInv
<1> USE DEF Analysis!Step
<1>3. ASSUME x3' \in [Analysis!Runs -> SUBSET {"input", "results"}],
             x4' \in [Analysis!Runs -> {"out", "waiting", "active", "completed", "failed"}],
             x6' \in [Two -> Analysis!Request], UNCHANGED <<x1, x2, x5>>,
             \A k \in Analysis!Runs \ {i} : x3'[k] = x3[k] /\ x4'[k] = x4[k],
             x2[i] # Analysis!Unborn, x3[i] \subseteq x3'[i],
             x4'[i] \in {"active", "completed"} => x4[i] \in {"active", "completed"} \/ "input" \in x3'[i],
             \A s \in Two : x6'[s] = x6[s] \/ x6'[s].pc = "idle"
                         \/ (x6'[s].pc \in {"put", "enqueue", "fail"} /\ x2'[x6'[s].run] # Analysis!Unborn)
      PROVE  AnalysisInv' /\ x2' = x2
  <2>1. AnalysisTypes'
    BY <1>1, <1>3 DEF AnalysisTypes, Analysis!DataVersion, Analysis!Runs, Analysis!Run, Analysis!Unborn,
       Analysis!Deleted, Analysis!Active, Analysis!Finished, Analysis!Request, Analysis!Idle, Analysis!Pruning
  <2>2. x3[i] = {"input", "results"} => x3'[i] = {"input", "results"}
    BY <1>3
  <2>3. RunHolds(i)'
    BY <1>2, <1>3, <2>2 DEF RunHolds, Pruned, Analysis!IsActive, Analysis!Active, Analysis!Finished,
       Analysis!Readable,
       Analysis!Runs, Analysis!Unborn
  <2> QED
    BY <1>3, <2>1, <2>3, RunStep
<1>4. CASE Analysis!Put(r) /\ r \in Two /\ i = x6[r].run
  <2> DEFINE q == [x6[r] EXCEPT !.pc = "enqueue"]
  <2>1. /\ x6[r].pc = "put" /\ x3' = [x3 EXCEPT ![i] = x3[i] \cup {"input"}]
        /\ x6' = [x6 EXCEPT ![r] = q] /\ UNCHANGED <<x1, x2, x4, x5>>
    BY <1>4 DEF Analysis!Put
  <2>2. q \in Analysis!Request /\ q.pc = "enqueue" /\ q.run = i
    BY <1>2, <1>4, <2>1, RequestRecords
  <2> HIDE DEF q
  <2>3. x2[i] # Analysis!Unborn
    BY <1>2, <1>4, <2>1 DEF RequestHolds
  <2>4. x3'[i] = x3[i] \cup {"input"} /\ \A s \in Two : x6'[s] = IF s = r THEN q ELSE x6[s]
    BY <1>1, <1>4, <2>1 DEF AnalysisTypes
  <2>5. x3' \in [Analysis!Runs -> SUBSET {"input", "results"}] /\ x6' \in [Two -> Analysis!Request]
    BY <1>1, <2>1, <2>2 DEF AnalysisTypes
  <2>6. \A k \in Analysis!Runs \ {i} : x3'[k] = x3[k]
    BY <1>1, <2>1 DEF AnalysisTypes
  <2>7. x4' \in [Analysis!Runs -> {"out", "waiting", "active", "completed", "failed"}]
    BY <1>1, <2>1 DEF AnalysisTypes
  <2> QED
    BY <1>3, <2>1, <2>2, <2>3, <2>4, <2>5, <2>6, <2>7
<1>5. CASE Analysis!Enqueue(r) /\ r \in Two /\ i = x6[r].run
  <2>1. /\ x6[r].pc = "enqueue" /\ x4' = [x4 EXCEPT ![i] = "waiting"]
        /\ x6' = [x6 EXCEPT ![r] = Analysis!Idle] /\ UNCHANGED <<x1, x2, x3, x5>>
    BY <1>5 DEF Analysis!Enqueue
  <2>2. x2[i] # Analysis!Unborn
    BY <1>2, <1>5, <2>1 DEF RequestHolds
  <2>3. x4'[i] = "waiting" /\ \A s \in Two : x6'[s] = IF s = r THEN Analysis!Idle ELSE x6[s]
    BY <1>1, <1>5, <2>1 DEF AnalysisTypes
  <2>4. /\ x4' \in [Analysis!Runs -> {"out", "waiting", "active", "completed", "failed"}]
        /\ x6' \in [Two -> Analysis!Request] /\ x3' \in [Analysis!Runs -> SUBSET {"input", "results"}]
    BY <1>1, <2>1, RequestRecords DEF AnalysisTypes
  <2>5. \A k \in Analysis!Runs \ {i} : x4'[k] = x4[k]
    BY <1>1, <2>1 DEF AnalysisTypes
  <2> QED
    BY <1>3, <2>1, <2>2, <2>3, <2>4, <2>5, RequestRecords
<1>6. CASE Analysis!Take(i)
  <2>1. /\ x4[i] = "waiting" /\ x4' = [x4 EXCEPT ![i] = IF "input" \in x3[i] THEN "active" ELSE "failed"]
        /\ UNCHANGED <<x1, x2, x3, x5, x6>>
    BY <1>6 DEF Analysis!Take
  <2>2. x2[i] # Analysis!Unborn
    BY <1>2, <2>1 DEF RunHolds
  <2>3. x4'[i] = (IF "input" \in x3[i] THEN "active" ELSE "failed") /\ \A k \in Analysis!Runs \ {i} : x4'[k] = x4[k]
    BY <1>1, <2>1 DEF AnalysisTypes
  <2>4. /\ x4' \in [Analysis!Runs -> {"out", "waiting", "active", "completed", "failed"}]
        /\ x6' \in [Two -> Analysis!Request] /\ x3' \in [Analysis!Runs -> SUBSET {"input", "results"}]
    BY <1>1, <2>1 DEF AnalysisTypes
  <2> QED
    BY <1>3, <2>1, <2>2, <2>3, <2>4
<1>7. CASE Analysis!Return(i)
  <2>1. /\ x4[i] = "active" /\ UNCHANGED <<x1, x2, x5, x6>>
        /\ \/ x3' = [x3 EXCEPT ![i] = x3[i] \cup {"results"}] /\ x4' = [x4 EXCEPT ![i] = "completed"]
           \/ x4' = [x4 EXCEPT ![i] = "failed"] /\ x3' = x3
    BY <1>7 DEF Analysis!Return
  <2>2. x2[i] # Analysis!Unborn
    BY <1>2, <2>1 DEF RunHolds
  <2>3. \A k \in Analysis!Runs \ {i} : x4'[k] = x4[k] /\ x3'[k] = x3[k]
    BY <1>1, <2>1 DEF AnalysisTypes
  <2>4. x3[i] \subseteq x3'[i]
    BY <1>1, <2>1 DEF AnalysisTypes
  <2>5. /\ x4' \in [Analysis!Runs -> {"out", "waiting", "active", "completed", "failed"}]
        /\ x3' \in [Analysis!Runs -> SUBSET {"input", "results"}]
    BY <1>1, <2>1 DEF AnalysisTypes
  <2>6. x6' \in [Two -> Analysis!Request]
    BY <1>1, <2>1 DEF AnalysisTypes
  <2> QED
    BY <1>3, <2>1, <2>2, <2>3, <2>4, <2>5, <2>6
<1> QED
  BY <1>4, <1>5, <1>6, <1>7

\* A run with another status is a run.
LEMMA RunFields ==
  ASSUME NEW r \in Analysis!Run, NEW status \in {"pending", "running", "done", "failed"}
  PROVE  /\ WithStatus(r, status) \in Analysis!Run /\ WithStatus(r, status).status = status
         /\ WithStatus(r, status).analysed = r.analysed /\ WithStatus(r, status).print = r.print
BY DEF WithStatus, Analysis!Run, Analysis!Active, Analysis!Finished

\* The creation of a run keeps the invariant.
LEMMA BirthStep ==
  ASSUME AnalysisInv, NEW r \in Two, Analysis!Create(r), ~\E i \in Analysis!Runs : Analysis!IsActive(i)
  PROVE  AnalysisInv' /\ \A k \in Analysis!Runs : x2'[k] = x2[k] \/ (x2[k] = Analysis!Unborn /\ x2'[k] # Analysis!Deleted)
<1>1. AnalysisTypes
  BY DEF AnalysisInv, Analysis!TypeOK, AnalysisTypes
<1>2. x6[r] \in Analysis!Request /\ RequestHolds(x6[r]) /\ x6[r].pc = "create"
  BY <1>1 DEF AnalysisTypes, AnalysisInv, Analysis!Create
<1>3. /\ x6[r].kind \in {"full", "insights"} /\ x6[r].analysed \in Analysis!DataVersion
      /\ x6[r].print \in Analysis!DataVersion
  BY <1>2, RequestRecords
<1> DEFINE born == [status |-> "pending", kind |-> x6[r].kind, analysed |-> x6[r].analysed,
                    print |-> Analysis!PrintNow(x6[r])]
<1>4. PICK i \in Analysis!Runs :
        /\ x2[i] = Analysis!Unborn /\ x2' = [x2 EXCEPT ![i] = born]
        /\ x6' = [x6 EXCEPT ![r] = [pc |-> "put", run |-> i]]
        /\ UNCHANGED <<x1, x3, x4, x5>>
  BY DEF Analysis!Create, Analysis!Step
<1>5. Analysis!PrintNow(x6[r]) \in Analysis!DataVersion /\ x6[r].analysed <= Analysis!PrintNow(x6[r])
      /\ Analysis!PrintNow(x6[r]) <= x1
  BY <1>1, <1>2, <1>3, AnalysisRecords DEF Analysis!PrintNow, AnalysisTypes, RequestHolds
<1>6. /\ born \in Analysis!Run /\ born.status = "pending" /\ born.analysed = x6[r].analysed
      /\ born.print = Analysis!PrintNow(x6[r])
  BY <1>3, <1>5 DEF Analysis!Run, Analysis!Active
<1> HIDE DEF born
<1> DEFINE q == [pc |-> "put", run |-> i]
<1>7. q \in Analysis!Request /\ q.pc = "put" /\ q.run = i
  BY DEF Analysis!Request
<1>8. x6' = [x6 EXCEPT ![r] = q]
  BY <1>4
<1> HIDE DEF q
<1>9. /\ x2'[i] = born /\ \A k \in Analysis!Runs \ {i} : x2'[k] = x2[k]
      /\ \A s \in Two : x6'[s] = IF s = r THEN q ELSE x6[s]
  BY <1>1, <1>4, <1>8 DEF AnalysisTypes
<1>10. /\ x2' \in [Analysis!Runs -> Analysis!Run \cup {Analysis!Unborn, Analysis!Deleted}]
       /\ x6' \in [Two -> Analysis!Request]
  BY <1>1, <1>4, <1>6, <1>7, <1>8 DEF AnalysisTypes
<1>11. AnalysisTypes'
  BY <1>1, <1>4, <1>10 DEF AnalysisTypes, Analysis!DataVersion, Analysis!Runs, Analysis!Run,
     Analysis!Unborn,
     Analysis!Deleted, Analysis!Active, Analysis!Finished, Analysis!Request, Analysis!Idle, Analysis!Pruning
<1>12. RunHolds(i) /\ x4[i] = "out" /\ x2[i].status = "none"
  BY <1>4, AnalysisRecords DEF AnalysisInv, RunHolds
<1>13. RunHolds(i)'
  BY <1>4, <1>5, <1>6, <1>9, <1>12, AnalysisRecords DEF RunHolds, Analysis!IsActive, Analysis!Active,
     Analysis!Finished,
     Analysis!Unborn
<1>14. x2'[i] # Analysis!Unborn /\ x2'[i] # Analysis!Deleted /\ ~Analysis!IsFinished(i)
  BY <1>6, <1>9, <1>12, AnalysisRecords DEF Analysis!IsFinished, Analysis!Finished
<1>15. AnalysisInv'
  BY <1>4, <1>7, <1>9, <1>11, <1>12, <1>13, <1>14, RunStep
<1> QED
  BY <1>4, <1>9, <1>14, <1>15

\* A run gets another status, and ends only as failed or as done with its results.
LEMMA StatusStep ==
  ASSUME AnalysisInv, NEW i \in Analysis!Runs, Analysis!IsActive(i), NEW status \in {"running", "done", "failed"},
         x2' = [x2 EXCEPT ![i].status = status], UNCHANGED <<x1, x3>>,
         \/ status = "running" /\ x5' = x5
         \/ status # "running" /\ x5' = [x5 EXCEPT ![i] = [pc |-> "list"]],
         status = "done" => x4[i] = "completed" /\ "results" \in x3[i],
         x4' = x4 \/ x4' = [x4 EXCEPT ![i] = IF x4[i] = "waiting" THEN "out" ELSE x4[i]],
         x6' = x6 \/ \E r \in Two : x6' = [x6 EXCEPT ![r] = Analysis!Idle]
  PROVE  AnalysisInv' /\ \A k \in Analysis!Runs : x2'[k] = x2[k] \/ (k = i /\ x2'[k] # Analysis!Deleted)
<1>1. AnalysisTypes /\ RunHolds(i) /\ PruneHolds(i)
  BY DEF AnalysisInv, Analysis!TypeOK, AnalysisTypes
<1>2. x2[i] \in Analysis!Run /\ x2[i].status \in {"pending", "running"} /\ ~Analysis!IsFinished(i)
  BY <1>1, AnalysisRecords DEF AnalysisTypes, Analysis!IsActive, Analysis!Active, Analysis!IsFinished,
     Analysis!Finished
<1> DEFINE new == WithStatus(x2[i], status)
<1>3. new \in Analysis!Run /\ new.status = status /\ new.analysed = x2[i].analysed /\ new.print = x2[i].print
  BY <1>2, RunFields
<1>4. x2' = [x2 EXCEPT ![i] = new]
  BY DEF WithStatus
<1> HIDE DEF new
<1>5. x2'[i] = new /\ \A k \in Analysis!Runs \ {i} : x2'[k] = x2[k] /\ x4'[k] = x4[k] /\ x5'[k] = x5[k]
  BY <1>1, <1>4 DEF AnalysisTypes
<1>6. x4'[i] \in {"active", "completed"} => x4[i] = x4'[i]
  BY <1>1 DEF AnalysisTypes
<1>7. x5[i].pc = "no"
  <2>1. x5[i] \in Analysis!Pruning \cup {[pc |-> "no"], [pc |-> "list"]}
    BY <1>1 DEF AnalysisTypes
  <2> QED
    BY <1>1, <1>2, <2>1 DEF PruneHolds, Analysis!Finished
<1>8. status # "running" => x5'[i].pc = "list"
  BY <1>1 DEF AnalysisTypes
<1>9. \A r \in Two : x6'[r] = x6[r] \/ x6'[r].pc = "idle"
  BY <1>1, RequestRecords DEF AnalysisTypes
<1>10. /\ x2' \in [Analysis!Runs -> Analysis!Run \cup {Analysis!Unborn, Analysis!Deleted}]
       /\ x4' \in [Analysis!Runs -> {"out", "waiting", "active", "completed", "failed"}]
  BY <1>1, <1>3, <1>4 DEF AnalysisTypes
<1>11. x5' \in [Analysis!Runs -> Analysis!Pruning \cup {[pc |-> "no"], [pc |-> "list"]}]
  BY <1>1 DEF AnalysisTypes
<1>12. x6' \in [Two -> Analysis!Request]
  BY <1>1, RequestRecords DEF AnalysisTypes
<1>13. AnalysisTypes'
  BY <1>1, <1>10, <1>11, <1>12 DEF AnalysisTypes, Analysis!DataVersion, Analysis!Runs, Analysis!Run,
     Analysis!Unborn,
     Analysis!Deleted, Analysis!Active, Analysis!Finished, Analysis!Request, Analysis!Idle, Analysis!Pruning
<1>14. x2'[i] # Analysis!Unborn /\ x2'[i] # Analysis!Deleted /\ x2[i].status # "deleted"
  BY <1>2, <1>3, <1>5, AnalysisRecords
<1>15. status = "done" => x3[i] = {"input", "results"}
  BY <1>1 DEF RunHolds, AnalysisTypes
<1>16. RunHolds(i)'
  BY <1>1, <1>2, <1>3, <1>5, <1>6, <1>14, <1>15 DEF RunHolds, Analysis!IsActive, Analysis!Active,
     Analysis!Finished,
     Analysis!Readable, Analysis!Unborn
<1>17. x5'[i] = x5[i] \/ (x5'[i].pc = "list" /\ x2'[i].status \in {"done", "failed"})
  BY <1>3, <1>5, <1>8
<1>18. AnalysisInv'
  BY <1>2, <1>5, <1>7, <1>9, <1>13, <1>14, <1>16, <1>17, RunStep
<1> QED
  BY <1>5, <1>14, <1>18

\* A step that moves the status of a run finds it active, and keeps the invariant.
LEMMA StatusSteps ==
  ASSUME AnalysisInv, NEW i \in Analysis!Runs, NEW r,
         \/ Analysis!Running(i) \/ Analysis!Complete(i) \/ Analysis!Fail(i) \/ Analysis!Expire(i)
         \/ Analysis!FailRequest(r) /\ r \in Two /\ i = x6[r].run /\ Analysis!IsActive(i)
  PROVE  AnalysisInv' /\ Analysis!IsActive(i)
         /\ \A k \in Analysis!Runs : x2'[k] = x2[k] \/ (k = i /\ x2'[k] # Analysis!Deleted)
<1> USE DEF Analysis!Close
<1>1. CASE Analysis!Running(i)
  <2>1. /\ x2[i].status = "pending" /\ x2' = [x2 EXCEPT ![i].status = "running"] /\ UNCHANGED <<x1, x3, x4, x5, x6>>
    BY <1>1 DEF Analysis!Running
  <2>2. Analysis!IsActive(i)
    BY <2>1 DEF Analysis!IsActive, Analysis!Active
  <2> QED
    BY <2>1, <2>2, StatusStep
<1>2. CASE Analysis!Complete(i)
  <2>1. PICK status \in {"done", "failed"} :
          /\ x2' = [x2 EXCEPT ![i].status = status] /\ x5' = [x5 EXCEPT ![i] = [pc |-> "list"]]
          /\ status = "done" => x4[i] = "completed" /\ "results" \in x3[i]
          /\ Analysis!IsActive(i) /\ UNCHANGED <<x1, x3, x4, x6>>
    BY <1>2 DEF Analysis!Complete, Analysis!CanComplete
  <2> QED
    BY <2>1, StatusStep
<1>3. CASE \/ Analysis!Fail(i) \/ Analysis!Expire(i)
           \/ Analysis!FailRequest(r) /\ r \in Two /\ i = x6[r].run /\ Analysis!IsActive(i)
  <2>1. /\ x2' = [x2 EXCEPT ![i].status = "failed"] /\ x5' = [x5 EXCEPT ![i] = [pc |-> "list"]]
        /\ Analysis!IsActive(i) /\ UNCHANGED <<x1, x3>>
        /\ x4' = x4 \/ x4' = [x4 EXCEPT ![i] = IF x4[i] = "waiting" THEN "out" ELSE x4[i]]
        /\ x6' = x6 \/ \E s \in Two : x6' = [x6 EXCEPT ![s] = Analysis!Idle]
    BY <1>3 DEF Analysis!Fail, Analysis!Expire, Analysis!FailRequest, Analysis!Step
  <2> QED
    BY <2>1, StatusStep
<1> QED
  BY <1>1, <1>2, <1>3

\* A step of one pruning.
LEMMA PruneStep ==
  ASSUME AnalysisInv, NEW j \in Analysis!Runs,
         Analysis!ListOld(j) \/ Analysis!DeleteFiles(j) \/ Analysis!DeleteRun(j)
  PROVE  /\ AnalysisInv'
         /\ \A k \in Analysis!Runs : x2'[k] = x2[k] \/ (x2'[k] = Analysis!Deleted /\ (x2[k] = Analysis!Deleted \/ Passed(k)))
<1>1. AnalysisTypes
  BY DEF AnalysisInv, Analysis!TypeOK, AnalysisTypes
<1>2. \A i \in Analysis!Runs : RunHolds(i) /\ PruneHolds(i)
  BY DEF AnalysisInv
<1>3. x5[j] \in Analysis!Pruning \cup {[pc |-> "no"], [pc |-> "list"]}
  BY <1>1 DEF AnalysisTypes
<1>4. x5[j].pc \in {"files", "run"} => x5[j].old \subseteq Analysis!Runs /\ x5[j].one \in Analysis!Runs \cup {0}
  BY <1>3, PruneRecords
<1>5. \A k \in Analysis!Runs : Passed(k) => Analysis!IsFinished(k)
  BY DEF Passed, Analysis!Old
<1>6. \A k \in Analysis!Runs : Passed(k) \/ x2[k] = Analysis!Deleted => ~Analysis!IsActive(k)
  BY <1>5, AnalysisRecords DEF Analysis!IsActive, Analysis!Active, Analysis!IsFinished, Analysis!Finished
<1>7. ASSUME x2' = x2, NEW p \in Analysis!Pruning \cup {[pc |-> "no"], [pc |-> "list"]}, x5' = [x5 EXCEPT ![j] = p],
             x3' \in [Analysis!Runs -> SUBSET {"input", "results"}], UNCHANGED <<x1, x4, x6>>,
             x5[j].pc \in {"list", "files"}, p.pc = "run" => p.one # 0,
             \A i \in Analysis!Runs : Doomed(j, i)' => Doomed(j, i) \/ Passed(i),
             \A i \in Analysis!Runs : x3'[i] = x3[i] \/ (~Analysis!IsActive(i) /\ p.pc = "run" /\ p.one = i)
      PROVE  AnalysisInv'
  <2>1. x5'[j] = p /\ \A i \in Analysis!Runs \ {j} : x5'[i] = x5[i]
    BY <1>1, <1>7 DEF AnalysisTypes
  <2>2. x5' \in [Analysis!Runs -> Analysis!Pruning \cup {[pc |-> "no"], [pc |-> "list"]}]
    BY <1>1, <1>7 DEF AnalysisTypes
  <2>3. Analysis!TypeOK'
    BY <1>1, <1>7, <2>2 DEF Analysis!TypeOK, AnalysisTypes, Analysis!DataVersion, Analysis!Runs,
       Analysis!Run,
       Analysis!Unborn, Analysis!Deleted, Analysis!Active, Analysis!Finished, Analysis!Request, Analysis!Idle,
       Analysis!Pruning
  <2>4. \A i \in Analysis!Runs : Passed(i)' <=> Passed(i)
    BY <1>7 DEF Passed, Analysis!Old, Analysis!Runs, Analysis!IsFinished, Analysis!Finished
  <2>5. ASSUME NEW i \in Analysis!Runs PROVE RunHolds(i)'
    <3>1. RunHolds(i)
      BY <1>2
    <3>2. Pruned(i) => Pruned(i)'
      BY <1>7, <2>1 DEF Pruned, Analysis!Runs
    <3>3. p.pc = "run" /\ p.one = i => Pruned(i)'
      BY <2>1 DEF Pruned, Analysis!Runs
    <3> QED
      BY <1>7, <3>1, <3>2, <3>3 DEF RunHolds, Analysis!IsActive, Analysis!Active, Analysis!Finished,
         Analysis!Readable,
         Analysis!Unborn
  <2>6. ASSUME NEW i \in Analysis!Runs PROVE PruneHolds(i)'
    <3>1. PruneHolds(i) /\ PruneHolds(j)
      BY <1>2
    <3>2. CASE i = j
      <4>1. x2[j].status \in {"done", "failed", "deleted"}
        BY <1>7, <3>1 DEF PruneHolds, Analysis!Finished
      <4>2. \A k \in Analysis!Runs : Doomed(j, k)' => x2[k] = Analysis!Deleted \/ Passed(k)
        BY <1>7, <3>1 DEF PruneHolds
      <4> QED
        BY <1>7, <2>1, <2>4, <3>2, <4>1, <4>2 DEF PruneHolds, Analysis!Finished, Analysis!Deleted,
           Analysis!Runs
    <3>3. CASE i # j
      <4>1. x5'[i] = x5[i] /\ \A k \in Analysis!Runs : Doomed(i, k)' <=> Doomed(i, k)
        BY <2>1, <3>3 DEF Doomed
      <4> QED
        BY <1>7, <2>4, <3>1, <4>1 DEF PruneHolds, Analysis!Finished, Analysis!Deleted, Analysis!Runs
    <3> QED
      BY <3>2, <3>3
  <2>7. ASSUME NEW r \in Two PROVE RequestHolds(x6[r])'
    BY <1>7 DEF AnalysisInv, RequestHolds, Analysis!Unborn
  <2> QED
    BY <2>3, <2>5, <2>6, <2>7 DEF AnalysisInv, Analysis!Runs
<1>8. CASE Analysis!ListOld(j)
  <2>1. PICK p \in Analysis!Pruning \cup {[pc |-> "no"], [pc |-> "list"]} :
          x5' = [x5 EXCEPT ![j] = p] /\ (p.pc = "no" \/ (p.pc = "files" /\ p.old = Analysis!Old))
    <3>1. CASE Analysis!Old = {}
      <4>1. x5' = [x5 EXCEPT ![j] = [pc |-> "no"]]
        BY <1>8, <3>1 DEF Analysis!ListOld
      <4>2. [pc |-> "no"].pc = "no"
        OBVIOUS
      <4> QED
        BY <4>1, <4>2
    <3>2. CASE Analysis!Old # {}
      <4> DEFINE p == [pc |-> "files", old |-> Analysis!Old, one |-> 0]
      <4>1. x5' = [x5 EXCEPT ![j] = p]
        BY <1>8, <3>2 DEF Analysis!ListOld
      <4>2. p \in Analysis!Pruning /\ p.pc = "files" /\ p.old = Analysis!Old
        BY PruneRecords DEF Analysis!Old
      <4> QED
        BY <4>1, <4>2
    <3> QED
      BY <3>1, <3>2
  <2>2. x5[j].pc = "list" /\ UNCHANGED <<x1, x2, x3, x4, x6>>
    BY <1>8 DEF Analysis!ListOld
  <2>3. x5'[j] = p
    BY <1>1, <2>1 DEF AnalysisTypes
  <2>4. \A i \in Analysis!Runs : Doomed(j, i)' => Passed(i)
    BY <2>1, <2>3 DEF Doomed, Passed
  <2>5. x3' \in [Analysis!Runs -> SUBSET {"input", "results"}]
    BY <1>1, <2>2 DEF AnalysisTypes
  <2>6. AnalysisInv'
    BY <1>7, <2>1, <2>2, <2>4, <2>5
  <2> QED
    BY <2>2, <2>6
<1>9. CASE Analysis!DeleteFiles(j)
  <2>1. PICK k \in x5[j].old :
          x3' = [x3 EXCEPT ![k] = {}] /\ x5' = [x5 EXCEPT ![j] = [pc |-> "run", old |-> x5[j].old \ {k}, one |-> k]]
    BY <1>9 DEF Analysis!DeleteFiles
  <2>2. x5[j].pc = "files" /\ UNCHANGED <<x1, x2, x4, x6>>
    BY <1>9 DEF Analysis!DeleteFiles
  <2>3. k \in Analysis!Runs /\ x5[j].old \subseteq Analysis!Runs
    BY <1>4, <2>1, <2>2
  <2> DEFINE p == [pc |-> "run", old |-> x5[j].old \ {k}, one |-> k]
  <2>4. p \in Analysis!Pruning /\ p.pc = "run" /\ p.old = x5[j].old \ {k} /\ p.one = k
    BY <2>3, PruneRecords
  <2>5. x5' = [x5 EXCEPT ![j] = p]
    BY <2>1
  <2> HIDE DEF p
  <2>6. x5'[j] = p
    BY <1>1, <2>5 DEF AnalysisTypes
  <2>7. \A i \in Analysis!Runs : Doomed(j, i)' => Doomed(j, i)
    BY <2>1, <2>2, <2>4, <2>6 DEF Doomed
  <2>8. Doomed(j, k)
    BY <2>1, <2>2 DEF Doomed
  <2>9. ~Analysis!IsActive(k)
    BY <1>2, <1>6, <2>3, <2>8 DEF PruneHolds
  <2>10. /\ x3' \in [Analysis!Runs -> SUBSET {"input", "results"}]
         /\ \A i \in Analysis!Runs \ {k} : x3'[i] = x3[i]
    BY <1>1, <2>1 DEF AnalysisTypes
  <2>11. \A i \in Analysis!Runs : x3'[i] = x3[i] \/ (~Analysis!IsActive(i) /\ p.pc = "run" /\ p.one = i)
    BY <2>4, <2>9, <2>10
  <2>12. p.one # 0
    BY <2>3, <2>4, AnalysisRecords
  <2>13. AnalysisInv'
    BY <1>7, <2>2, <2>4, <2>5, <2>7, <2>10, <2>11, <2>12
  <2> QED
    BY <2>2, <2>13
<1>10. CASE Analysis!DeleteRun(j)
  <2>1. x5[j].pc = "run" /\ UNCHANGED <<x1, x3, x4, x6>>
    BY <1>10 DEF Analysis!DeleteRun
  <2>2. PICK k \in Analysis!Runs : k = x5[j].one
    BY <1>2, <1>4, <2>1 DEF PruneHolds
  <2>3. x2' = [x2 EXCEPT ![k] = Analysis!Deleted]
    BY <1>10, <2>2 DEF Analysis!DeleteRun
  <2>4. PICK p \in Analysis!Pruning \cup {[pc |-> "no"], [pc |-> "list"]} :
          x5' = [x5 EXCEPT ![j] = p] /\ (p.pc = "no" \/ (p.pc = "files" /\ p.old = x5[j].old))
    <3>1. CASE x5[j].old = {}
      <4>1. x5' = [x5 EXCEPT ![j] = [pc |-> "no"]]
        BY <1>10, <3>1 DEF Analysis!DeleteRun
      <4>2. [pc |-> "no"].pc = "no"
        OBVIOUS
      <4> QED
        BY <4>1, <4>2
    <3>2. CASE x5[j].old # {}
      <4> DEFINE p == [pc |-> "files", old |-> x5[j].old, one |-> 0]
      <4>1. x5' = [x5 EXCEPT ![j] = p]
        BY <1>10, <3>2 DEF Analysis!DeleteRun
      <4>2. p \in Analysis!Pruning /\ p.pc = "files" /\ p.old = x5[j].old
        BY <1>4, <2>1, PruneRecords
      <4> QED
        BY <4>1, <4>2
    <3> QED
      BY <3>1, <3>2
  <2>5. x5'[j] = p /\ \A i \in Analysis!Runs \ {j} : x5'[i] = x5[i]
    BY <1>1, <2>4 DEF AnalysisTypes
  <2>6. x2'[k] = Analysis!Deleted /\ \A i \in Analysis!Runs \ {k} : x2'[i] = x2[i]
    BY <1>1, <2>3 DEF AnalysisTypes
  <2>7. x2[k] = Analysis!Deleted \/ Passed(k)
    <3>1. Doomed(j, k)
      BY <2>1, <2>2 DEF Doomed
    <3> QED
      BY <1>2, <3>1 DEF PruneHolds
  <2>8. \A i \in Analysis!Runs \ {k} : Passed(i) => Passed(i)'
    <3> SUFFICES ASSUME NEW i \in Analysis!Runs \ {k}, Passed(i) PROVE Passed(i)'
      OBVIOUS
    <3>1. (Analysis!IsFinished(k) => x2'[k] = x2[k]) \/ Passed(k)
      BY <2>6, <2>7
    <3> QED
      BY <2>6, <3>1, PassedStays
  <2>9. \A i, l \in Analysis!Runs : Doomed(i, l)' => Doomed(i, l)
    BY <2>1, <2>4, <2>5 DEF Doomed
  <2>10. AnalysisTypes'
    <3>1. x2' \in [Analysis!Runs -> Analysis!Run \cup {Analysis!Unborn, Analysis!Deleted}]
      BY <1>1, <2>3 DEF AnalysisTypes
    <3>2. x5' \in [Analysis!Runs -> Analysis!Pruning \cup {[pc |-> "no"], [pc |-> "list"]}]
      BY <1>1, <2>4 DEF AnalysisTypes
    <3> QED
      BY <1>1, <2>1, <3>1, <3>2 DEF AnalysisTypes, Analysis!DataVersion, Analysis!Runs, Analysis!Run,
         Analysis!Unborn, Analysis!Deleted, Analysis!Active, Analysis!Finished, Analysis!Request, Analysis!Idle,
         Analysis!Pruning
  <2>11. Analysis!TypeOK'
    BY <2>10 DEF Analysis!TypeOK, AnalysisTypes, Analysis!DataVersion, Analysis!Runs, Analysis!Run,
       Analysis!Unborn, Analysis!Deleted, Analysis!Active, Analysis!Finished, Analysis!Request, Analysis!Idle,
       Analysis!Pruning
  <2>12. ASSUME NEW i \in Analysis!Runs PROVE RunHolds(i)'
    <3>1. CASE i = k
      BY <2>6, <3>1, AnalysisRecords DEF RunHolds, Analysis!IsActive, Analysis!Active, Analysis!Finished,
         Analysis!Unborn
    <3>2. CASE i # k
      <4>1. x2'[i] = x2[i] /\ RunHolds(i)
        BY <1>2, <2>6, <3>2
      <4>2. Pruned(i) => Pruned(i)'
        BY <2>2, <2>5, <3>2 DEF Pruned, Analysis!Runs
      <4> QED
        BY <2>1, <4>1, <4>2 DEF RunHolds, Analysis!IsActive, Analysis!Active, Analysis!Finished,
           Analysis!Readable,
           Analysis!Unborn
    <3> QED
      BY <3>1, <3>2
  <2>13. ASSUME NEW i \in Analysis!Runs PROVE PruneHolds(i)'
    <3>1. PruneHolds(i)
      BY <1>2
    <3>2. x5'[i].pc # "no" => x5[i].pc # "no"
      BY <2>1, <2>5
    <3>3. x2[i].status \in {"done", "failed", "deleted"} => x2'[i].status \in {"done", "failed", "deleted"}
      BY <2>6, AnalysisRecords
    <3>4. x5'[i].pc = "run" => x5[i].pc = "run" /\ x5'[i].one = x5[i].one
      BY <2>4, <2>5
    <3>5. \A l \in Analysis!Runs : Doomed(i, l)' => x2'[l] = Analysis!Deleted \/ Passed(l)'
      BY <2>6, <2>8, <2>9, <3>1 DEF PruneHolds
    <3> QED
      BY <3>1, <3>2, <3>3, <3>4, <3>5 DEF PruneHolds, Analysis!Finished, Analysis!Deleted, Analysis!Runs
  <2>14. ASSUME NEW r \in Two PROVE RequestHolds(x6[r])'
    <3>1. RequestHolds(x6[r]) /\ x6[r] \in Analysis!Request
      BY <1>1 DEF AnalysisInv, AnalysisTypes
    <3>2. x6[r].pc \in {"put", "enqueue", "fail"} => x6[r].run \in Analysis!Runs
      BY <3>1, RequestRecords
    <3>3. \A i \in Analysis!Runs : x2[i] # Analysis!Unborn => x2'[i] # Analysis!Unborn
      BY <2>6, AnalysisRecords
    <3> QED
      BY <2>1, <3>1, <3>2, <3>3 DEF RequestHolds, Analysis!Unborn
  <2>15. AnalysisInv'
    BY <2>11, <2>12, <2>13, <2>14 DEF AnalysisInv, Analysis!Runs
  <2> QED
    BY <2>6, <2>7, <2>15
<1>11. Analysis!ListOld(j) \/ Analysis!DeleteFiles(j) => x2' = x2
  BY DEF Analysis!ListOld, Analysis!DeleteFiles
<1> QED
  BY <1>8, <1>9, <1>10, <1>11

\* Every step of the analyses keeps the invariant and what is finished, and deletes only what
\* is old.
LEMMA AnalysisSteps ==
  ASSUME AnalysisInv, Analysis!Next
  PROVE  AnalysisInv' /\ Analysis!FinishedStays /\ Analysis!KeepsRecent
<1>0. AnalysisTypes
  BY DEF AnalysisInv, Analysis!TypeOK, AnalysisTypes
<1>1. ASSUME \A k \in Analysis!Runs :
               x2'[k] = x2[k] \/ (~Analysis!IsFinished(k) /\ x2'[k] # Analysis!Deleted)
                 \/ (x2'[k] = Analysis!Deleted /\ (x2[k] = Analysis!Deleted \/ Passed(k)))
      PROVE  Analysis!FinishedStays /\ Analysis!KeepsRecent
  <2>1. Analysis!FinishedStays
    BY <1>1 DEF Analysis!FinishedStays
  <2>2. Analysis!KeepsRecent
    BY <1>1 DEF Analysis!KeepsRecent, Passed, Analysis!Old
  <2> QED
    BY <2>1, <2>2
<1>2. \A k \in Analysis!Runs : Analysis!IsActive(k) \/ x2[k] = Analysis!Unborn => ~Analysis!IsFinished(k)
  BY AnalysisRecords DEF Analysis!IsActive, Analysis!Active, Analysis!IsFinished, Analysis!Finished
<1>3. CASE Analysis!ChangeData
  <2>1. x1' = x1 + 1 /\ x1 < MaxData /\ UNCHANGED <<x2, x3, x4, x5, x6>>
    BY <1>3 DEF Analysis!ChangeData
  <2>2. x1' \in Analysis!DataVersion /\ x1 <= x1' /\ x1 \in Nat /\ x1' \in Nat
    BY <1>0, <2>1, Bounds DEF AnalysisTypes, Analysis!DataVersion
  <2>3. Analysis!TypeOK'
    BY <1>0, <2>1, <2>2 DEF Analysis!TypeOK, AnalysisTypes, Analysis!DataVersion, Analysis!Runs,
       Analysis!Run,
       Analysis!Unborn, Analysis!Deleted, Analysis!Active, Analysis!Finished, Analysis!Request, Analysis!Idle,
       Analysis!Pruning
  <2>4. ASSUME NEW i \in Analysis!Runs PROVE RunHolds(i)' /\ PruneHolds(i)'
    <3>1. RunHolds(i) /\ PruneHolds(i)
      BY DEF AnalysisInv
    <3>2. x2[i].status \in {"pending", "running", "done", "failed"} => x2[i].print \in Nat
      BY <1>0, AnalysisRecords DEF AnalysisTypes
    <3>3. RunHolds(i)'
      BY <2>1, <2>2, <3>1, <3>2 DEF RunHolds, Pruned, Analysis!Runs, Analysis!IsActive, Analysis!Active,
         Analysis!Finished, Analysis!Readable, Analysis!Unborn
    <3>4. PruneHolds(i)'
      BY <2>1, <3>1 DEF PruneHolds, Doomed, Passed, Analysis!Old, Analysis!Runs, Analysis!IsFinished,
         Analysis!Finished, Analysis!Deleted
    <3> QED
      BY <3>3, <3>4
  <2>5. ASSUME NEW r \in Two PROVE RequestHolds(x6[r])'
    <3>1. RequestHolds(x6[r]) /\ x6[r] \in Analysis!Request
      BY <1>0 DEF AnalysisInv, AnalysisTypes
    <3>2. x6[r].pc = "create" => x6[r].analysed \in Nat /\ x6[r].print \in Nat
      BY <3>1, RequestRecords, AnalysisRecords
    <3> QED
      BY <2>1, <2>2, <3>1, <3>2 DEF RequestHolds, Analysis!Unborn
  <2>6. AnalysisInv'
    BY <2>3, <2>4, <2>5 DEF AnalysisInv, Analysis!Runs
  <2> QED
    BY <1>1, <2>1, <2>6
<1>4. CASE \E r \in Two :
             \/ Analysis!Export(r) \/ Analysis!Fire(r) \/ Analysis!FireExport(r) \/ Analysis!Regenerate(r)
             \/ Analysis!CannotEnqueue(r)
             \/ Analysis!Create(r) /\ \E i \in Analysis!Runs : Analysis!IsActive(i)
             \/ Analysis!FailRequest(r) /\ ~Analysis!IsActive(x6[r].run)
  <2>1. AnalysisInv' /\ x2' = x2
    BY <1>4, RequestSteps
  <2> QED
    BY <1>1, <2>1
<1>5. CASE \E r \in Two : Analysis!Create(r) /\ ~\E i \in Analysis!Runs : Analysis!IsActive(i)
  BY <1>1, <1>2, <1>5, BirthStep
<1>6. \A r \in Two : x6[r].pc \in {"put", "enqueue", "fail"} => x6[r].run \in Analysis!Runs
  BY <1>0, RequestRecords DEF AnalysisTypes
<1>7. CASE \E r \in Two : Analysis!Put(r) \/ Analysis!Enqueue(r)
  <2>1. PICK r \in Two : Analysis!Put(r) \/ Analysis!Enqueue(r)
    BY <1>7
  <2>2. x6[r].run \in Analysis!Runs
    BY <1>6, <2>1 DEF Analysis!Put, Analysis!Enqueue
  <2>3. AnalysisInv' /\ x2' = x2
    BY <2>1, <2>2, JobStep
  <2> QED
    BY <1>1, <2>3
<1>8. CASE \E r \in Two : Analysis!FailRequest(r) /\ Analysis!IsActive(x6[r].run)
  <2>1. PICK r \in Two : Analysis!FailRequest(r) /\ Analysis!IsActive(x6[r].run)
    BY <1>8
  <2>2. PICK i \in Analysis!Runs : i = x6[r].run
    BY <1>6, <2>1 DEF Analysis!FailRequest
  <2>3. AnalysisInv' /\ Analysis!IsActive(i) /\ \A k \in Analysis!Runs : x2'[k] = x2[k] \/ (k = i /\ x2'[k] # Analysis!Deleted)
    BY <2>1, <2>2, StatusSteps
  <2> QED
    BY <1>1, <1>2, <2>3
<1>9. ASSUME NEW i \in Analysis!Runs,
             \/ Analysis!Take(i) \/ Analysis!Return(i)
             \/ Analysis!Running(i) \/ Analysis!Complete(i) \/ Analysis!Fail(i) \/ Analysis!Expire(i)
             \/ Analysis!ListOld(i) \/ Analysis!DeleteFiles(i) \/ Analysis!DeleteRun(i)
      PROVE  AnalysisInv' /\ Analysis!FinishedStays /\ Analysis!KeepsRecent
  <2>1. CASE Analysis!Take(i) \/ Analysis!Return(i)
    <3>1. AnalysisInv' /\ x2' = x2
      BY <2>1, JobStep
    <3> QED
      BY <1>1, <3>1
  <2>2. CASE Analysis!Running(i) \/ Analysis!Complete(i) \/ Analysis!Fail(i) \/ Analysis!Expire(i)
    <3>1. AnalysisInv' /\ Analysis!IsActive(i) /\ \A k \in Analysis!Runs : x2'[k] = x2[k] \/ (k = i /\ x2'[k] # Analysis!Deleted)
      BY <2>2, StatusSteps
    <3> QED
      BY <1>1, <1>2, <3>1
  <2>3. CASE Analysis!ListOld(i) \/ Analysis!DeleteFiles(i) \/ Analysis!DeleteRun(i)
    <3>1. AnalysisInv' /\ \A k \in Analysis!Runs : x2'[k] = x2[k] \/ (x2'[k] = Analysis!Deleted /\ (x2[k] = Analysis!Deleted \/ Passed(k)))
      BY <2>3, PruneStep
    <3> QED
      BY <1>1, <3>1
  <2> QED
    BY <1>9, <2>1, <2>2, <2>3
<1>10. ASSUME NEW r \in Two,
              \/ Analysis!Export(r) \/ Analysis!Fire(r) \/ Analysis!FireExport(r) \/ Analysis!Regenerate(r)
              \/ Analysis!Create(r) \/ Analysis!Put(r)
              \/ Analysis!Enqueue(r) \/ Analysis!CannotEnqueue(r) \/ Analysis!FailRequest(r)
       PROVE  AnalysisInv' /\ Analysis!FinishedStays /\ Analysis!KeepsRecent
  BY <1>4, <1>5, <1>7, <1>8, <1>10
<1> QED
  BY <1>3, <1>9, <1>10 DEF Analysis!Next

\* What the run checks of the analyses.
LEMMA AnalysisHolds == AnalysisInv => Analysis!DoneReadable /\ Analysis!StaleIsTrue
<1> SUFFICES ASSUME AnalysisInv PROVE Analysis!DoneReadable /\ Analysis!StaleIsTrue
  OBVIOUS
<1>1. Analysis!DoneReadable
  BY DEF AnalysisInv, RunHolds, Pruned, Analysis!DoneReadable
<1>2. Analysis!StaleIsTrue
  <2> SUFFICES ASSUME NEW i \in Analysis!Runs, x2[i].status \in Analysis!Active \cup Analysis!Finished, Analysis!Stale(i)
               PROVE  x2[i].analysed # x1
    BY DEF Analysis!StaleIsTrue
  <2>1. x2[i].analysed <= x2[i].print /\ x2[i].print <= x1
    BY DEF AnalysisInv, RunHolds
  <2>2. x2[i] \in Analysis!Run /\ x1 \in Analysis!DataVersion
    BY AnalysisRecords DEF AnalysisInv, Analysis!TypeOK, Analysis!Active, Analysis!Finished
  <2>3. x2[i].analysed \in Nat /\ x2[i].print \in Nat /\ x1 \in Nat
    BY <2>2, AnalysisRecords
  <2> QED
    BY <2>1, <2>3 DEF Analysis!Stale
<1> QED
  BY <1>1, <1>2

-----------------------------------------------------------------------------
\* The components count as the library does.
LEMMA SameCardinality ==
  /\ \A S : Login!Cardinality(S) = Cardinality(S)
  /\ \A S : Operations!Cardinality(S) = Cardinality(S)
  /\ \A S : Worker!Cardinality(S) = Cardinality(S)
BY DEF Cardinality, Login!Cardinality, Operations!Cardinality, Worker!Cardinality

-----------------------------------------------------------------------------
(* The schedule of the analyses: x1 .. x7 are wanted, open, scheduler, sync, *)
(* spoiled, changes and faults.                                              *)

\* What a sync that no change overtook has read of the settings and of the status is
\* still so: whoever writes last, the others being over, writes what was asked for.
ReadsAreCurrent ==
  \A c \in Two : Schedule!IsReading(c) /\ ~x4[c].overtaken =>
    /\ x4[c].wanted \in {"none", x1}
    /\ x4[c].open \in {"none", IF x2 THEN "yes" ELSE "no"}

ScheduleInv == Schedule!TypeOK /\ ReadsAreCurrent /\ Schedule!InStep

\* What a sync may hold.
SyncRecords ==
  [pc : {"idle", "reading"}, wanted : Schedule!Schedules \cup {"none"},
   open : {"none", "yes", "no"}, overtaken : BOOLEAN]

\* At first the schedule is off.
LEMMA ScheduleInit == Schedule!Init => ScheduleInv
<1> USE Bounds DEF Schedule!Init, ScheduleInv, Schedule!Idle, Schedule!None, Schedule!Off,
        Schedule!Schedules
<1> SUFFICES ASSUME Schedule!Init PROVE ScheduleInv
  OBVIOUS
<1>1. Schedule!TypeOK
  <2>1. Schedule!Idle \in SyncRecords
    BY DEF SyncRecords
  <2>2. x4 \in [Two -> SyncRecords]
    BY <2>1
  <2>3. x2 \in BOOLEAN /\ x5 \in BOOLEAN
    OBVIOUS
  <2>4. x1 \in Schedule!Schedules /\ x3 \in Schedule!Schedules
    OBVIOUS
  <2>5. x6 \in 0..MaxChanges /\ x7 \in 0..MaxFaults
    OBVIOUS
  <2> QED
    BY <2>2, <2>3, <2>4, <2>5 DEF Schedule!TypeOK, SyncRecords
<1>2. ReadsAreCurrent
  BY DEF ReadsAreCurrent, Schedule!IsReading
<1>3. Schedule!InStep
  BY DEF Schedule!InStep
<1> QED
  BY <1>1, <1>2, <1>3

\* The types, with the set of the records of a synchronisation under a name.
LEMMA ScheduleShape ==
  Schedule!TypeOK <=>
    /\ x1 \in Schedule!Schedules /\ x2 \in BOOLEAN /\ x3 \in Schedule!Schedules
    /\ x4 \in [Two -> SyncRecords] /\ x5 \in BOOLEAN
    /\ x6 \in 0..MaxChanges /\ x7 \in 0..MaxFaults
BY DEF Schedule!TypeOK, SyncRecords, Schedule!None

\* Every step keeps the types.
LEMMA ScheduleTypes ==
  ASSUME Schedule!TypeOK, Schedule!Next
  PROVE  Schedule!TypeOK'
<1> USE Bounds, ScheduleShape
<1>1. Schedule!Idle \in SyncRecords /\ Schedule!Started \in SyncRecords
  BY DEF SyncRecords, Schedule!Idle, Schedule!Started, Schedule!None
<1>2. \A q \in SyncRecords :
        /\ [q EXCEPT !.overtaken = TRUE] \in SyncRecords
        /\ [q EXCEPT !.wanted = x1] \in SyncRecords
        /\ \A o \in {"yes", "no"} : [q EXCEPT !.open = o] \in SyncRecords
  BY DEF SyncRecords
<1> SUFFICES ASSUME NEW c \in Two,
                    \/ Schedule!SetStatus(c) \/ Schedule!ReadSettings(c) \/ Schedule!ReadProject(c)
                    \/ Schedule!Write(c) \/ Schedule!Fail(c) \/ Schedule!Restart(c) \/ Schedule!LoseRedis(c)
                    \/ \E s \in Schedule!Schedules : Schedule!PutSettings(c, s)
             PROVE  /\ x1' \in Schedule!Schedules /\ x2' \in BOOLEAN /\ x3' \in Schedule!Schedules
                    /\ x4' \in [Two -> SyncRecords] /\ x5' \in BOOLEAN
                    /\ x6' \in 0..MaxChanges /\ x7' \in 0..MaxFaults
  BY DEF Schedule!Next, Schedule!TypeOK, SyncRecords, Schedule!None
<1>3. ASSUME NEW field PROVE Schedule!Overtaking(field, c) \in [Two -> SyncRecords]
  BY <1>1, <1>2 DEF Schedule!Overtaking
<1>a. CASE \E s \in Schedule!Schedules : Schedule!PutSettings(c, s)
  BY <1>a, <1>3 DEF Schedule!PutSettings
<1>b. CASE Schedule!SetStatus(c)
  <2>1. x2' \in BOOLEAN
    BY <1>b DEF Schedule!SetStatus
  <2> QED
    BY <1>b, <1>3, <2>1 DEF Schedule!SetStatus
<1>c. CASE Schedule!ReadSettings(c)
  BY <1>c, <1>2 DEF Schedule!ReadSettings
<1>d. CASE Schedule!ReadProject(c)
  BY <1>d, <1>2 DEF Schedule!ReadProject
<1>e. CASE Schedule!Write(c)
  BY <1>e, <1>1 DEF Schedule!Write, Schedule!Runs, SyncRecords, Schedule!Schedules,
                    Schedule!Off, Schedule!None
<1>f. CASE Schedule!Restart(c)
  BY <1>f, <1>1 DEF Schedule!Restart
<1>h. CASE Schedule!Fail(c)
  <2>1. x3' \in Schedule!Schedules
    BY <1>h DEF Schedule!Fail, Schedule!Runs, SyncRecords, Schedule!Schedules, Schedule!Off, Schedule!None
  <2> QED
    BY <1>h, <1>1, <2>1 DEF Schedule!Fail
<1>g. CASE Schedule!LoseRedis(c)
  <2>1. x5' \in BOOLEAN
    BY <1>g DEF Schedule!LoseRedis
  <2> QED
    BY <1>g, <1>1, <2>1 DEF Schedule!LoseRedis, Schedule!Schedules, Schedule!Off
<1> QED
  BY <1>a, <1>b, <1>c, <1>d, <1>e, <1>f, <1>g, <1>h

\* Every step of the schedule keeps the invariant.
LEMMA ScheduleSteps == ScheduleInv /\ Schedule!Next => ScheduleInv'
<1> SUFFICES ASSUME ScheduleInv, NEW c \in Two,
                    \/ Schedule!SetStatus(c) \/ Schedule!ReadSettings(c) \/ Schedule!ReadProject(c)
                    \/ Schedule!Write(c) \/ Schedule!Fail(c) \/ Schedule!Restart(c) \/ Schedule!LoseRedis(c)
                    \/ \E s \in Schedule!Schedules : Schedule!PutSettings(c, s)
             PROVE  ReadsAreCurrent' /\ Schedule!InStep'
  BY ScheduleTypes DEF Schedule!Next, ScheduleInv
<1> USE ScheduleShape DEF ScheduleInv, ReadsAreCurrent, Schedule!InStep,
        Schedule!IsReading, Schedule!Idle, Schedule!Started, Schedule!None
<1>1. CASE \E s \in Schedule!Schedules : Schedule!PutSettings(c, s)
  BY <1>1 DEF Schedule!PutSettings, Schedule!Overtaking, SyncRecords
<1>2. CASE Schedule!SetStatus(c)
  BY <1>2 DEF Schedule!SetStatus, Schedule!Overtaking, SyncRecords
<1>3. CASE Schedule!ReadSettings(c)
  BY <1>3 DEF Schedule!ReadSettings, SyncRecords
<1>4. CASE Schedule!ReadProject(c)
  BY <1>4 DEF Schedule!ReadProject, SyncRecords
<1>5. CASE Schedule!Write(c)
  BY <1>5 DEF Schedule!Write, Schedule!Runs, SyncRecords
<1>6. CASE Schedule!Restart(c)
  BY <1>6 DEF Schedule!Restart, SyncRecords
<1>7. CASE Schedule!LoseRedis(c)
  BY <1>7 DEF Schedule!LoseRedis, SyncRecords
<1>8. CASE Schedule!Fail(c)
  BY <1>8 DEF Schedule!Fail, SyncRecords
<1> QED
  BY <1>1, <1>2, <1>3, <1>4, <1>5, <1>6, <1>7, <1>8

-----------------------------------------------------------------------------
(* The decisions about duplicates: x1 .. x5 are status, decision, request, *)
(* applied and cut.                                                        *)

\* What a request may hold.
DecisionRecords ==
  [pc : {"idle", "create", "moderate", "write", "undo", "done"},
   kind : {"none", "confirmed", "rejected"}, keep : 0..2,
   read : {"none", "open", "duplicate", "discarded"}]

\* A decision that is to be stored is one of the two.
Decides == \A r \in Two : x3[r].pc = "create" => x3[r].kind # "none"

DecisionsInv == Duplicates!TypeOK /\ Decides /\ Duplicates!ConfirmedIsApplied

\* At first nothing is decided.
LEMMA DecisionsInit == Duplicates!Init => DecisionsInv
<1> SUFFICES ASSUME Duplicates!Init PROVE DecisionsInv
  OBVIOUS
<1>1. Duplicates!Idle \in DecisionRecords
  BY DEF Duplicates!Idle, DecisionRecords
<1> QED
  BY <1>1 DEF Duplicates!Init, DecisionsInv, Duplicates!TypeOK, DecisionRecords,
             Duplicates!Idle, Decides, Duplicates!ConfirmedIsApplied

\* A step moves one request at most, and one that stored a confirmation only along its way.
LEMMA DecisionsSteps == DecisionsInv /\ Duplicates!Next => DecisionsInv'
<1> SUFFICES ASSUME DecisionsInv, Duplicates!Next PROVE DecisionsInv'
  OBVIOUS
<1>1. /\ x1 \in [{1, 2} -> {"open", "duplicate", "discarded", "gone"}]
      /\ x2 \subseteq [kind : {"confirmed", "rejected"}, by : Two]
      /\ x3 \in [Two -> DecisionRecords] /\ x4 \subseteq Two /\ x5 \subseteq Two
  BY DEF DecisionsInv, Duplicates!TypeOK, DecisionRecords, Duplicates!Pair
<1>2. SUFFICES /\ x1' \in [{1, 2} -> {"open", "duplicate", "discarded", "gone"}]
               /\ x2' \subseteq [kind : {"confirmed", "rejected"}, by : Two]
               /\ x3' \in [Two -> DecisionRecords] /\ x4' \subseteq Two /\ x5' \subseteq Two
               /\ Decides' /\ Duplicates!ConfirmedIsApplied'
  BY DEF DecisionsInv, Duplicates!TypeOK, DecisionRecords, Duplicates!Pair
<1>3. ASSUME NEW r \in Two, NEW pc \in {"create", "moderate", "write", "undo", "done"}, Duplicates!Go(r, pc)
      PROVE  /\ x3' \in [Two -> DecisionRecords] /\ x3'[r].pc = pc /\ x3'[r].kind = x3[r].kind
             /\ \A s \in Two : s # r => x3'[s] = x3[s]
  BY <1>1, <1>3 DEF Duplicates!Go, DecisionRecords
<1> USE DEF DecisionsInv, Decides, Duplicates!ConfirmedIsApplied
<1>4. CASE \E r \in Two, kind \in {"confirmed", "rejected"}, keep \in Duplicates!Pair : Duplicates!Ask(r, kind, keep)
  <2> PICK r \in Two, kind \in {"confirmed", "rejected"}, keep \in Duplicates!Pair : Duplicates!Ask(r, kind, keep)
    BY <1>4
  <2> DEFINE q == [pc |-> "create", kind |-> kind, keep |-> keep, read |-> x1[Duplicates!Other(keep)]]
  <2>1. Duplicates!Other(keep) \in {1, 2}
    BY DEF Duplicates!Pair, Duplicates!Other
  <2>2. q \in DecisionRecords /\ q.kind # "none"
    BY <1>1, <2>1 DEF Duplicates!Ask, DecisionRecords, Duplicates!Pair
  <2>3. x3' = [x3 EXCEPT ![r] = q] /\ x3[r].pc = "idle"
    BY DEF Duplicates!Ask, Duplicates!Idle
  <2> HIDE DEF q
  <2> QED
    BY <1>1, <2>2, <2>3 DEF Duplicates!Ask
<1>5. CASE \E r \in Two : Duplicates!Create(r)
  <2> PICK r \in Two : Duplicates!Create(r)
    BY <1>5
  <2>1. CASE UNCHANGED x2
    BY <1>1, <1>3, <2>1 DEF Duplicates!Create
  <2>2. CASE x2' = {[kind |-> x3[r].kind, by |-> r]} /\ Duplicates!Go(r, IF x3[r].kind = "confirmed" THEN "moderate" ELSE "done")
    <3>1. x3[r].kind \in {"confirmed", "rejected"}
      BY <1>1 DEF Duplicates!Create, DecisionRecords
    <3> QED
      BY <1>1, <1>3, <2>2, <3>1 DEF Duplicates!Create
  <2> QED
    BY <2>1, <2>2 DEF Duplicates!Create
<1>6. CASE \E r \in Two : Duplicates!Moderate(r)
  BY <1>1, <1>3, <1>6 DEF Duplicates!Moderate
<1>7. CASE \E r \in Two : Duplicates!Write(r)
  <2> PICK r \in Two : Duplicates!Write(r)
    BY <1>7
  <2>1. x1' \in [{1, 2} -> {"open", "duplicate", "discarded", "gone"}]
    BY <1>1 DEF Duplicates!Write
  <2> QED
    BY <1>1, <1>3, <2>1 DEF Duplicates!Write
<1>8. CASE \E r \in Two : Duplicates!Undo(r)
  BY <1>1, <1>3, <1>8 DEF Duplicates!Undo, Duplicates!Without
<1>11. CASE \E r \in Two : Duplicates!UndoFails(r)
  BY <1>1, <1>3, <1>11 DEF Duplicates!UndoFails
<1>9. CASE \E r \in Two : Duplicates!Die(r)
  BY <1>1, <1>3, <1>9 DEF Duplicates!Die
<1>10. CASE \E d \in Duplicates!Pair, next \in {"open", "discarded", "gone"} : Duplicates!Change(d, next)
  BY <1>1, <1>10 DEF Duplicates!Change
<1> QED
  BY <1>4, <1>5, <1>6, <1>7, <1>8, <1>9, <1>10, <1>11 DEF Duplicates!Next

-----------------------------------------------------------------------------
(* The lock on log-ins: x1 .. x5 are account, count, ttl, attempt and faults. *)

\* The attempts that are still to increment the counter k.
Coming(k) ==
  {a \in Two : \/ x4[a].pc = "verify"
               \/ (x4[a].pc = "incr" /\ x4[a].key <= k)
               \/ (x4[a].pc = "expire" /\ x4[a].key < k)}

\* Every attempt in flight is counted already when the lock falls.
CountsHold ==
  \A k \in Login!Keys :
    x2[k] + Cardinality(Coming(k)) <= MaxFailures - 1 + Cardinality(Two) + x5

AccountsInv == Login!TypeOK /\ CountsHold

AttemptRecords ==
  [pc : {"idle", "create", "verify", "forget", "incr", "expire"}, key : Login!Keys]

\* The failures that are coming are at most the attempts.
LEMMA ComingCount == \A k : IsFiniteSet(Coming(k)) /\ Cardinality(Coming(k)) \in Nat
                            /\ Cardinality(Coming(k)) <= Cardinality(Two) /\ Cardinality(Two) \in Nat
BY Finite, FS_Subset, FS_CardinalityType DEF Coming

\* The bound of the counters is a number.
LEMMA MaxCount == Login!MaxCount = MaxFailures + Cardinality(Two) + MaxFaults /\ Login!MaxCount \in Nat
BY Bounds, ComingCount, SameCardinality DEF Login!MaxCount

\* At first nobody failed.
LEMMA AccountsInit == Login!Init => AccountsInv
<1> SUFFICES ASSUME Login!Init PROVE AccountsInv
  OBVIOUS
<1> USE DEF Login!Keys, Login!Email
<1>1. Login!Idle \in AttemptRecords
  BY DEF Login!Idle, AttemptRecords
<1>2. Login!MaxCount \in Nat
  BY MaxCount
<1>3. Login!TypeOK
  BY <1>1, <1>2, Bounds DEF Login!Init, Login!TypeOK, AttemptRecords
<1>4. \A k \in {1, 2} : Coming(k) = {}
  BY DEF Coming, Login!Init, Login!Idle
<1> QED
  BY <1>3, <1>4, Bounds, Limits, ComingCount, FS_EmptySet DEF AccountsInv, CountsHold, Login!Init

\* What a step does to the attempts that are still to increment a counter: one of them
\* increments it, or one more comes.
LEMMA AccountsSteps == AccountsInv /\ Login!Next => AccountsInv'
<1> SUFFICES ASSUME AccountsInv, Login!Next PROVE AccountsInv'
  OBVIOUS
<1> USE DEF Login!Keys, Login!Email
<1>1. /\ x1 \in 0..1 /\ x2 \in [{1, 2} -> Nat] /\ x3 \in [{1, 2} -> BOOLEAN]
      /\ x4 \in [Two -> AttemptRecords] /\ x5 \in Nat /\ x5 <= MaxFaults
  BY Bounds DEF AccountsInv, Login!TypeOK, AttemptRecords
<1>2. SUFFICES /\ x1' \in 0..1 /\ x2' \in [{1, 2} -> Nat] /\ x3' \in [{1, 2} -> BOOLEAN]
               /\ x4' \in [Two -> AttemptRecords] /\ x5' \in Nat /\ x5' <= MaxFaults
               /\ CountsHold'
  <2>0. \A k : Cardinality(Coming(k)') \in Nat /\ Cardinality(Two) \in Nat
    BY Finite, FS_Subset, FS_CardinalityType DEF Coming
  <2>1. \A k \in {1, 2} : x2'[k] <= Login!MaxCount
    BY <1>2, <2>0, MaxCount, Bounds DEF CountsHold
  <2>2. Login!MaxCount \in Nat
    BY MaxCount
  <2>3. x2' \in [{1, 2} -> 0 .. Login!MaxCount]
    BY <1>2, <2>1, <2>2
  <2> QED
    BY <1>2, <2>3, Bounds DEF AccountsInv, Login!TypeOK, AttemptRecords
\* The sets of those to come, before and after.
<1>3. \A k : /\ Cardinality(Coming(k)) \in Nat /\ Cardinality(Coming(k)') \in Nat
             /\ Cardinality(Two) \in Nat /\ Cardinality(Coming(k)') <= Cardinality(Two)
             /\ Cardinality(Coming(k)) <= Cardinality(Two)
  BY Finite, FS_Subset, FS_CardinalityType DEF Coming
<1>4. ASSUME NEW k, Coming(k)' \subseteq Coming(k)
      PROVE  Cardinality(Coming(k)') <= Cardinality(Coming(k))
  BY <1>4, ComingCount, FS_Subset
<1>5. ASSUME NEW k, NEW a \in Coming(k), Coming(k)' = Coming(k) \ {a}
      PROVE  Cardinality(Coming(k)') = Cardinality(Coming(k)) - 1
  BY <1>5, ComingCount, FS_RemoveElement
<1>6. ASSUME NEW k, NEW a, Coming(k)' \subseteq Coming(k) \cup {a}
      PROVE  Cardinality(Coming(k)') <= Cardinality(Coming(k)) + 1
  <2>1. IsFiniteSet(Coming(k) \cup {a}) /\ Cardinality(Coming(k) \cup {a}) <= Cardinality(Coming(k)) + 1
    BY ComingCount, FS_AddElement
  <2> QED
    BY <1>6, <1>3, <2>1, FS_Subset, FS_CardinalityType
<1>7. ASSUME NEW a \in Two, NEW pc \in {"idle", "create", "verify", "forget", "incr", "expire"},
             NEW key \in {1, 2}, Login!Go(a, pc, key)
      PROVE  /\ x4' \in [Two -> AttemptRecords] /\ x4'[a].pc = pc /\ x4'[a].key = key
             /\ \A b \in Two : b # a => x4'[b] = x4[b]
  BY <1>1, <1>7 DEF Login!Go, AttemptRecords
<1> DEFINE Holds(k) == x2[k] + Cardinality(Coming(k)) <= MaxFailures - 1 + Cardinality(Two) + x5
<1>8. ASSUME UNCHANGED <<x2, x5>>, \A k \in {1, 2} : Coming(k)' \subseteq Coming(k) PROVE CountsHold'
  BY <1>1, <1>3, <1>4, <1>8, Bounds DEF CountsHold, AccountsInv
<1>a. CASE \E a \in Two : Login!Register(a)
  <2> PICK a \in Two : Login!Register(a)
    BY <1>a
  <2>1. \A k \in {1, 2} : Coming(k)' \subseteq Coming(k)
    BY <1>1, <1>7 DEF Coming, Login!Register
  <2> QED
    BY <1>1, <1>7, <1>8, <2>1 DEF Login!Register
<1>b. CASE \E a \in Two : Login!CreateAccount(a)
  <2> PICK a \in Two : Login!CreateAccount(a)
    BY <1>b
  <2>1. \A k \in {1, 2} : Coming(k)' \subseteq Coming(k)
    BY <1>1, <1>7 DEF Coming, Login!CreateAccount
  <2> QED
    BY <1>1, <1>7, <1>8, <2>1 DEF Login!CreateAccount, Login!WithAccount
<1>c. CASE \E a \in Two : Login!LogIn(a)
  <2> PICK a \in Two : Login!LogIn(a)
    BY <1>c
  <2>1. \A k \in {1, 2} : Coming(k)' \subseteq Coming(k) \cup {a}
    BY <1>1, <1>7 DEF Coming, Login!LogIn
  <2>2. x5' \in Nat /\ x5' <= MaxFaults
    BY <1>1, Bounds DEF Login!LogIn
  <2>3. ASSUME NEW k \in {1, 2}
        PROVE  x2'[k] + Cardinality(Coming(k)') <= MaxFailures - 1 + Cardinality(Two) + x5'
    <3>1. CASE \A j \in {1, 2} : ~Login!IsLocked(j)
      BY <1>1, <1>3, <2>2, <3>1, Bounds DEF Login!IsLocked, Login!LogIn
    <3>2. CASE x5' = x5 + 1
      <4>1. Cardinality(Coming(k)') <= Cardinality(Coming(k)) + 1
        BY <1>6, <2>1
      <4>2. x2[k] + Cardinality(Coming(k)) <= MaxFailures - 1 + Cardinality(Two) + x5
        BY DEF AccountsInv, CountsHold
      <4>3. x2'[k] = x2[k] /\ x2[k] \in Nat
        BY <1>1 DEF Login!LogIn
      <4> QED
        BY <1>1, <1>3, <3>2, <4>1, <4>2, <4>3, Bounds
    <3> QED
      BY <3>1, <3>2 DEF Login!LogIn
  <2> QED
    BY <1>1, <1>7, <2>2, <2>3 DEF Login!LogIn, CountsHold
<1>d. CASE \E a \in Two : Login!Verify(a)
  <2> PICK a \in Two : Login!Verify(a)
    BY <1>d
  <2>1. \A k \in {1, 2} : Coming(k)' \subseteq Coming(k)
    BY <1>1, <1>7 DEF Coming, Login!Verify
  <2> QED
    BY <1>1, <1>7, <1>8, <2>1 DEF Login!Verify
<1>e. CASE \E a \in Two : Login!Forget(a)
  <2> PICK a \in Two : Login!Forget(a)
    BY <1>e
  <2>1. \A k \in {1, 2} : Coming(k)' \subseteq Coming(k)
    BY <1>1, <1>7 DEF Coming, Login!Forget
  <2>2. x3' \in [{1, 2} -> BOOLEAN]
    BY <1>1 DEF Login!Forget
  <2> QED
    BY <1>1, <1>3, <1>4, <1>7, <2>1, <2>2, Bounds DEF Login!Forget, CountsHold, AccountsInv
<1>f. CASE \E a \in Two : Login!Increment(a)
  <2> PICK a \in Two : Login!Increment(a)
    BY <1>f
  <2> PICK k \in {1, 2} : k = x4[a].key
    BY <1>1 DEF AttemptRecords, Login!Increment
  <2>0. x4[a].pc = "incr"
    BY DEF Login!Increment
  <2>1. /\ x4' \in [Two -> AttemptRecords] /\ \A b \in Two : b # a => x4'[b] = x4[b]
        /\ \/ x4'[a].pc = "expire" /\ x4'[a].key = k
           \/ k = 2 /\ x4'[a].pc = "idle"
           \/ k = 1 /\ x4'[a].pc = "incr" /\ x4'[a].key = 2
    BY <1>7, <2>0 DEF Login!Increment, Login!Following
  <2>2. Coming(k)' = Coming(k) \ {a} /\ a \in Coming(k)
    <3>1. a \in Coming(k) /\ a \notin Coming(k)'
      BY <2>0, <2>1 DEF Coming
    <3>2. ASSUME NEW b \in Two, b # a PROVE b \in Coming(k)' <=> b \in Coming(k)
      BY <2>1, <3>2 DEF Coming
    <3> QED
      BY <3>1, <3>2 DEF Coming
  <2>3. \A j \in {1, 2} : j # k => Coming(j)' \subseteq Coming(j)
    BY <1>1, <2>0, <2>1 DEF Coming
  <2>4. /\ x2' \in [{1, 2} -> Nat] /\ x2'[k] = x2[k] + 1 /\ \A j \in {1, 2} : j # k => x2'[j] = x2[j]
        /\ UNCHANGED <<x1, x3, x5>>
    BY <1>1, <2>0 DEF Login!Increment
  <2>5. CountsHold'
    <3>1. Cardinality(Coming(k)') = Cardinality(Coming(k)) - 1
      BY <1>5, <2>2
    <3>2. \A j \in {1, 2} : j # k => Cardinality(Coming(j)') <= Cardinality(Coming(j))
      BY <1>4, <2>3
    <3> QED
      BY <1>1, <1>3, <2>0, <2>4, <3>1, <3>2, Bounds DEF CountsHold, AccountsInv
  <2> QED
    BY <1>1, <2>1, <2>4, <2>5
<1>g. CASE \E a \in Two : Login!SetWindow(a)
  <2> PICK a \in Two : Login!SetWindow(a)
    BY <1>g
  <2> DEFINE k == x4[a].key
  <2>0. k \in {1, 2} /\ x4[a].pc = "expire"
    BY <1>1 DEF AttemptRecords, Login!SetWindow
  <2>1. /\ x4' \in [Two -> AttemptRecords] /\ \A b \in Two : b # a => x4'[b] = x4[b]
        /\ \/ k = 2 /\ x4'[a].pc = "idle"
           \/ k = 1 /\ x4'[a].pc = "incr" /\ x4'[a].key = 2
    BY <1>7, <2>0 DEF Login!SetWindow, Login!Following
  <2>2. \A j \in {1, 2} : Coming(j)' \subseteq Coming(j)
    BY <1>1, <2>0, <2>1 DEF Coming
  <2>3. x3' \in [{1, 2} -> BOOLEAN]
    BY <1>1, <2>0 DEF Login!SetWindow
  <2> QED
    BY <1>1, <1>8, <2>1, <2>2, <2>3 DEF Login!SetWindow
<1>h. CASE \E a \in Two : Login!Fault(a)
  <2> PICK a \in Two : Login!Fault(a)
    BY <1>h
  <2>1. \A k \in {1, 2} : Coming(k)' \subseteq Coming(k)
    BY <1>1, <1>7 DEF Coming, Login!Fault
  <2> QED
    BY <1>1, <1>3, <1>4, <1>7, <2>1, Bounds DEF Login!Fault, CountsHold, AccountsInv
<1>i. CASE \E k \in {1, 2} : Login!WindowEnds(k)
  <2> PICK k \in {1, 2} : Login!WindowEnds(k)
    BY <1>i
  <2>1. x3' \in [{1, 2} -> BOOLEAN]
    BY <1>1 DEF Login!WindowEnds
  <2>2. \A j : Coming(j)' = Coming(j)
    BY DEF Coming, Login!WindowEnds
  <2> QED
    BY <1>1, <1>3, <2>1, <2>2, Bounds, Limits DEF Login!WindowEnds, CountsHold, AccountsInv
<1> QED
  BY <1>a, <1>b, <1>c, <1>d, <1>e, <1>f, <1>g, <1>h, <1>i DEF Login!Next

\* What goes over the limit is in flight.
LEMMA AccountsHold == AccountsInv => Login!OverrunIsInFlight
BY Bounds, ComingCount, SameCardinality DEF AccountsInv, CountsHold, Login!OverrunIsInFlight, Login!TypeOK,
   Login!Keys

-----------------------------------------------------------------------------
(* The health of a queue: x1 .. x7 are worker, due, missed, key, announced, quiet and *)
(* starts.                                                                             *)

\* What is left of the heartbeat of a worker that was heard: an expiry, but for the
\* heartbeats it missed and the one that is due.
HeartbeatLasts ==
  \A w \in x5 : x1[w] = "running" =>
    x4[w] + x3[w] + (IF x2[w] THEN 1 ELSE 0) >= Heartbeat!Ttl

\* No heartbeat outlives the silence since the last worker.
HeartbeatsEnd ==
  /\ \A w \in Two : x4[w] + x6 <= Heartbeat!Ttl
  /\ (\E w \in Two : x1[w] = "running") => x6 = 0

HealthInv == Heartbeat!TypeOK /\ HeartbeatLasts /\ HeartbeatsEnd

\* At first no worker runs.
LEMMA HealthInit == Heartbeat!Init => HealthInv
BY Bounds DEF Heartbeat!Init, HealthInv, Heartbeat!TypeOK, HeartbeatLasts, HeartbeatsEnd, Heartbeat!Ttl

\* Every step of the heartbeats keeps the invariant.
LEMMA HealthSteps == HealthInv /\ Heartbeat!Next => HealthInv'
<1> SUFFICES ASSUME HealthInv, Heartbeat!Next PROVE HealthInv'
  OBVIOUS
<1> USE Bounds, Limits DEF Heartbeat!Ttl
<1>1. /\ x1 \in [Two -> {"off", "running", "closing"}] /\ x2 \in [Two -> BOOLEAN]
      /\ x3 \in [Two -> 0..MaxMissed] /\ x4 \in [Two -> 0..3] /\ x5 \subseteq Two
      /\ x6 \in 0..3 /\ x7 \in 0..MaxStarts
      /\ HeartbeatLasts /\ HeartbeatsEnd
  BY DEF HealthInv, Heartbeat!TypeOK
<1>2. SUFFICES /\ x1' \in [Two -> {"off", "running", "closing"}] /\ x2' \in [Two -> BOOLEAN]
               /\ x3' \in [Two -> 0..MaxMissed] /\ x4' \in [Two -> 0..3] /\ x5' \subseteq Two
               /\ x6' \in 0..3 /\ x7' \in 0..MaxStarts
               /\ HeartbeatLasts' /\ HeartbeatsEnd'
  BY DEF HealthInv, Heartbeat!TypeOK
<1> USE DEF HeartbeatLasts, HeartbeatsEnd
<1>a. CASE \E w \in Two : Heartbeat!Start(w)
  <2> PICK w \in Two : Heartbeat!Start(w)
    BY <1>a
  <2> USE DEF Heartbeat!Start, Heartbeat!Becomes
  <2>1. /\ x1' \in [Two -> {"off", "running", "closing"}] /\ x2' \in [Two -> BOOLEAN]
        /\ x3' \in [Two -> 0..MaxMissed] /\ x4' \in [Two -> 0..3] /\ x5' \subseteq Two
        /\ x6' \in 0..3 /\ x7' \in 0..MaxStarts
    BY <1>1
  <2> QED
    BY <1>1, <2>1
<1>b. CASE \E w \in Two : Heartbeat!Beat(w)
  <2> PICK w \in Two : Heartbeat!Beat(w)
    BY <1>b
  <2> USE DEF Heartbeat!Beat
  <2>1. /\ x2' \in [Two -> BOOLEAN] /\ ~x2'[w] /\ x2[w]
        /\ \A v \in Two : v # w => x2'[v] = x2[v]
    BY <1>1
  <2>2. CASE x4' = [x4 EXCEPT ![w] = Heartbeat!Ttl] /\ x3' = [x3 EXCEPT ![w] = 0] /\ x5' = x5 \cup {w}
    BY <1>1, <2>1, <2>2
  <2>3. CASE x3[w] < MaxMissed /\ x3' = [x3 EXCEPT ![w] = @ + 1] /\ UNCHANGED <<x4, x5>>
    BY <1>1, <2>1, <2>3
  <2> QED
    BY <2>2, <2>3
<1>c. CASE \E w \in Two : Heartbeat!Close(w)
  <2> PICK w \in Two : Heartbeat!Close(w)
    BY <1>c
  <2>1. x2' \in [Two -> BOOLEAN] /\ \A v \in Two : v # w => x2'[v] = x2[v]
    BY <1>1 DEF Heartbeat!Close
  <2> QED
    BY <1>1, <2>1 DEF Heartbeat!Close, Heartbeat!Becomes
<1>d. CASE \E w \in Two : Heartbeat!Stop(w)
  BY <1>1, <1>d DEF Heartbeat!Stop, Heartbeat!Becomes
<1>e. CASE \E w \in Two : Heartbeat!Kill(w)
  <2> PICK w \in Two : Heartbeat!Kill(w)
    BY <1>e
  <2>1. x2' \in [Two -> BOOLEAN] /\ \A v \in Two : v # w => x2'[v] = x2[v]
    BY <1>1 DEF Heartbeat!Kill
  <2> QED
    BY <1>1, <2>1 DEF Heartbeat!Kill, Heartbeat!Becomes
<1>f. CASE Heartbeat!Tick
  <2> USE DEF Heartbeat!Tick, Heartbeat!Expires
  <2>1. x2' \in [Two -> BOOLEAN] /\ \A w \in Two : ~x2[w] /\ (x1[w] = "running" => x2'[w])
    BY <1>1, <1>f
  <2>2. x4' \in [Two -> 0..3] /\ \A w \in Two : x4'[w] = IF x4[w] = 0 THEN 0 ELSE x4[w] - 1
    BY <1>1, <1>f
  <2>3. /\ x6' \in 0..3
        /\ (\E w \in Two : x1[w] = "running") => x6' = 0
        /\ x6' <= x6 + 1
    BY <1>1, <1>f
  <2>4. UNCHANGED <<x1, x3, x5, x7>>
    BY <1>f
  <2>5. HeartbeatLasts'
    BY <1>1, <2>1, <2>2, <2>4
  <2> QED
    BY <1>1, <2>1, <2>2, <2>3, <2>4, <2>5
<1> QED
  BY <1>a, <1>b, <1>c, <1>d, <1>e, <1>f DEF Heartbeat!Next

\* What the invariant says of the worker and its heartbeat.
LEMMA HealthHolds == HealthInv => Heartbeat!ConsumedIsUp /\ Heartbeat!UnconsumedIsDown
<1> SUFFICES ASSUME HealthInv PROVE Heartbeat!ConsumedIsUp /\ Heartbeat!UnconsumedIsDown
  OBVIOUS
<1> USE Bounds, Limits DEF HealthInv, Heartbeat!TypeOK, Heartbeat!Up, Heartbeat!Ttl
<1>1. Heartbeat!ConsumedIsUp
  BY DEF HeartbeatLasts, Heartbeat!ConsumedIsUp
<1>2. Heartbeat!UnconsumedIsDown
  BY DEF HeartbeatsEnd, Heartbeat!UnconsumedIsDown
<1> QED
  BY <1>1, <1>2

-----------------------------------------------------------------------------
(* The deployments: x1 .. x9 are data, lock, backups, restores, run, torn, again, lapses *)
(* and deaths.                                                                           *)

Copies == Operations!Copy
RunPcs == {"new", "down", "key", "restore", "fill", "record", "check", "backup",
           "up", "unlock", "ended"}
RunRecords == [pc : RunPcs, action : Operations!Actions, key : Operations!Keys \cup {0}]

\* What a run does next is of its action, and the key it restores is of a copy there is.
RunsFit ==
  \A d \in Three :
    /\ x5[d].pc = "down" => x5[d].action.kind = "down"
    /\ x5[d].pc = "key" => x5[d].action.kind \in {"restore", "latest"}
    /\ x5[d].pc \in {"restore", "fill", "record"} => x5[d].key \in 1..Len(x3)

\* Each deployment stores one copy at most.
Past == {d \in Three : x5[d].pc \in {"up", "unlock", "ended"}}
OneCopyEach == Len(x3) <= Cardinality(Past)

\* Whoever holds the lock is one more than the runs whose lock expired.
AliveRuns == {d \in Three : x5[d].pc \notin {"new", "ended"}}
LockCounts == Cardinality(AliveRuns) <= (IF x2 THEN 1 ELSE 0) + x8

\* While no lock expired: what is being restored was not recorded, what was restored is
\* recorded or about to be, and nothing is torn but what is being restored.
RestoresHold ==
  x8 = 0 =>
    /\ \A d \in Three : x5[d].pc \in {"restore", "fill"} => x5[d].key \notin x4
    /\ \A d \in Three : x5[d].pc = "record" => x6 = 0
    /\ \A k \in Operations!Keys :
         /\ x7[k] # "twice"
         /\ x7[k] = "once" => k \in x4 \/ \E d \in Three : x5[d].pc = "record" /\ x5[d].key = k
    /\ x6 \notin x4

\* A copy from before the migration m.
Stored(m) == \E k \in 1..Len(x3) : x3[k].applied < m

\* What is destructive and applied, in the database, in a copy, or by a run that is at it,
\* was stored before.
CopiesHold ==
  /\ Operations!DestroyedIsStored
  /\ \A k \in 1..Len(x3) : \A m \in Destructive \cap 1..x3[k].applied : Stored(m)
  /\ (\E d \in Three : x5[d].pc = "up") => \A m \in Destructive \cap 1..Last : Stored(m)

DeployInv ==
  Operations!TypeOK /\ RunsFit /\ OneCopyEach /\ LockCounts /\ RestoresHold /\ CopiesHold

\* The types, part by part.
DeployShape ==
  /\ x1 \in Copies /\ x2 \in BOOLEAN /\ x3 \in Seq(Copies) /\ x4 \subseteq Operations!Keys
  /\ x5 \in [Three -> RunRecords] /\ x6 \in Operations!Keys \cup {0}
  /\ x7 \in [Operations!Keys -> {"never", "once", "killed", "twice"}]
  /\ x8 \in 0..MaxLapses /\ x9 \in 0..MaxDeaths

\* The types, under a name.
LEMMA DeployShapes == Operations!TypeOK <=> DeployShape
BY DEF Operations!TypeOK, DeployShape, Copies, RunRecords, RunPcs, Operations!None

\* The keys of the copies are the first numbers.
LEMMA KeysAre == Operations!Keys = 1..Cardinality(Three) /\ Cardinality(Three) \in Nat
BY Finite, SameCardinality, FS_CardinalityType DEF Operations!Keys

\* The deployments that took their copy are at most all.
LEMMA PastCount == Cardinality(Past) <= Cardinality(Three) /\ IsFiniteSet(Past) /\ Cardinality(Past) \in Nat
BY Finite, FS_Subset, FS_CardinalityType DEF Past

\* At first nothing is deployed.
LEMMA DeployInit == Operations!Init => DeployInv
<1> SUFFICES ASSUME Operations!Init PROVE DeployInv
  OBVIOUS
<1> USE Bounds DEF Operations!Init, Operations!Unborn, Operations!None
<1>1. Operations!Up \in Operations!Actions
  BY DEF Operations!Actions
<1>2. Operations!Unborn \in RunRecords
  BY <1>1 DEF RunRecords, RunPcs
<1>3. x1 \in Copies
  BY DEF Copies, Operations!Copy
<1>4. DeployShape
  <2>1. x2 \in BOOLEAN
    OBVIOUS
  <2>2. x3 \in Seq(Copies)
    OBVIOUS
  <2> QED
    BY <1>2, <1>3, <2>1, <2>2 DEF DeployShape
<1>5. RunsFit /\ LockCounts
  <2>1. AliveRuns = {}
    BY DEF AliveRuns
  <2> QED
    BY <2>1, FS_EmptySet DEF RunsFit, LockCounts
<1>6. OneCopyEach
  BY PastCount DEF OneCopyEach
<1>7. RestoresHold
  BY DEF RestoresHold
<1>8. CopiesHold
  BY DEF CopiesHold, Operations!DestroyedIsStored
<1> QED
  BY <1>4, DeployShapes, <1>5, <1>6, <1>7, <1>8 DEF DeployInv

\* The actions, one deployment at a time.
LEMMA DeployCases ==
  ASSUME Operations!Next
  PROVE  \/ \E d \in Three :
               \/ \E action \in Operations!Actions : Operations!Start(d, action)
               \/ Operations!Unlock(d) \/ Operations!Kill(d) \/ Operations!Down(d)
               \/ Operations!FindKey(d) \/ Operations!Drop(d) \/ Operations!Fill(d)
               \/ Operations!Record(d) \/ Operations!Check(d) \/ Operations!Backup(d)
               \/ Operations!Migrate(d) \/ Operations!Fail(d)
         \/ \E w \in Writes : Operations!Write(w)
         \/ Operations!Lapse
BY DEF Operations!Next

\* What Go does to the runs.
LEMMA GoEffect ==
  ASSUME DeployShape, NEW d \in Three, NEW pc \in RunPcs, Operations!Go(d, pc)
  PROVE  /\ x5' \in [Three -> RunRecords]
         /\ x5'[d].pc = pc /\ x5'[d].action = x5[d].action /\ x5'[d].key = x5[d].key
         /\ \A e \in Three : e # d => x5'[e] = x5[e]
BY DEF DeployShape, Operations!Go, RunRecords

\* How far a run may go in one step.
LEMMA RunMoves ==
  ASSUME DeployInv, NEW d \in Three,
         \/ \E action \in Operations!Actions : Operations!Start(d, action)
         \/ Operations!Unlock(d) \/ Operations!Kill(d) \/ Operations!Down(d)
         \/ Operations!FindKey(d) \/ Operations!Drop(d) \/ Operations!Fill(d)
         \/ Operations!Record(d) \/ Operations!Check(d) \/ Operations!Backup(d)
         \/ Operations!Migrate(d) \/ Operations!Fail(d)
  PROVE  /\ x5' \in [Three -> RunRecords]
         /\ \A e \in Three : e # d => x5'[e] = x5[e]
         /\ x5'[d].action = x5[d].action \/ x5[d].pc = "new"
         /\ x5'[d].key = x5[d].key \/ x5'[d].pc \notin {"fill", "record"}
         /\ x5[d].pc \in {"up", "unlock", "ended"} => x5'[d].pc \in {"up", "unlock", "ended"}
         /\ x5'[d].pc = "down" => x5'[d].action.kind = "down"
         /\ x5'[d].pc = "key" => x5'[d].action.kind \in {"restore", "latest"}
         /\ x5'[d].pc \in {"restore", "fill", "record"} => x5'[d].key \in 1..Len(x3)
<1> USE DEF RunPcs
<1>0. DeployShape /\ RunsFit /\ Len(x3) <= Cardinality(Three) /\ Len(x3) \in Nat
  <2>1. DeployShape /\ RunsFit /\ Len(x3) <= Cardinality(Past)
    BY DeployShapes DEF DeployInv, OneCopyEach
  <2>2. Len(x3) \in Nat
    BY <2>1, LenProperties DEF DeployShape
  <2> QED
    BY <2>1, <2>2, PastCount, KeysAre
<1>1. CASE \E action \in Operations!Actions : Operations!Start(d, action)
  <2> PICK action \in Operations!Actions : Operations!Start(d, action)
    BY <1>1
  <2> PICK pc \in {"down", "key", "check"} :
             /\ x5' = [x5 EXCEPT ![d] = [pc |-> pc, action |-> action, key |-> 0]]
             /\ pc = "down" => action.kind = "down"
             /\ pc = "key" => action.kind \in {"restore", "latest"}
    BY DEF Operations!Start, Operations!None
  <2>1. [pc |-> pc, action |-> action, key |-> 0] \in RunRecords
    BY DEF RunRecords
  <2>2. x5[d].pc = "new"
    BY DEF Operations!Start, Operations!CanLock
  <2> QED
    BY <1>0, <2>1, <2>2 DEF DeployShape
<1>2. CASE Operations!Unlock(d)
  BY <1>0, <1>2, GoEffect DEF Operations!Unlock, RunsFit
<1>3. CASE Operations!Kill(d)
  BY <1>0, <1>3, GoEffect DEF Operations!Kill, Operations!Alive, RunsFit
<1>4. CASE Operations!Down(d)
  BY <1>0, <1>4, GoEffect DEF Operations!Down, DeployShape, RunsFit
<1>5. CASE Operations!FindKey(d)
  <2> DEFINE key == IF x5[d].action.kind = "latest" THEN Len(x3) ELSE x5[d].action.arg
             pc == IF key \notin 1..Len(x3) THEN "unlock"
                   ELSE IF Operations!IsRestored(key) THEN "check" ELSE "restore"
             q == [pc |-> pc, action |-> x5[d].action, key |-> key]
  <2>1. x5[d].pc = "key" /\ x5[d].action \in Operations!Actions /\ x5[d] \in RunRecords
    BY <1>0, <1>5 DEF Operations!FindKey, DeployShape, RunRecords
  <2>2. key \in Operations!Keys \cup {0}
    <3>1. CASE x5[d].action.kind = "latest"
      BY <1>0, <3>1, KeysAre
    <3>2. CASE x5[d].action.kind = "restore"
      BY <2>1, <3>2 DEF Operations!Actions, Operations!Up
    <3> QED
      BY <1>0, <2>1, <3>1, <3>2 DEF RunsFit
  <2>3. pc \in {"unlock", "check", "restore"}
    OBVIOUS
  <2>4. x5' = [x5 EXCEPT ![d].key = key, ![d].pc = pc]
    BY <1>5 DEF Operations!FindKey
  <2> HIDE DEF key, pc
  <2>5. q \in RunRecords
    BY <2>1, <2>2, <2>3 DEF RunRecords
  <2>6. x5'[d] = [x5[d] EXCEPT !.key = key, !.pc = pc] /\ \A e \in Three : e # d => x5'[e] = x5[e]
    BY <1>0, <2>4 DEF DeployShape
  <2>7. x5'[d] = q
    BY <2>1, <2>6 DEF RunRecords
  <2>8. x5' \in [Three -> RunRecords]
    BY <1>0, <2>4, <2>5, <2>6, <2>7 DEF DeployShape
  <2> HIDE DEF q
  <2>9. q.pc = pc /\ q.action = x5[d].action /\ q.key = key
    BY DEF q
  <2>10. pc = "restore" => key \in 1..Len(x3)
    BY DEF pc
  <2> QED
    BY <2>1, <2>3, <2>6, <2>7, <2>8, <2>9, <2>10
<1>6. CASE Operations!Drop(d)
  BY <1>0, <1>6, GoEffect DEF Operations!Drop, RunsFit
<1>7. CASE Operations!Fill(d)
  BY <1>0, <1>7, GoEffect DEF Operations!Fill, RunsFit
<1>8. CASE Operations!Record(d)
  BY <1>0, <1>8, GoEffect DEF Operations!Record, RunsFit
<1>9. CASE Operations!Check(d)
  BY <1>0, <1>9, GoEffect DEF Operations!Check, RunsFit
<1>10. CASE Operations!Backup(d)
  BY <1>0, <1>10, GoEffect DEF Operations!Backup, RunsFit
<1>11. CASE Operations!Migrate(d)
  BY <1>0, <1>11, GoEffect DEF Operations!Migrate, DeployShape, RunsFit
<1>12. CASE Operations!Fail(d)
  BY <1>0, <1>12, GoEffect DEF Operations!Fail, Operations!Alive, RunsFit
<1> QED
  BY <1>1, <1>2, <1>3, <1>4, <1>5, <1>6, <1>7, <1>8, <1>9, <1>10, <1>11, <1>12

\* The step of a run.
Moves(d) ==
  \/ \E action \in Operations!Actions : Operations!Start(d, action)
  \/ Operations!Unlock(d) \/ Operations!Kill(d) \/ Operations!Down(d)
  \/ Operations!FindKey(d) \/ Operations!Drop(d) \/ Operations!Fill(d)
  \/ Operations!Record(d) \/ Operations!Check(d) \/ Operations!Backup(d)
  \/ Operations!Migrate(d) \/ Operations!Fail(d)

\* Every step keeps the types, and the copies that are made.
LEMMA DeployTypes ==
  ASSUME DeployInv, Operations!Next
  PROVE  DeployShape' /\ RunsFit' /\ \A k \in 1..Len(x3) : k \in 1..Len(x3') /\ x3'[k] = x3[k]
<1>0. /\ DeployShape /\ RunsFit /\ Len(x3) <= Cardinality(Three) /\ Len(x3) \in Nat
      /\ Cardinality(Three) \in Nat /\ Operations!Keys = 1..Cardinality(Three)
  <2>1. DeployShape /\ RunsFit /\ Len(x3) <= Cardinality(Past)
    BY DeployShapes DEF DeployInv, OneCopyEach
  <2>2. Len(x3) \in Nat
    BY <2>1, LenProperties DEF DeployShape
  <2> QED
    BY <2>1, <2>2, PastCount, KeysAre
<1>1. ASSUME NEW w \in Writes, Operations!Write(w)
      PROVE  DeployShape' /\ RunsFit' /\ x3' = x3
  <2>1. [x1 EXCEPT !.writes = @ \cup {w}] \in Copies
    BY <1>0 DEF DeployShape, Copies, Operations!Copy
  <2> QED
    BY <1>0, <1>1, <2>1 DEF Operations!Write, DeployShape, RunsFit
<1>2. ASSUME Operations!Lapse
      PROVE  DeployShape' /\ RunsFit' /\ x3' = x3
  <2>1. x2' \in BOOLEAN
    BY <1>2 DEF Operations!Lapse
  <2>2. x8' \in 0..MaxLapses
    BY <1>0, <1>2, Bounds DEF Operations!Lapse, DeployShape
  <2> QED
    BY <1>0, <1>2, <2>1, <2>2 DEF Operations!Lapse, DeployShape, RunsFit
<1>3. ASSUME NEW d \in Three, Moves(d)
      PROVE  DeployShape' /\ RunsFit' /\ \A k \in 1..Len(x3) : k \in 1..Len(x3') /\ x3'[k] = x3[k]
  <2>1. /\ x5' \in [Three -> RunRecords]
        /\ \A e \in Three : e # d => x5'[e] = x5[e]
        /\ x5'[d].action = x5[d].action \/ x5[d].pc = "new"
        /\ x5'[d].key = x5[d].key \/ x5'[d].pc \notin {"fill", "record"}
    BY <1>3, RunMoves DEF Moves
  <2>2. /\ Len(x3') >= Len(x3) /\ Len(x3') \in Nat /\ x3' \in Seq(Copies)
        /\ \A k \in 1..Len(x3) : x3'[k] = x3[k]
    <3>1. CASE x3' = x3
      BY <1>0, <3>1 DEF DeployShape
    <3>2. CASE x3' = Append(x3, x1)
      BY <1>0, <3>2, AppendProperties DEF DeployShape
    <3> QED
      BY <1>3, <3>1, <3>2 DEF Moves, Operations!Start, Operations!Unlock, Operations!Kill,
         Operations!Down, Operations!FindKey, Operations!Drop, Operations!Fill,
         Operations!Record, Operations!Check, Operations!Backup, Operations!Migrate, Operations!Fail
  <2>3. RunsFit'
    BY <1>0, <1>3, <2>1, <2>2, RunMoves DEF RunsFit, Moves
  <2>4. x1' \in Copies
    <3>0. x1 \in [writes : SUBSET Writes, applied : 0..Last] /\ x1.applied \in 0..Last
      BY <1>0 DEF DeployShape, Copies, Operations!Copy
    <3>a. ASSUME NEW a \in 0..Last PROVE [x1 EXCEPT !.applied = a] \in Copies
      BY <3>0 DEF Copies, Operations!Copy
    <3>1. CASE x1' # x1 /\ Operations!Down(d)
      <4>1. x5[d].action \in Operations!Actions /\ x5[d].action.kind = "down"
        BY <1>0, <3>1 DEF DeployShape, RunRecords, RunsFit, Operations!Down
      <4>2. x5[d].action.arg \in 1..Last
        BY <4>1 DEF Operations!Actions, Operations!Up, Operations!Migrations
      <4>3. ~(x1.applied < x5[d].action.arg) /\ x1' = [x1 EXCEPT !.applied = x1.applied - 1]
        BY <3>0, <3>1 DEF Operations!Down
      <4>4. x1.applied - 1 \in 0..Last
        BY <3>0, <4>2, <4>3, Bounds
      <4> QED
        BY <3>a, <4>3, <4>4
    <3>2. CASE x1' # x1 /\ Operations!Migrate(d)
      <4>1. Operations!Pending # {} /\ x1' = [x1 EXCEPT !.applied = x1.applied + 1]
        BY <3>0, <3>2 DEF Operations!Migrate
      <4>2. x1.applied + 1 \in 0..Last
        BY <3>0, <4>1, Bounds DEF Operations!Pending
      <4> QED
        BY <3>a, <4>1, <4>2
    <3>3. CASE Operations!Fill(d)
      BY <1>0, <3>3, ElementOfSeq DEF DeployShape, RunsFit, Operations!Fill
    <3>4. CASE x1' = x1
      BY <1>0, <3>4 DEF DeployShape
    <3> QED
      BY <1>3, <3>1, <3>2, <3>3, <3>4 DEF Moves, Operations!Start, Operations!Unlock,
         Operations!Kill, Operations!Down, Operations!FindKey, Operations!Drop, Operations!Record,
         Operations!Check, Operations!Backup, Operations!Migrate, Operations!Fail
  <2>5. x5[d].key \in Operations!Keys \cup {0}
    BY <1>0 DEF DeployShape, RunRecords
  <2>6. x5[d].pc \in {"restore", "fill", "record"} => x5[d].key \in Operations!Keys
    BY <1>0 DEF RunsFit
  <2>7. x4' \subseteq Operations!Keys /\ x6' \in Operations!Keys \cup {0}
    BY <1>0, <1>3, <2>5, <2>6 DEF DeployShape, Moves, Operations!Start, Operations!Unlock,
       Operations!Kill, Operations!Down, Operations!FindKey, Operations!Drop, Operations!Fill,
       Operations!Record, Operations!Check, Operations!Backup, Operations!Migrate,
       Operations!Fail, Operations!None
  <2>8. x7' \in [Operations!Keys -> {"never", "once", "killed", "twice"}]
    BY <1>0, <1>3 DEF DeployShape, Moves, Operations!Start, Operations!Unlock,
       Operations!Kill, Operations!Down, Operations!FindKey, Operations!Drop, Operations!Fill,
       Operations!Record, Operations!Check, Operations!Backup, Operations!Migrate,
       Operations!Fail, Operations!Unrecorded
  <2>9. x2' \in BOOLEAN
    BY <1>0, <1>3 DEF DeployShape, Moves, Operations!Start, Operations!Unlock,
       Operations!Kill, Operations!Down, Operations!FindKey, Operations!Drop, Operations!Fill,
       Operations!Record, Operations!Check, Operations!Backup, Operations!Migrate,
       Operations!Fail
  <2>10. x8' \in 0..MaxLapses
    BY SMTT(40), <1>0, <1>3, Bounds DEF DeployShape, Moves, Operations!Start, Operations!Unlock,
       Operations!Kill, Operations!Down, Operations!FindKey, Operations!Drop, Operations!Fill,
       Operations!Record, Operations!Check, Operations!Backup, Operations!Migrate,
       Operations!Fail
  <2>11. x9' \in 0..MaxDeaths
    BY SMTT(40), <1>0, <1>3, Bounds DEF DeployShape, Moves, Operations!Start, Operations!Unlock,
       Operations!Kill, Operations!Down, Operations!FindKey, Operations!Drop, Operations!Fill,
       Operations!Record, Operations!Check, Operations!Backup, Operations!Migrate,
       Operations!Fail
  <2> QED
    BY <1>0, <2>1, <2>2, <2>3, <2>4, <2>7, <2>8, <2>9, <2>10, <2>11 DEF DeployShape
<1> QED
  BY <1>0, <1>1, <1>2, <1>3, DeployCases DEF Moves

\* Every step keeps one copy for each deployment.
LEMMA DeployCopies ==
  ASSUME DeployInv, Operations!Next
  PROVE  OneCopyEach'
<1>0. /\ DeployShape /\ OneCopyEach /\ Len(x3) \in Nat
      /\ IsFiniteSet(Past') /\ IsFiniteSet(Past) /\ Cardinality(Past) \in Nat /\ Cardinality(Past') \in Nat
  <2>1. DeployShape /\ OneCopyEach
    BY DeployShapes DEF DeployInv
  <2>2. Len(x3) \in Nat
    BY <2>1, LenProperties DEF DeployShape
  <2>3. IsFiniteSet(Past') /\ IsFiniteSet(Past)
    BY Finite, FS_Subset DEF Past
  <2> QED
    BY <2>1, <2>2, <2>3, FS_CardinalityType
<1>1. CASE UNCHANGED <<x3, x5>>
  BY <1>0, <1>1 DEF OneCopyEach, Past
<1>2. ASSUME NEW d \in Three, Moves(d) PROVE OneCopyEach'
  <2>1. /\ \A e \in Three : e # d => x5'[e] = x5[e]
        /\ x5[d].pc \in {"up", "unlock", "ended"} => x5'[d].pc \in {"up", "unlock", "ended"}
    BY <1>2, RunMoves DEF Moves
  <2>2. Past \subseteq Past'
    BY <2>1 DEF Past
  <2>3. CASE x3' = x3
    BY <1>0, <2>2, <2>3, FS_Subset DEF OneCopyEach
  <2>4. CASE x3' # x3
    <3>1. Operations!Backup(d) /\ x3' = Append(x3, x1) /\ Operations!Go(d, "up")
      BY <1>2, <2>4 DEF Moves, Operations!Start, Operations!Unlock, Operations!Kill,
         Operations!Down, Operations!FindKey, Operations!Drop, Operations!Fill,
         Operations!Record, Operations!Check, Operations!Backup, Operations!Migrate, Operations!Fail
    <3>2. d \notin Past /\ d \in Past'
      BY <1>0, <3>1, GoEffect DEF Past, Operations!Backup, RunPcs
    <3>3. Cardinality(Past \cup {d}) = Cardinality(Past) + 1 /\ Past \cup {d} \subseteq Past'
      BY <1>0, <2>2, <3>2, FS_AddElement
    <3>4. Cardinality(Past) + 1 <= Cardinality(Past')
      BY <1>0, <3>3, FS_Subset
    <3>5. Len(x3') = Len(x3) + 1
      BY <1>0, <3>1, AppendProperties DEF DeployShape
    <3> QED
      BY <1>0, <3>4, <3>5 DEF OneCopyEach
  <2> QED
    BY <2>3, <2>4
<1> QED
  BY <1>1, <1>2, DeployCases DEF Moves, Operations!Write, Operations!Lapse

\* The deployments that are alive can be counted.
LEMMA AliveCount ==
  /\ IsFiniteSet(AliveRuns) /\ Cardinality(AliveRuns) \in Nat
  /\ IsFiniteSet(AliveRuns') /\ Cardinality(AliveRuns') \in Nat
<1>1. IsFiniteSet(AliveRuns) /\ IsFiniteSet(AliveRuns')
  BY Finite, FS_Subset DEF AliveRuns
<1> QED
  BY <1>1, FS_CardinalityType

\* Every step keeps as many deployments alive as there were locks.
LEMMA DeployLocks ==
  ASSUME DeployInv, Operations!Next
  PROVE  LockCounts' /\ x8' >= x8
<1>0. DeployShape /\ LockCounts /\ x8 \in Nat
  <2>1. DeployShape /\ LockCounts
    BY DeployShapes DEF DeployInv
  <2> QED
    BY <2>1, Bounds DEF DeployShape
<1>1. ASSUME NEW w \in Writes, Operations!Write(w) PROVE LockCounts' /\ x8' >= x8
  BY <1>0, <1>1 DEF Operations!Write, LockCounts, AliveRuns
<1>2. ASSUME Operations!Lapse PROVE LockCounts' /\ x8' >= x8
  <2>1. AliveRuns' = AliveRuns
    BY <1>2 DEF Operations!Lapse, AliveRuns
  <2>2. CASE x8' = x8 + 1
    BY <1>0, <1>2, <2>1, <2>2, AliveCount DEF Operations!Lapse, LockCounts
  <2>3. CASE (~\E d \in Three : Operations!Alive(d)) /\ x8' = x8
    <3>1. AliveRuns = {}
      BY <2>3 DEF Operations!Alive, AliveRuns
    <3> QED
      BY <1>0, <1>2, <2>1, <2>3, <3>1, FS_EmptySet DEF Operations!Lapse, LockCounts
  <2> QED
    BY <1>2, <2>2, <2>3 DEF Operations!Lapse
<1>3. ASSUME NEW d \in Three, Moves(d) PROVE LockCounts' /\ x8' >= x8
  <2>0. \A e \in Three : e # d => x5'[e] = x5[e]
    BY <1>3, RunMoves DEF Moves
  <2>1. CASE \E action \in Operations!Actions : Operations!Start(d, action)
    <3>1. ~x2 /\ x2' /\ x8' = x8 /\ d \notin AliveRuns
      BY <2>1 DEF Operations!Start, Operations!CanLock, AliveRuns
    <3>2. AliveRuns' \subseteq AliveRuns \cup {d}
      BY <2>0 DEF AliveRuns
    <3>3. Cardinality(AliveRuns \cup {d}) = Cardinality(AliveRuns) + 1 /\ IsFiniteSet(AliveRuns \cup {d})
      <4>1. IsFiniteSet(AliveRuns)
        BY AliveCount
      <4> QED
        BY <3>1, <4>1, FS_AddElement
    <3>4. Cardinality(AliveRuns') <= Cardinality(AliveRuns \cup {d}) /\ Cardinality(AliveRuns \cup {d}) \in Nat
      BY <3>2, <3>3, FS_Subset, FS_CardinalityType
    <3> QED
      BY <1>0, <3>1, <3>3, <3>4, AliveCount DEF LockCounts
  <2>2. CASE Operations!Unlock(d)
    <3>1. x5'[d].pc = "ended" /\ x5[d].pc = "unlock" /\ ~x2' /\ x8' = x8
      BY <1>0, <2>2, GoEffect DEF Operations!Unlock, RunPcs
    <3>2. AliveRuns' = AliveRuns \ {d} /\ d \in AliveRuns
      BY <2>0, <3>1 DEF AliveRuns
    <3>3. Cardinality(AliveRuns') = Cardinality(AliveRuns) - 1
      BY <3>2, AliveCount, FS_RemoveElement
    <3> QED
      BY <1>0, <3>1, <3>3, AliveCount DEF LockCounts
  <2>3. CASE \/ Operations!Kill(d) \/ Operations!Down(d)
             \/ Operations!FindKey(d) \/ Operations!Drop(d) \/ Operations!Fill(d)
             \/ Operations!Record(d) \/ Operations!Check(d) \/ Operations!Backup(d)
             \/ Operations!Migrate(d) \/ Operations!Fail(d)
    <3>1. x8' = x8 /\ x2' = x2 /\ x5[d].pc \notin {"new", "ended"}
      BY <2>3 DEF Operations!Kill, Operations!Down, Operations!FindKey, Operations!Drop,
         Operations!Fill, Operations!Record, Operations!Check, Operations!Backup,
         Operations!Migrate, Operations!Fail, Operations!Alive
    <3>2. AliveRuns' \subseteq AliveRuns
      BY <2>0, <3>1 DEF AliveRuns
    <3>3. Cardinality(AliveRuns') <= Cardinality(AliveRuns)
      BY <3>2, AliveCount, FS_Subset
    <3> QED
      BY <1>0, <3>1, <3>3, AliveCount DEF LockCounts
  <2> QED
    BY <1>3, <2>1, <2>2, <2>3 DEF Moves
<1> QED
  BY <1>1, <1>2, <1>3, DeployCases DEF Moves

\* While no lock expired there is one run at a time.
LEMMA OneAtATime ==
  ASSUME DeployShape, LockCounts, x8 = 0, NEW d \in AliveRuns, NEW e \in AliveRuns
  PROVE  d = e
<1> SUFFICES ASSUME d # e PROVE FALSE
  OBVIOUS
<1>1. Cardinality({d, e}) = 2 /\ {d, e} \subseteq AliveRuns
  <2>1. IsFiniteSet({d}) /\ Cardinality({d}) = 1 /\ e \notin {d} /\ {d, e} = {d} \cup {e}
    BY FS_Singleton
  <2> QED
    BY <2>1, FS_AddElement
<1>2. Cardinality(AliveRuns) <= 1
  BY AliveCount DEF LockCounts
<1> QED
  BY <1>1, <1>2, AliveCount, FS_Subset

\* The step of a run touches restores, torn and again only while it restores.
LEMMA DeployRestores ==
  ASSUME DeployInv, Operations!Next
  PROVE  RestoresHold'
<1> SUFFICES ASSUME x8' = 0 PROVE RestoresHold'
  BY DEF RestoresHold
<1>0. /\ DeployShape /\ RunsFit /\ LockCounts /\ x8 = 0 /\ RestoresHold
      /\ 0 \notin Operations!Keys /\ 0 \notin x4
  <2>1. DeployShape /\ RunsFit /\ LockCounts /\ RestoresHold
    BY DeployShapes DEF DeployInv
  <2>2. x8 = 0
    BY <2>1, DeployLocks, Bounds DEF DeployShape
  <2> QED
    BY <2>1, <2>2, KeysAre DEF DeployShape
<1>1. CASE UNCHANGED <<x4, x5, x6, x7>>
  BY <1>0, <1>1 DEF RestoresHold
<1>2. ASSUME NEW d \in Three, Moves(d) PROVE RestoresHold'
  <2>0. /\ \A e \in Three : e # d => x5'[e] = x5[e]
        /\ x5[d].key \in Operations!Keys \cup {0}
        /\ x5[d].pc \in {"restore", "fill", "record"} => x5[d].key \in Operations!Keys
        /\ \A e \in Three : e # d /\ x5[e].pc \notin {"new", "ended"} => x5[d].pc \in {"new", "ended"}
    <3>1. \A e \in Three : e # d => x5'[e] = x5[e]
      BY <1>2, RunMoves DEF Moves
    <3>2. x5[d].key \in Operations!Keys \cup {0}
      BY <1>0 DEF DeployShape, RunRecords
    <3>3. x5[d].pc \in {"restore", "fill", "record"} => x5[d].key \in Operations!Keys
      BY <1>0, <3>2 DEF RunsFit
    <3>4. ASSUME NEW e \in Three, e # d, x5[e].pc \notin {"new", "ended"} PROVE x5[d].pc \in {"new", "ended"}
      BY <1>0, <3>4, OneAtATime DEF AliveRuns
    <3> QED
      BY <3>1, <3>2, <3>3, <3>4
  <2> USE DEF RestoresHold
  <2>1. CASE Operations!Drop(d)
    BY <1>0, <2>0, <2>1, GoEffect DEF Operations!Drop, RunPcs
  <2>2. CASE Operations!Fill(d)
    <3>1. /\ x5[d].pc = "fill" /\ x5'[d].pc = "record" /\ x5'[d].key = x5[d].key
          /\ x6' = 0 /\ x4' = x4 /\ x8' = x8
      BY <1>0, <2>2, GoEffect DEF Operations!Fill, Operations!None, RunPcs
    <3>2. x7[x5[d].key] \notin {"once", "twice"}
      BY <1>0, <2>0, <3>1
    <3>3. /\ x7'[x5[d].key] \in {"once", "killed"}
          /\ \A k \in Operations!Keys : k # x5[d].key => x7'[k] = x7[k]
      BY <1>0, <2>0, <2>2, <3>1, <3>2 DEF Operations!Fill, DeployShape
    <3> QED
      BY <1>0, <2>0, <3>1, <3>2, <3>3
  <2>3. CASE Operations!Record(d)
    BY <1>0, <2>0, <2>3, GoEffect DEF Operations!Record, RunPcs
  <2>4. CASE Operations!FindKey(d)
    <3>1. /\ x5[d].pc = "key" /\ UNCHANGED <<x4, x6, x7>> /\ x5'[d].pc \in {"unlock", "check", "restore"}
          /\ x5'[d].pc = "restore" => x5'[d].key \notin x4
      BY <1>0, <2>4 DEF Operations!FindKey, Operations!IsRestored, DeployShape, RunRecords
    <3> QED
      BY <1>0, <2>0, <3>1
  <2>5. CASE Operations!Kill(d) \/ Operations!Fail(d)
    <3>1. /\ x5'[d].pc \in {"ended", "unlock"} /\ UNCHANGED <<x4, x6>>
          /\ \/ x5[d].pc = "record" /\ x7' = [x7 EXCEPT ![x5[d].key] = "killed"]
             \/ x5[d].pc # "record" /\ x7' = x7
      BY <1>0, <2>5, GoEffect DEF Operations!Kill, Operations!Fail, Operations!Unrecorded, RunPcs
    <3> QED
      BY <1>0, <2>0, <3>1 DEF DeployShape
  <2>6. CASE \/ \E action \in Operations!Actions : Operations!Start(d, action)
             \/ Operations!Unlock(d) \/ Operations!Down(d)
             \/ Operations!Check(d) \/ Operations!Backup(d) \/ Operations!Migrate(d)
    <3>1. /\ UNCHANGED <<x4, x6, x7>>
          /\ x5[d].pc \notin {"restore", "fill", "record"}
          /\ x5'[d].pc \notin {"restore", "fill", "record"}
      <4>1. CASE \E action \in Operations!Actions : Operations!Start(d, action)
        <5> PICK action \in Operations!Actions : Operations!Start(d, action)
          BY <4>1
        <5> PICK pc \in {"down", "key", "check"} :
                   x5' = [x5 EXCEPT ![d] = [pc |-> pc, action |-> action, key |-> 0]]
          BY DEF Operations!Start, Operations!None
        <5> QED
          BY <1>0 DEF Operations!Start, Operations!CanLock, DeployShape
      <4>2. CASE \/ Operations!Unlock(d) \/ Operations!Down(d)
                 \/ Operations!Check(d) \/ Operations!Backup(d) \/ Operations!Migrate(d)
        BY <1>0, <4>2, GoEffect DEF Operations!Unlock, Operations!Down, Operations!Check,
           Operations!Backup, Operations!Migrate, RunPcs
      <4> QED
        BY <2>6, <4>1, <4>2
    <3> QED
      BY <1>0, <2>0, <3>1
  <2> QED
    BY <1>2, <2>1, <2>2, <2>3, <2>4, <2>5, <2>6 DEF Moves
<1> QED
  BY <1>1, <1>2, DeployCases DEF Moves, Operations!Write, Operations!Lapse

\* Every step keeps what the copies store.
LEMMA DeployStored ==
  ASSUME DeployInv, Operations!Next
  PROVE  CopiesHold'
<1>0. /\ DeployShape /\ DeployShape' /\ RunsFit /\ CopiesHold /\ Len(x3) \in Nat /\ Len(x3') \in Nat
      /\ \A k \in 1..Len(x3) : k \in 1..Len(x3') /\ x3'[k] = x3[k]
      /\ Last \in Nat
  <2>1. DeployShape /\ DeployShape' /\ RunsFit /\ CopiesHold
    BY DeployShapes, DeployTypes DEF DeployInv
  <2>2. Len(x3) \in Nat /\ Len(x3') \in Nat
    BY <2>1, LenProperties DEF DeployShape
  <2> QED
    BY <2>1, <2>2, DeployTypes, Bounds
\* A copy stays.
<1>1. \A m : Stored(m) => Stored(m)'
  BY <1>0 DEF Stored
<1>2. x1.applied \in 0..Last /\ x1'.applied \in 0..Last
  BY <1>0 DEF DeployShape, Copies, Operations!Copy
<1>3. \A m \in Destructive \cap 1..x1.applied : Stored(m)
  BY <1>0 DEF CopiesHold, Operations!DestroyedIsStored, Stored
<1>4. SUFFICES /\ \A m \in Destructive \cap 1..x1'.applied : Stored(m)'
               /\ \A k \in 1..Len(x3') : \A m \in Destructive \cap 1..x3'[k].applied : Stored(m)'
               /\ (\E d \in Three : x5'[d].pc = "up") => \A m \in Destructive \cap 1..Last : Stored(m)'
  BY DEF CopiesHold, Operations!DestroyedIsStored, Stored
<1>5. CASE UNCHANGED <<x3, x5>> /\ x1'.applied = x1.applied
  BY <1>0, <1>1, <1>3, <1>5 DEF CopiesHold
<1>6. ASSUME NEW d \in Three, Moves(d)
      PROVE  /\ \A m \in Destructive \cap 1..x1'.applied : Stored(m)'
             /\ \A k \in 1..Len(x3') : \A m \in Destructive \cap 1..x3'[k].applied : Stored(m)'
             /\ (\E e \in Three : x5'[e].pc = "up") => \A m \in Destructive \cap 1..Last : Stored(m)'
  <2>0. \A e \in Three : e # d => x5'[e] = x5[e]
    BY <1>6, RunMoves DEF Moves
  <2>1. CASE Operations!Backup(d) /\ x3' = Append(x3, x1) /\ Operations!Go(d, "up")
    <3>1. /\ Len(x3') = Len(x3) + 1 /\ x3'[Len(x3) + 1] = x1 /\ x1' = x1
      BY <1>0, <2>1, AppendProperties DEF DeployShape, Operations!Backup
    <3>2. ASSUME NEW m \in Destructive \cap 1..Last PROVE Stored(m)'
      <4>1. CASE m <= x1.applied
        BY <1>1, <1>2, <1>3, <4>1
      <4>2. CASE m > x1.applied
        BY <1>0, <3>1, <4>2 DEF Stored
      <4> QED
        BY <1>0, <1>2, <4>1, <4>2
    <3>3. ASSUME NEW k \in 1..Len(x3'), NEW m \in Destructive \cap 1..x3'[k].applied PROVE Stored(m)'
      <4>1. CASE k = Len(x3) + 1
        BY <1>1, <1>3, <3>1, <4>1
      <4>2. CASE k \in 1..Len(x3)
        BY <1>0, <1>1, <4>2 DEF CopiesHold
      <4> QED
        BY <1>0, <3>1, <4>1, <4>2
    <3> QED
      BY <1>1, <1>3, <3>1, <3>2, <3>3
  <2>2. CASE x3' = x3
    <3>1. \A k \in 1..Len(x3') : \A m \in Destructive \cap 1..x3'[k].applied : Stored(m)'
      BY <1>0, <1>1, <2>2 DEF CopiesHold
    <3>2. ASSUME NEW e \in Three, x5'[e].pc = "up", NEW m \in Destructive \cap 1..Last PROVE Stored(m)'
      <4>1. CASE x5[e].pc = "up"
        BY <1>0, <1>1, <4>1 DEF CopiesHold
      <4>2. CASE x5[e].pc # "up"
        <5>1. e = d /\ Operations!Check(d) /\ ~Operations!NeedsBackup
          <6>1. e = d
            BY <2>0, <3>2, <4>2
          <6>2. CASE \E action \in Operations!Actions : Operations!Start(d, action)
            <7> PICK action \in Operations!Actions : Operations!Start(d, action)
              BY <6>2
            <7> PICK pc \in {"down", "key", "check"} :
                       x5' = [x5 EXCEPT ![d] = [pc |-> pc, action |-> action, key |-> 0]]
              BY DEF Operations!Start, Operations!None
            <7> QED
              BY <1>0, <3>2, <6>1 DEF DeployShape
          <6>3. CASE Operations!FindKey(d)
            <7>1. x5'[d].pc \in {"unlock", "check", "restore"}
              BY <1>0, <6>3 DEF Operations!FindKey, DeployShape, RunRecords
            <7> QED
              BY <3>2, <6>1, <7>1
          <6>4. CASE \/ Operations!Unlock(d) \/ Operations!Kill(d) \/ Operations!Down(d)
                     \/ Operations!Drop(d) \/ Operations!Fill(d) \/ Operations!Record(d)
                     \/ Operations!Fail(d)
            BY <1>0, <3>2, <4>2, <6>1, <6>4, GoEffect DEF Operations!Unlock, Operations!Kill,
               Operations!Down,
               Operations!Drop, Operations!Fill, Operations!Record, Operations!Fail, RunPcs
          <6>5. CASE Operations!Backup(d)
            <7>1. Operations!Go(d, "unlock")
              <8>1. x3 # Append(x3, x1)
                BY <1>0, AppendProperties DEF DeployShape
              <8> QED
                BY <2>2, <6>5, <8>1 DEF Operations!Backup
            <7> QED
              BY <1>0, <3>2, <6>1, <7>1, GoEffect DEF RunPcs
          <6>6. CASE Operations!Migrate(d)
            BY <1>0, <3>2, <4>2, <6>1, <6>6 DEF Operations!Migrate
          <6>7. CASE Operations!Check(d)
            BY <1>0, <3>2, <6>1, <6>7, GoEffect DEF Operations!Check, RunPcs
          <6> QED
            BY <1>6, <6>1, <6>2, <6>3, <6>4, <6>5, <6>6, <6>7 DEF Moves
        <5>2. m <= x1.applied
          BY <1>0, <1>2, <5>1 DEF Operations!NeedsBackup, Operations!Pending
        <5> QED
          BY <1>1, <1>2, <1>3, <5>2
      <4> QED
        BY <4>1, <4>2
    <3>3. ASSUME NEW m \in Destructive \cap 1..x1'.applied PROVE Stored(m)'
      <4>1. CASE x1'.applied <= x1.applied
        BY <1>1, <1>2, <1>3, <4>1
      <4>2. CASE Operations!Fill(d)
        <5>1. x5[d].key \in 1..Len(x3) /\ x1' = x3[x5[d].key]
          BY <1>0, <4>2 DEF RunsFit, Operations!Fill
        <5> QED
          BY <1>0, <1>1, <5>1 DEF CopiesHold
      <4>3. CASE Operations!Migrate(d)
        <5>1. \A n \in Destructive \cap 1..Last : Stored(n)
          BY <1>0, <4>3 DEF CopiesHold, Operations!Migrate
        <5> QED
          BY <1>0, <1>1, <1>2, <5>1
      <4>4. CASE Operations!Down(d)
        BY <1>0, <1>1, <1>2, <1>3, <4>4 DEF Operations!Down, DeployShape, Copies, Operations!Copy
      <4> QED
        BY <1>2, <1>6, <4>1, <4>2, <4>3, <4>4 DEF Moves, Operations!Start, Operations!Unlock,
           Operations!Kill,
           Operations!FindKey, Operations!Drop, Operations!Record, Operations!Check,
           Operations!Backup, Operations!Fail
    <3> QED
      BY <3>1, <3>2, <3>3
  <2> QED
    BY <1>6, <2>1, <2>2 DEF Moves, Operations!Start, Operations!Unlock, Operations!Kill,
       Operations!Down, Operations!FindKey, Operations!Drop, Operations!Fill,
       Operations!Record, Operations!Check, Operations!Backup, Operations!Migrate, Operations!Fail
<1>7. ASSUME NEW w \in Writes, Operations!Write(w) PROVE UNCHANGED <<x3, x5>> /\ x1'.applied = x1.applied
  BY <1>0, <1>7 DEF Operations!Write, DeployShape, Copies, Operations!Copy
<1> QED
  BY <1>5, <1>6, <1>7, DeployCases DEF Moves, Operations!Lapse

\* Every step of the deployments keeps the invariant.
LEMMA DeploySteps == DeployInv /\ Operations!Next => DeployInv'
<1> SUFFICES ASSUME DeployInv, Operations!Next PROVE DeployInv'
  OBVIOUS
<1>1. Operations!TypeOK'
  BY DeployTypes DEF Operations!TypeOK, DeployShape, Copies, RunRecords, RunPcs, Operations!None
<1> QED
  BY <1>1, DeployTypes, DeployCopies, DeployLocks, DeployRestores, DeployStored DEF DeployInv

\* What the invariant says of the deployments.
LEMMA DeployHolds ==
  ASSUME DeployInv
  PROVE  /\ Operations!FewAtOnce /\ Operations!RestoredOnce
         /\ Operations!TornIsRestoredAgain /\ Operations!DestroyedIsStored
<1>0. DeployShape /\ x8 \in Nat
  <2>1. DeployShape
    BY DeployShapes DEF DeployInv
  <2> QED
    BY <2>1, Bounds DEF DeployShape
<1>1. Operations!FewAtOnce
  BY <1>0, AliveCount, SameCardinality DEF DeployInv, LockCounts, Operations!FewAtOnce, AliveRuns,
     Operations!Alive
<1>2. Operations!RestoredOnce /\ Operations!TornIsRestoredAgain
  BY DEF DeployInv, RestoresHold, Operations!RestoredOnce, Operations!TornIsRestoredAgain
<1> QED
  BY <1>1, <1>2 DEF DeployInv, CopiesHold

-----------------------------------------------------------------------------
(* The mining: x1 .. x6 are input, previous, job, stored, attempt and faults. *)

Techniques == {"keywords", "topics", "insights"}

\* What a summary, the results and an attempt hold.
Outcomes == [Techniques -> {"none", "done", "skipped", "failed"}]
Sections == [Techniques -> {"none", "old", "new"}]
Summaries == [status : {"none", "done", "failed"}, stages : Outcomes]
Results == [stages : Outcomes, sections : Sections]
MiningAttempts ==
  [pc : {"idle", "download", "previous", "stage", "upload", "return"}, next : 1..4,
   results : Results, return : Summaries]
MiningJobs ==
  [state : {"waiting", "active", "completed"}, age : 0..2, return : Summaries]

MiningTypes ==
  /\ x1 \in [kind : {"full", "insights"}, few : BOOLEAN, enabled : BOOLEAN]
  /\ x2 \in Worker!Earlier \cup {Worker!NoResults} /\ x3 \in MiningJobs /\ x4 \in Results
  /\ x5 \in [Two -> MiningAttempts]

\* A section for each stage that is done.
Matched(results) == \A s \in Techniques : results.stages[s] = "done" <=> results.sections[s] # "none"

Works(w) == x5[w].pc # "idle"

\* One attempt at a time, before its lock expires; what it stored is what it will say,
\* and the queue takes one answer.
MiningInv ==
  /\ MiningTypes
  /\ Matched(x4) /\ \A w \in Two : Matched(x5[w].results)
  /\ \A v, w \in Two : Works(v) /\ Works(w) => v = w
  /\ \A w \in Two : Works(w) => x3.state = "active" /\ x3.age <= 1
  /\ \A w \in Two : x5[w].pc = "return" /\ x5[w].return.status = "done" =>
                      x5[w].return.stages = x4.stages
  /\ x3.return.status # "none" => x3.state = "completed"
  /\ x3.return.status = "done" => x3.return.stages = x4.stages

\* The constants of the mining are of their types.
LEMMA MiningStages ==
  /\ Worker!Stages = Techniques
  /\ Worker!Undone \in Outcomes /\ Worker!Undone \in Sections
  /\ Worker!NoResults \in Results /\ Matched(Worker!NoResults)
  /\ \A r \in Worker!Earlier : r \in Results /\ Matched(r)
  /\ Worker!Unreturned \in Summaries /\ Worker!Unreturned.status = "none"
  /\ Worker!Failed \in Summaries /\ Worker!Failed.status = "failed"
  /\ Worker!Idle \in MiningAttempts /\ Worker!Idle.pc = "idle" /\ Worker!Idle.results = Worker!NoResults
<1>1. Worker!Stages = Techniques
  BY DEF Worker!Stages, Techniques
<1> USE <1>1
<1>2. Worker!Undone \in Outcomes /\ Worker!Undone \in Sections /\ \A s \in Techniques : Worker!Undone[s] = "none"
  BY DEF Worker!Undone, Outcomes, Sections
<1>3. Worker!NoResults \in Results /\ Matched(Worker!NoResults)
  BY <1>2 DEF Worker!NoResults, Results, Matched
<1>4. ASSUME NEW r \in Worker!Earlier PROVE r \in Results /\ Matched(r)
  <2>1. PICK st \in [Techniques -> {"done", "skipped", "failed"}] :
          r = [stages |-> st, sections |-> [s \in Techniques |-> IF st[s] = "done" THEN "old" ELSE "none"]]
    BY DEF Worker!Earlier
  <2> DEFINE se == [s \in Techniques |-> IF st[s] = "done" THEN "old" ELSE "none"]
  <2>2. st \in Outcomes /\ se \in Sections
    BY DEF Outcomes, Sections
  <2>3. \A s \in Techniques : st[s] = "done" <=> se[s] # "none"
    OBVIOUS
  <2>4. r = [stages |-> st, sections |-> se]
    BY <2>1
  <2> HIDE DEF se
  <2> QED
    BY <2>2, <2>3, <2>4 DEF Results, Matched
<1>5. \A status \in {"none", "failed"} :
        /\ Worker!Returned(status, Worker!Undone) \in Summaries
        /\ Worker!Returned(status, Worker!Undone).status = status
  BY <1>2 DEF Worker!Returned, Summaries
<1>6. /\ Worker!Unreturned \in Summaries /\ Worker!Unreturned.status = "none"
      /\ Worker!Failed \in Summaries /\ Worker!Failed.status = "failed"
  BY <1>5 DEF Worker!Unreturned, Worker!Failed
<1>7. Worker!Idle \in MiningAttempts /\ Worker!Idle.pc = "idle" /\ Worker!Idle.results = Worker!NoResults
  <2>1. [pc |-> "idle", next |-> 1, results |-> Worker!NoResults, return |-> Worker!Unreturned] \in MiningAttempts
    BY <1>3, <1>6 DEF MiningAttempts
  <2> QED
    BY <2>1 DEF Worker!Idle
<1> QED
  BY <1>2, <1>3, <1>4, <1>6, <1>7

\* The types, and the fields of the variables.
LEMMA MiningShape ==
  MiningTypes => /\ Worker!TypeOK
                 /\ x1.kind \in {"full", "insights"}
                 /\ x3.state \in {"waiting", "active", "completed"} /\ x3.age \in 0..2
                 /\ \A w \in Two : x5[w].results \in Results
<1> SUFFICES ASSUME MiningTypes
             PROVE  /\ Worker!TypeOK
                    /\ x1.kind \in {"full", "insights"}
                    /\ x3.state \in {"waiting", "active", "completed"} /\ x3.age \in 0..2
                    /\ \A w \in Two : x5[w].results \in Results
  OBVIOUS
<1>1. /\ x3.state \in {"waiting", "active", "completed"} /\ x3.age \in 0..2
      /\ x3.return.status \in {"none", "done", "failed"}
  BY DEF MiningTypes, MiningJobs, Summaries
<1>2. DOMAIN x4 = {"stages", "sections"}
  BY DEF MiningTypes, Results
<1>3. \A w \in Two : /\ x5[w].pc \in {"idle", "download", "previous", "stage", "upload", "return"}
                     /\ x5[w].next \in 1..4
                     /\ x5[w].results.sections \in [Techniques -> {"none", "old", "new"}]
                     /\ x5[w].results \in Results
  BY DEF MiningTypes, MiningAttempts, Results, Sections
<1>4. x1.kind \in {"full", "insights"}
  BY DEF MiningTypes
<1>5. Worker!LockLasts = 2
  BY DEF Worker!LockLasts, Worker!TimeoutAt
<1>6. 1..Len(<<"keywords", "topics", "insights">>) + 1 = 1..4
  OBVIOUS
<1>7. Worker!Stages = Techniques
  BY MiningStages
<1>8. /\ x1 \in [kind : {"full", "insights"}, few : BOOLEAN, enabled : BOOLEAN]
      /\ x2 \in Worker!Earlier \cup {Worker!NoResults}
  BY DEF MiningTypes
<1> QED
  BY <1>1, <1>2, <1>3, <1>4, <1>5, <1>6, <1>7, <1>8 DEF Worker!TypeOK

\* At first the job waits.
LEMMA MiningInit == Worker!Init => MiningInv
<1> SUFFICES ASSUME Worker!Init PROVE MiningInv
  OBVIOUS
<1> USE MiningStages
<1>1. /\ x1 \in [kind : {"full", "insights"}, few : BOOLEAN, enabled : BOOLEAN]
      /\ x2 \in Worker!Earlier \cup {Worker!NoResults}
  BY DEF Worker!Init
<1>2. x3 \in MiningJobs /\ x3.return.status = "none"
  <2>1. [state |-> "waiting", age |-> 0, return |-> Worker!Unreturned] \in MiningJobs
    BY DEF MiningJobs
  <2> QED
    BY <2>1 DEF Worker!Init
<1>3. x4 = Worker!NoResults /\ \A w \in Two : x5[w] = Worker!Idle
  BY DEF Worker!Init
<1>4. x5 \in [Two -> MiningAttempts]
  BY DEF Worker!Init
<1> QED
  BY <1>1, <1>2, <1>3, <1>4 DEF MiningInv, MiningTypes, Works

\* A step of one attempt: what the others do not see.
LEMMA SetAttempt ==
  ASSUME x5 \in [Two -> MiningAttempts], NEW w \in Two, NEW a \in MiningAttempts, Worker!Set(w, a)
  PROVE  x5' \in [Two -> MiningAttempts] /\ x5'[w] = a /\ \A v \in Two \ {w} : x5'[v] = x5[v]
BY DEF Worker!Set

\* The fields of an attempt.
LEMMA AttemptTypes ==
  ASSUME NEW a \in MiningAttempts
  PROVE  /\ a.pc \in {"idle", "download", "previous", "stage", "upload", "return"} /\ a.next \in 1..4
         /\ a.results \in Results /\ a.return \in Summaries
BY DEF MiningAttempts

\* An attempt, or a job, with another value of one field.
WithPc(a, pc) == [a EXCEPT !.pc = pc]
WithNext(a, n) == [a EXCEPT !.next = n]
WithResults(a, r) == [a EXCEPT !.results = r]
WithReturn(a, m) == [a EXCEPT !.return = m]
WithState(j, st) == [j EXCEPT !.state = st]
WithAge(j, age) == [j EXCEPT !.age = age]

\* An attempt with another field is an attempt.
LEMMA AttemptFields ==
  ASSUME NEW a \in MiningAttempts
  PROVE  /\ \A pc \in {"idle", "download", "previous", "stage", "upload", "return"} :
              /\ WithPc(a, pc) \in MiningAttempts
              /\ WithPc(a, pc).pc = pc /\ WithPc(a, pc).results = a.results
         /\ \A n \in 1..4 :
              /\ WithNext(a, n) \in MiningAttempts
              /\ WithNext(a, n).pc = a.pc /\ WithNext(a, n).results = a.results
         /\ \A r \in Results :
              /\ WithResults(a, r) \in MiningAttempts
              /\ WithResults(a, r).pc = a.pc /\ WithResults(a, r).results = r
         /\ \A m \in Summaries :
              /\ WithReturn(a, m) \in MiningAttempts
              /\ WithReturn(a, m).pc = a.pc /\ WithReturn(a, m).results = a.results
              /\ WithReturn(a, m).return = m
<1>1. \A pc \in {"idle", "download", "previous", "stage", "upload", "return"} :
        /\ WithPc(a, pc) \in MiningAttempts
        /\ WithPc(a, pc).pc = pc /\ WithPc(a, pc).results = a.results
  BY DEF MiningAttempts, WithPc
<1>2. \A n \in 1..4 : /\ WithNext(a, n) \in MiningAttempts
                      /\ WithNext(a, n).pc = a.pc /\ WithNext(a, n).results = a.results
  BY DEF MiningAttempts, WithNext
<1>3. \A r \in Results : /\ WithResults(a, r) \in MiningAttempts
                         /\ WithResults(a, r).pc = a.pc /\ WithResults(a, r).results = r
  BY DEF MiningAttempts, WithResults
<1>4. \A m \in Summaries : /\ WithReturn(a, m) \in MiningAttempts
                           /\ WithReturn(a, m).pc = a.pc /\ WithReturn(a, m).results = a.results
                           /\ WithReturn(a, m).return = m
  BY DEF MiningAttempts, WithReturn
<1> QED
  BY <1>1, <1>2, <1>3, <1>4

\* A job with another field is a job.
LEMMA JobFields ==
  ASSUME NEW j \in MiningJobs
  PROVE  /\ j.state \in {"waiting", "active", "completed"} /\ j.age \in 0..2 /\ j.return \in Summaries
         /\ \A st \in {"waiting", "active", "completed"} :
              /\ WithState(j, st) \in MiningJobs /\ WithState(j, st).state = st
              /\ WithState(j, st).age = j.age /\ WithState(j, st).return = j.return
         /\ \A age \in 0..2 :
              /\ WithAge(j, age) \in MiningJobs /\ WithAge(j, age).state = j.state
              /\ WithAge(j, age).age = age /\ WithAge(j, age).return = j.return
         /\ \A m \in Summaries :
              /\ WithReturn(j, m) \in MiningJobs /\ WithReturn(j, m).state = j.state
              /\ WithReturn(j, m).return = m
<1>1. j.state \in {"waiting", "active", "completed"} /\ j.age \in 0..2 /\ j.return \in Summaries
  BY DEF MiningJobs
<1>2. \A st \in {"waiting", "active", "completed"} :
        /\ WithState(j, st) \in MiningJobs /\ WithState(j, st).state = st
        /\ WithState(j, st).age = j.age /\ WithState(j, st).return = j.return
  BY DEF MiningJobs, WithState
<1>3. \A age \in 0..2 : /\ WithAge(j, age) \in MiningJobs /\ WithAge(j, age).state = j.state
                        /\ WithAge(j, age).age = age /\ WithAge(j, age).return = j.return
  BY DEF MiningJobs, WithAge
<1>4. \A m \in Summaries : /\ WithReturn(j, m) \in MiningJobs /\ WithReturn(j, m).state = j.state
                           /\ WithReturn(j, m).return = m
  BY DEF MiningJobs, WithReturn
<1> QED
  BY <1>1, <1>2, <1>3, <1>4

\* Every step of the mining keeps the invariant.
LEMMA MiningSteps == ASSUME MiningInv, Worker!Next PROVE MiningInv'
<1> USE MiningStages
<1>0. /\ x1 \in [kind : {"full", "insights"}, few : BOOLEAN, enabled : BOOLEAN]
      /\ x2 \in Worker!Earlier \cup {Worker!NoResults} /\ x3 \in MiningJobs /\ x4 \in Results
      /\ x5 \in [Two -> MiningAttempts]
  BY SMTT(40) DEF MiningInv, MiningTypes
<1>1. UNCHANGED <<x1, x2>>
  BY DEF Worker!Next, Worker!Take, Worker!Download, Worker!Stage, Worker!Finish, Worker!Upload,
     Worker!Break, Worker!TimeOut, Worker!Return, Worker!Die, Worker!Tick, Worker!Stalled
\* While an attempt works, it alone does.
<1>2. ASSUME NEW w \in Two, Works(w), NEW a \in MiningAttempts, Worker!Set(w, a), x3' = x3,
             Matched(a.results), x4' \in Results, Matched(x4'),
             x4' # x4 => a.pc # "idle",
             a.pc = "return" /\ a.return.status = "done" => a.return.stages = x4'.stages
      PROVE  MiningInv'
  <2>1. x5' \in [Two -> MiningAttempts] /\ x5'[w] = a /\ \A v \in Two \ {w} : x5'[v] = x5[v]
    BY <1>0, <1>2, SetAttempt
  <2>2. \A v \in Two \ {w} : x5[v].pc = "idle" /\ x5'[v].pc = "idle"
    BY <1>2, <2>1 DEF MiningInv, Works
  <2>3. x3.state = "active" /\ x3.age <= 1 /\ x3.return.status = "none"
    <3>1. x3.return.status \in {"none", "done", "failed"}
      BY <1>0 DEF MiningJobs, Summaries
    <3> QED
      BY <1>2, <3>1 DEF MiningInv
  <2>4. MiningTypes'
    BY <1>0, <1>1, <1>2, <2>1 DEF MiningTypes, Worker!Earlier, Worker!NoResults, Worker!Undone,
       Worker!Stages,
       MiningJobs, MiningAttempts, Results, Outcomes, Sections, Summaries, Techniques
  <2>5. Matched(x4)' /\ \A v \in Two : Matched(x5[v].results)'
    BY <1>2, <2>1 DEF Matched, MiningInv, Techniques
  <2>6. \A u, v \in Two : Works(u)' /\ Works(v)' => u = v
    BY <2>2 DEF Works
  <2>7. \A v \in Two : Works(v)' => x3'.state = "active" /\ x3'.age <= 1
    BY <1>2, <2>3
  <2>8. \A v \in Two : x5'[v].pc = "return" /\ x5'[v].return.status = "done" => x5'[v].return.stages = x4'.stages
    BY <1>2, <2>1, <2>2
  <2> QED
    BY <1>2, <2>3, <2>4, <2>5, <2>6, <2>7, <2>8 DEF MiningInv
<1>3. ASSUME NEW w \in Two, Works(w), x3' = x3, x4' \in {x4, x5[w].results},
             NEW m \in Summaries, Worker!Answer(w, m),
             m.status = "done" => m.stages = x4'.stages
      PROVE  MiningInv'
  <2>0. x5[w] \in MiningAttempts
    BY <1>0
  <2> DEFINE a == WithReturn(WithPc(x5[w], "return"), m)
  <2>2. a \in MiningAttempts /\ a.results = x5[w].results /\ a.return = m /\ a.pc = "return"
    <3> DEFINE b == WithPc(x5[w], "return")
    <3>1. b \in MiningAttempts /\ b.results = x5[w].results /\ b.pc = "return"
      BY <2>0, AttemptFields
    <3> HIDE DEF b
    <3>2. WithReturn(b, m) \in MiningAttempts /\ WithReturn(b, m).pc = b.pc
          /\ WithReturn(b, m).results = b.results /\ WithReturn(b, m).return = m
      BY <3>1, AttemptFields
    <3> QED
      BY <3>1, <3>2 DEF b
  <2>1. Worker!Set(w, a)
    BY <1>3 DEF Worker!Answer, WithReturn, WithPc
  <2> HIDE DEF a
  <2>3. x5[w].results \in Results /\ Matched(x5[w].results) /\ Matched(x4)
    BY <2>0, AttemptTypes DEF MiningInv
  <2>4. x4' \in Results /\ Matched(x4')
    BY <1>0, <1>3, <2>3
  <2> QED
    BY <1>2, <1>3, <2>1, <2>2, <2>3, <2>4
<1>a. ASSUME NEW w \in Two, Worker!Take(w) PROVE MiningInv'
  <2> DEFINE a == WithPc(Worker!Idle, "download")
  <2>2. a \in MiningAttempts /\ a.results = Worker!NoResults /\ a.pc = "download"
    BY AttemptFields
  <2>1. /\ x3.state = "waiting" /\ x3' = [x3 EXCEPT !.state = "active", !.age = 0]
        /\ Worker!Set(w, a) /\ x4' = x4
    BY <1>a DEF Worker!Take, WithPc
  <2> HIDE DEF a
  <2>3. x5' \in [Two -> MiningAttempts] /\ x5'[w] = a /\ \A v \in Two \ {w} : x5'[v] = x5[v]
    BY <1>0, <2>1, <2>2, SetAttempt
  <2>4. x3' \in MiningJobs /\ x3'.state = "active" /\ x3'.age = 0 /\ x3'.return = x3.return
    <3>1. x3' = WithAge(WithState(x3, "active"), 0)
      BY <2>1 DEF WithState, WithAge, WithReturn
    <3>2. WithState(x3, "active") \in MiningJobs /\ WithState(x3, "active").state = "active"
          /\ WithState(x3, "active").return = x3.return
      BY <1>0, JobFields
    <3> QED
      BY <3>1, <3>2, JobFields
  <2>5. \A v \in Two : x5[v].pc = "idle"
    BY <2>1 DEF MiningInv, Works
  <2>6. x3.return.status = "none"
    BY <1>0, <2>1 DEF MiningInv, MiningJobs, Summaries
  <2>7. MiningTypes'
    BY <1>0, <1>1, <2>1, <2>3, <2>4 DEF MiningTypes, Worker!Earlier, Worker!NoResults, Worker!Undone,
       Worker!Stages, MiningJobs, MiningAttempts, Results, Outcomes, Sections, Summaries, Techniques
  <2>8. Matched(x4)' /\ \A v \in Two : Matched(x5[v].results)'
    BY <2>1, <2>2, <2>3 DEF MiningInv, Matched, Techniques
  <2> QED
    BY <2>1, <2>2, <2>3, <2>4, <2>5, <2>6, <2>7, <2>8 DEF MiningInv, Works
<1>b. ASSUME NEW w \in Two, Worker!Download(w) PROVE MiningInv'
  <2>0. Works(w) /\ x3' = x3 /\ x4' = x4
    BY <1>b DEF Worker!Download, Works
  <2>1. CASE Worker!Answer(w, Worker!Failed)
    BY <1>3, <2>0, <2>1
  <2>2. CASE Worker!Set(w, [x5[w] EXCEPT
               !.pc = IF @ = "download" /\ x1.kind = "insights" THEN "previous" ELSE "stage",
               !.results = IF x5[w].pc = "previous" THEN x2 ELSE @])
    <3> DEFINE pc == IF x5[w].pc = "download" /\ x1.kind = "insights" THEN "previous" ELSE "stage"
               r == IF x5[w].pc = "previous" THEN x2 ELSE x5[w].results
    <3>1. x5[w] \in MiningAttempts
      BY <1>0
    <3>2. r \in Results /\ Matched(r)
      <4>1. x5[w].results \in Results
        BY <3>1, AttemptTypes
      <4> QED
        BY <1>0, <4>1 DEF MiningInv
    <3>3. pc \in {"stage", "previous"}
      OBVIOUS
    <3>7. Worker!Set(w, [x5[w] EXCEPT !.pc = pc, !.results = r])
      BY <2>2
    <3> HIDE DEF pc, r
    <3> DEFINE a == WithResults(WithPc(x5[w], pc), r)
    <3>5. a \in MiningAttempts /\ a.results = r /\ a.pc = pc
      <4> DEFINE b == WithPc(x5[w], pc)
      <4>1. b \in MiningAttempts /\ b.pc = pc
        BY <3>1, <3>3, AttemptFields
      <4> HIDE DEF b
      <4>2. WithResults(b, r) \in MiningAttempts /\ WithResults(b, r).pc = b.pc /\ WithResults(b, r).results = r
        BY <3>2, <4>1, AttemptFields
      <4> QED
        BY <4>1, <4>2 DEF b
    <3>4. Worker!Set(w, a)
      BY <3>7 DEF WithResults, WithPc
    <3> HIDE DEF a
    <3>6. x4' \in Results /\ Matched(x4')
      BY <1>0, <2>0 DEF MiningInv
    <3> QED
      BY <1>2, <2>0, <3>2, <3>3, <3>4, <3>5, <3>6
  <2> QED
    BY <1>b, <2>1, <2>2 DEF Worker!Download
<1>c. ASSUME NEW w \in Two, Worker!Stage(w) PROVE MiningInv'
  <2>0. Works(w) /\ x3' = x3 /\ x4' = x4 /\ x5[w].pc = "stage" /\ x5[w].next <= Len(Worker!JobStages)
    BY <1>c DEF Worker!Stage, Works
  <2> DEFINE s == Worker!JobStages[x5[w].next]
             old == x5[w].results
  <2>1. s \in Techniques /\ x5[w].next + 1 \in 1..4 /\ x5[w] \in MiningAttempts
    <3>1. x5[w].next \in 1..4 /\ x5[w] \in MiningAttempts
      BY <1>0, AttemptTypes
    <3> QED
      BY <2>0, <3>1 DEF Worker!JobStages, Techniques
  <2>2. PICK status \in {"done", "skipped", "failed"} :
          Worker!Set(w, [x5[w] EXCEPT
              !.next = @ + 1,
              !.results = [stages |-> [@.stages EXCEPT ![s] = status],
                           sections |-> Worker!Section(s, status, @.sections)]])
    BY <1>c DEF Worker!Stage
  <2> DEFINE st == [old.stages EXCEPT ![s] = status]
             se == [old.sections EXCEPT ![s] = IF status = "done" THEN "new" ELSE "none"]
             r == [stages |-> st, sections |-> se]
             n == x5[w].next + 1
  <2>3. Worker!Set(w, [x5[w] EXCEPT !.next = n, !.results = r])
    BY <2>2 DEF Worker!Section
  <2>4. old \in Results /\ Matched(old)
    BY <2>1, AttemptTypes DEF MiningInv
  <2> HIDE DEF s, old
  <2>5. old.stages \in Outcomes /\ old.sections \in Sections
    BY <2>4 DEF Results
  <2>6. st \in Outcomes /\ se \in Sections
    BY <2>1, <2>5 DEF Outcomes, Sections
  <2>7. \A t \in Techniques : st[t] = "done" <=> se[t] # "none"
    BY <2>1, <2>4, <2>5 DEF Outcomes, Sections, Matched
  <2> HIDE DEF st, se
  <2>8. r \in Results /\ Matched(r)
    BY <2>6, <2>7 DEF Results, Matched
  <2> HIDE DEF r, n
  <2>9. n \in 1..4
    BY <2>1 DEF n
  <2> DEFINE a == WithResults(WithNext(x5[w], n), r)
  <2>10. a \in MiningAttempts /\ a.pc = "stage" /\ a.results = r
    <3> DEFINE b == WithNext(x5[w], n)
    <3>1. b \in MiningAttempts /\ b.pc = "stage"
      BY <2>0, <2>1, <2>9, AttemptFields
    <3> HIDE DEF b
    <3>2. WithResults(b, r) \in MiningAttempts /\ WithResults(b, r).pc = b.pc /\ WithResults(b, r).results = r
      BY <2>8, <3>1, AttemptFields
    <3> QED
      BY <3>1, <3>2 DEF b
  <2>12. Worker!Set(w, a)
    BY <2>3 DEF WithResults, WithNext
  <2> HIDE DEF a
  <2>11. x4' \in Results /\ Matched(x4')
    BY <1>0, <2>0 DEF MiningInv
  <2> QED
    BY <1>2, <2>0, <2>8, <2>10, <2>11, <2>12
<1>d. ASSUME NEW w \in Two, Worker!Finish(w) PROVE MiningInv'
  <2>0. x5[w] \in MiningAttempts
    BY <1>0
  <2> DEFINE a == WithPc(x5[w], "upload")
  <2>2. a \in MiningAttempts /\ a.results = x5[w].results /\ a.pc = "upload"
    BY <2>0, AttemptFields
  <2>1. Works(w) /\ x3' = x3 /\ x4' = x4 /\ Worker!Set(w, a)
    BY <1>d DEF Worker!Finish, Works, WithPc
  <2> HIDE DEF a
  <2>3. x4' \in Results /\ Matched(x4') /\ Matched(x5[w].results)
    BY <1>0, <2>1 DEF MiningInv
  <2> QED
    BY <1>2, <2>1, <2>2, <2>3
<1>e. ASSUME NEW w \in Two, Worker!Upload(w) PROVE MiningInv'
  <2>0. Works(w) /\ x3' = x3
    BY <1>e DEF Worker!Upload, Works
  <2>1. CASE x4' = x5[w].results /\ Worker!Answer(w, Worker!AfterUpload(w, TRUE))
    <3> DEFINE m == Worker!Returned("done", x5[w].results.stages)
    <3>1. x5[w].results.stages \in Outcomes
      <4>1. x5[w].results \in Results
        BY <1>0, AttemptTypes
      <4> QED
        BY <4>1 DEF Results
    <3>2. m \in Summaries /\ m.stages = x5[w].results.stages
      BY <3>1 DEF Worker!Returned, Summaries
    <3>3. Worker!Answer(w, m)
      BY <2>1 DEF Worker!AfterUpload
    <3> HIDE DEF m
    <3> QED
      BY <1>3, <2>0, <2>1, <3>2, <3>3
  <2>2. CASE x4' \in {x4, x5[w].results} /\ Worker!Answer(w, Worker!AfterUpload(w, FALSE))
    <3>1. Worker!Answer(w, Worker!Failed)
      BY <2>2 DEF Worker!AfterUpload
    <3> QED
      BY <1>3, <2>0, <2>2, <3>1
  <2> QED
    BY <1>e, <2>1, <2>2 DEF Worker!Upload
<1>f. ASSUME NEW w \in Two, Worker!Break(w) \/ Worker!TimeOut(w) PROVE MiningInv'
  <2>1. Works(w) /\ x3' = x3 /\ x4' \in {x4, x5[w].results} /\ Worker!Answer(w, Worker!Failed)
    BY <1>f DEF Worker!Break, Worker!TimeOut, Worker!Works, Works
  <2> QED
    BY <1>3, <2>1
<1>g. ASSUME NEW w \in Two, Worker!Return(w) PROVE MiningInv'
  <2>1. /\ x5[w].pc = "return" /\ x3' = [x3 EXCEPT !.state = "completed", !.return = x5[w].return]
        /\ Worker!Set(w, Worker!Idle) /\ x4' = x4
    BY <1>g DEF Worker!Return
  <2>2. x5' \in [Two -> MiningAttempts] /\ x5'[w] = Worker!Idle /\ \A v \in Two \ {w} : x5'[v] = x5[v]
    BY <1>0, <2>1, SetAttempt
  <2>3. x5[w].return \in Summaries
    BY <1>0, AttemptTypes
  <2>4. x3' \in MiningJobs /\ x3'.state = "completed" /\ x3'.return = x5[w].return
    <3>1. x3' = WithReturn(WithState(x3, "completed"), x5[w].return)
      BY <2>1 DEF WithState, WithAge, WithReturn
    <3>2. WithState(x3, "completed") \in MiningJobs /\ WithState(x3, "completed").state = "completed"
      BY <1>0, JobFields
    <3> QED
      BY <2>3, <3>1, <3>2, JobFields
  <2>5. \A v \in Two : x5'[v].pc = "idle"
    BY <2>1, <2>2 DEF MiningInv, Works
  <2>6. x3'.return.status = "done" => x3'.return.stages = x4'.stages
    BY <2>1, <2>4 DEF MiningInv
  <2>7. MiningTypes'
    BY <1>0, <1>1, <2>1, <2>2, <2>4 DEF MiningTypes, Worker!Earlier, Worker!NoResults, Worker!Undone,
       Worker!Stages, MiningJobs, MiningAttempts, Results, Outcomes, Sections, Summaries, Techniques
  <2>8. Matched(x4)' /\ \A v \in Two : Matched(x5[v].results)'
    BY <2>1, <2>2 DEF MiningInv, Matched, Techniques
  <2> QED
    BY <2>4, <2>5, <2>6, <2>7, <2>8 DEF MiningInv, Works
<1>h. ASSUME NEW w \in Two, Worker!Die(w) PROVE MiningInv'
  <2>1. Works(w) /\ Worker!Set(w, Worker!Idle) /\ x3' = x3 /\ x4' = x4
    BY <1>h DEF Worker!Die, Works
  <2>2. x4' \in Results /\ Matched(x4')
    BY <1>0, <2>1 DEF MiningInv
  <2> QED
    BY <1>2, <2>1, <2>2
<1>i. ASSUME Worker!Tick \/ Worker!Stalled PROVE MiningInv'
  <2>1. x3.age \in 0..2 /\ x3.state = "active" /\ x4' = x4 /\ x5' = x5
    BY <1>0, <1>i DEF MiningJobs, Worker!Tick, Worker!Stalled
  <2>2. /\ x3' \in MiningJobs /\ x3'.return = x3.return
        /\ \A w \in Two : Works(w) => x3'.state = "active" /\ x3'.age <= 1
    <3>1. CASE Worker!Tick
      <4>1. x3.age < 2 /\ x3' = [x3 EXCEPT !.age = x3.age + 1]
            /\ \A w \in Two : Works(w) => x3.age < 1
        BY <3>1 DEF Worker!Tick, Worker!LockLasts, Worker!TimeoutAt, Works
      <4>2. x3.age + 1 \in 0..2
        BY <2>1, <4>1
      <4> QED
        <5>1. x3' = WithAge(x3, x3.age + 1)
          BY <4>1 DEF WithAge
        <5>2. x3' \in MiningJobs /\ x3'.age = x3.age + 1 /\ x3'.state = "active" /\ x3'.return = x3.return
          BY <1>0, <2>1, <4>2, <5>1, JobFields
        <5> QED
          BY <2>1, <4>1, <5>2
    <3>2. CASE Worker!Stalled
      <4>1. x3.age >= 2 /\ x3' = [x3 EXCEPT !.state = "waiting", !.age = 0]
        BY <3>2 DEF Worker!Stalled, Worker!Expired, Worker!LockLasts, Worker!TimeoutAt
      <4>2. \A w \in Two : ~Works(w)
        BY <2>1, <4>1 DEF MiningInv
      <4> QED
        <5>1. x3' = WithAge(WithState(x3, "waiting"), 0)
          BY <4>1 DEF WithState, WithAge
        <5>2. WithState(x3, "waiting") \in MiningJobs /\ WithState(x3, "waiting").return = x3.return
          BY <1>0, JobFields
        <5> QED
          BY <4>2, <5>1, <5>2, JobFields
    <3> QED
      BY <1>i, <3>1, <3>2
  <2>3. x3.return.status = "none"
    BY <1>0, <2>1 DEF MiningInv, MiningJobs, Summaries
  <2>7. MiningTypes'
    BY <1>0, <1>1, <2>1, <2>2 DEF MiningTypes, Worker!Earlier, Worker!NoResults, Worker!Undone,
       Worker!Stages, MiningJobs, MiningAttempts, Results, Outcomes, Sections, Summaries, Techniques
  <2>8. Matched(x4)' /\ \A v \in Two : Matched(x5[v].results)'
    BY <2>1 DEF MiningInv, Matched, Techniques
  <2> QED
    BY <2>1, <2>2, <2>3, <2>7, <2>8 DEF MiningInv, Works
<1> QED
  BY <1>a, <1>b, <1>c, <1>d, <1>e, <1>f, <1>g, <1>h, <1>i DEF Worker!Next

\* What the invariant says of the results.
LEMMA MiningHolds ==
  MiningInv => Worker!TypeOK /\ Worker!SectionsAreDone /\ Worker!SummaryIsStored /\ Worker!OneAttempt
<1> SUFFICES ASSUME MiningInv
             PROVE  Worker!TypeOK /\ Worker!SectionsAreDone /\ Worker!SummaryIsStored /\ Worker!OneAttempt
  OBVIOUS
<1>1. Worker!TypeOK
  BY MiningShape DEF MiningInv
<1>2. Worker!SectionsAreDone
  BY MiningStages DEF MiningInv, Matched, Worker!SectionsAreDone
<1>3. Worker!SummaryIsStored
  BY DEF MiningInv, Worker!SummaryIsStored
<1>4. Worker!OneAttempt
  <2> DEFINE S == {w \in Two : x5[w].pc # "idle"}
  <2>1. S = {} \/ \E w \in Two : S = {w}
    BY DEF MiningInv, Works
  <2>2. Cardinality(S) <= 1
    <3> HIDE DEF S
    <3> QED
      BY <2>1, FS_EmptySet, FS_Singleton
  <2>3. Worker!Cardinality(S) = Cardinality(S)
    BY DEF Worker!Cardinality, Cardinality
  <2> QED
    BY <2>2, <2>3 DEF MiningInv, Works, Worker!OneAttempt
<1> QED
  BY <1>1, <1>2, <1>3, <1>4

-----------------------------------------------------------------------------
(* Lists, loops, sums and orders of finitely many, of any size.              *)

\* A set of naturals with 0 and the successor of each of its members is all of them.
LEMMA NatSet ==
  ASSUME NEW S \in SUBSET Nat, 0 \in S, \A n \in S : n + 1 \in S
  PROVE  S = Nat
<1> SUFFICES ASSUME S # Nat PROVE FALSE
  OBVIOUS
<1>1. IsWellFoundedOn(OpToRel(<, Nat), Nat)
  BY NatLessThanWellFounded
<1>2. PICK x \in Nat \ S : \A y \in Nat \ S : ~ (<<y, x>> \in OpToRel(<, Nat))
  BY <1>1, WFMin
<1>3. x - 1 \in Nat /\ x - 1 < x
  OBVIOUS
<1>4. x - 1 \in S
  BY <1>2, <1>3 DEF OpToRel
<1> QED
  BY <1>4

\* f are the states of a loop of N rounds: g says what a round makes of the state before it.
IsLoop(f, N, V, b, g) ==
  f \in [0..N -> V] /\ f[0] = b /\ \A n \in 1..N : f[n] = g[<<n, f[n - 1]>>]
IsRound(g, N, V) == g \in [(1..N) \X V -> V]

\* The states of a loop of N rounds: g says what a round makes of the state before it.
LEMMA Loop ==
  ASSUME NEW V, NEW b \in V, NEW N \in Nat, NEW g, IsRound(g, N, V)
  PROVE  \E f : IsLoop(f, N, V, b, g)
<1> USE DEF IsRound
<1> DEFINE Reached(m) == \E f \in [0..N -> V] :
             f[0] = b /\ \A n \in 1..N : n <= m => f[n] = g[<<n, f[n - 1]>>]
           S == {m \in Nat : Reached(m)}
<1>1. 0 \in S
  <2>1. PICK f \in [0..N -> V] : f = [n \in 0..N |-> b]
    OBVIOUS
  <2>2. f[0] = b /\ \A n \in 1..N : n <= 0 => f[n] = g[<<n, f[n - 1]>>]
    BY <2>1
  <2>3. 0 \in Nat /\ Reached(0)
    BY <2>2
  <2> QED
    BY <2>3
<1>2. ASSUME NEW m \in S PROVE m + 1 \in S
  <2>1. PICK f \in [0..N -> V] : f[0] = b /\ \A n \in 1..N : n <= m => f[n] = g[<<n, f[n - 1]>>]
    OBVIOUS
  <2>2. CASE m + 1 \in 1..N
    <3> DEFINE h == [f EXCEPT ![m + 1] = g[<<m + 1, f[m]>>]]
    <3>0. m \in 0..N
      BY <2>2
    <3>1. h \in [0..N -> V]
      BY <2>2, <3>0
    <3>2. h[0] = b
      BY <2>1, <2>2
    <3>3. ASSUME NEW n \in 1..N, n <= m + 1 PROVE h[n] = g[<<n, h[n - 1]>>]
      BY <2>1, <2>2, <3>3
    <3> HIDE DEF h
    <3> QED
      BY <3>1, <3>2, <3>3
  <2>3. CASE m + 1 \notin 1..N
    <3>1. \A n \in 1..N : n <= m + 1 => n <= m
      BY <2>3
    <3>2. \A n \in 1..N : n <= m + 1 => f[n] = g[<<n, f[n - 1]>>]
      BY <2>1, <3>1
    <3> QED
      BY <2>1, <3>2
  <2>4. Reached(m + 1) /\ m + 1 \in Nat
    BY <2>2, <2>3
  <2> QED
    BY <2>4
<1> HIDE DEF S
<1>3. S = Nat
  <2>1. S \in SUBSET Nat
    BY DEF S
  <2> QED
    BY <1>1, <1>2, <2>1, NatSet
<1>4. N \in S
  BY <1>3
<1>5. PICK f \in [0..N -> V] : f[0] = b /\ \A n \in 1..N : n <= N => f[n] = g[<<n, f[n - 1]>>]
  BY <1>4 DEF S
<1>6. \A n \in 1..N : n <= N
  OBVIOUS
<1> QED
  BY <1>5, <1>6 DEF IsLoop

\* What holds before the loop and is kept by each round holds after each.
LEMMA LoopKeeps ==
  ASSUME NEW N \in Nat, NEW I \in SUBSET (0..N), 0 \in I,
         \A n \in 1..N : n - 1 \in I => n \in I
  PROVE  I = 0..N
<1> DEFINE S == {n \in Nat : n <= N => n \in I}
<1>1. 0 \in S
  OBVIOUS
<1>2. ASSUME NEW n \in S PROVE n + 1 \in S
  OBVIOUS
<1> HIDE DEF S
<1>3. S = Nat
  <2>1. S \in SUBSET Nat
    BY DEF S
  <2> QED
    BY <1>1, <1>2, <2>1, NatSet
<1>4. \A n \in 0..N : n \in Nat /\ n <= N
  OBVIOUS
<1> QED
  BY <1>3, <1>4 DEF S

\* f[n] are the members of K among the first n of s, in their order.
IsFilter(f, s, K) ==
  f = [n \in 0..Len(s) |-> IF n = 0 THEN <<>> ELSE IF s[n] \in K THEN Append(f[n - 1], s[n]) ELSE f[n - 1]]

\* A list is read to its end, whatever is kept of it.
LEMMA FilterExists ==
  ASSUME NEW T, NEW s \in Seq(T), NEW K
  PROVE  \E f : IsFilter(f, s, K)
<1>1. PICK N \in Nat : N = Len(s)
  OBVIOUS
<1>2. PICK V : V = Seq(T)
  OBVIOUS
<1>3. PICK g : g = [p \in (1..N) \X V |-> IF s[p[1]] \in K THEN Append(p[2], s[p[1]]) ELSE p[2]]
  OBVIOUS
<1>4. IsRound(g, N, V)
  BY <1>1, <1>2, <1>3 DEF IsRound
<1>5. <<>> \in V
  BY <1>2
<1>6. PICK f : IsLoop(f, N, V, <<>>, g)
  BY <1>4, <1>5, Loop
<1>7. f \in [0..N -> V] /\ f[0] = <<>>
  BY <1>6 DEF IsLoop
<1>8. ASSUME NEW n \in 1..N
      PROVE  f[n] = IF s[n] \in K THEN Append(f[n - 1], s[n]) ELSE f[n - 1]
  <2>1. f[n] = g[<<n, f[n - 1]>>]
    BY <1>6 DEF IsLoop
  <2>2. f[n - 1] \in V
    BY <1>7
  <2> QED
    BY <1>3, <2>1, <2>2
<1>9. \A n \in 0..N : n = 0 \/ n \in 1..N
  OBVIOUS
<1> HIDE DEF IsLoop
<1>10. \A n \in 0..N :
         f[n] = IF n = 0 THEN <<>> ELSE IF s[n] \in K THEN Append(f[n - 1], s[n]) ELSE f[n - 1]
  BY <1>7, <1>8, <1>9, Zenon
<1>11. f = [n \in 0..N |-> IF n = 0 THEN <<>> ELSE IF s[n] \in K THEN Append(f[n - 1], s[n]) ELSE f[n - 1]]
  BY <1>7, <1>10
<1> QED
  BY <1>1, <1>11 DEF IsFilter

\* Each member is kept or left out as it is in K, and what is kept is as long as that.
LEMMA FilterSteps ==
  ASSUME NEW T, NEW s \in Seq(T), NEW K, NEW f, IsFilter(f, s, K)
  PROVE  /\ f[0] = <<>>
         /\ \A n \in 1..Len(s) : f[n] = IF s[n] \in K THEN Append(f[n - 1], s[n]) ELSE f[n - 1]
<1>1. Len(s) \in Nat
  OBVIOUS
<1>2. \A n \in 0..Len(s) :
         f[n] = IF n = 0 THEN <<>> ELSE IF s[n] \in K THEN Append(f[n - 1], s[n]) ELSE f[n - 1]
  BY Zenon DEF IsFilter
<1>3. 0 \in 0..Len(s) /\ \A n \in 1..Len(s) : n # 0 /\ n \in 0..Len(s)
  BY <1>1
<1> QED
  BY <1>2, <1>3, Zenon

\* A filter leaves members of the list that are in the set, no more than there were.
LEMMA FilterFacts ==
  ASSUME NEW T, NEW s \in Seq(T), NEW K, NEW f, IsFilter(f, s, K)
  PROVE  \A n \in 0..Len(s) : f[n] \in Seq(T) /\ Len(f[n]) <= n /\ \A i \in 1..Len(f[n]) : f[n][i] \in K
<1>1. PICK N \in Nat : N = Len(s)
  OBVIOUS
<1> DEFINE Good(n) == f[n] \in Seq(T) /\ Len(f[n]) <= n /\ \A i \in 1..Len(f[n]) : f[n][i] \in K
           I == {n \in 0..N : Good(n)}
<1>2. 0 \in I
  <2>1. f[0] = <<>>
    BY FilterSteps
  <2>2. Good(0) /\ 0 \in 0..N
    BY <2>1
  <2> QED
    BY <2>2
<1>3. ASSUME NEW n \in 1..N, n - 1 \in I PROVE n \in I
  <2>1. Good(n - 1)
    BY <1>3
  <2>2. f[n] = IF s[n] \in K THEN Append(f[n - 1], s[n]) ELSE f[n - 1]
    BY <1>1, FilterSteps
  <2>3. s[n] \in T
    BY <1>1
  <2>4. CASE s[n] \in K
    <3>1. f[n] = Append(f[n - 1], s[n])
      BY <2>2, <2>4
    <3>2. f[n] \in Seq(T) /\ Len(f[n]) = Len(f[n - 1]) + 1
      BY <2>1, <2>3, <3>1
    <3>3. \A i \in 1..Len(f[n]) : f[n][i] \in K
      BY <2>1, <2>3, <2>4, <3>1
    <3>4. Good(n)
      BY <2>1, <3>2, <3>3
    <3> QED
      BY <3>4
  <2>5. CASE s[n] \notin K
    <3>1. f[n] = f[n - 1]
      BY <2>2, <2>5
    <3>2. Good(n)
      BY <2>1, <3>1
    <3> QED
      BY <3>2
  <2> QED
    BY <2>4, <2>5
<1>4. I = 0..N
  <2>1. I \in SUBSET (0..N)
    OBVIOUS
  <2> HIDE DEF I
  <2> QED
    BY <1>2, <1>3, <2>1, LoopKeeps
<1> QED
  BY <1>1, <1>4

\* Who keeps less has less.
LEMMA FilterGrows ==
  ASSUME NEW T, NEW s \in Seq(T), NEW K, NEW L, L \cap T \subseteq K,
         NEW f, IsFilter(f, s, K), NEW h, IsFilter(h, s, L)
  PROVE  Len(h[Len(s)]) <= Len(f[Len(s)])
<1>1. PICK N \in Nat : N = Len(s)
  OBVIOUS
<1> DEFINE I == {n \in 0..N : Len(h[n]) <= Len(f[n])}
<1>2. 0 \in I
  BY FilterSteps
<1>3. ASSUME NEW n \in 1..N, n - 1 \in I PROVE n \in I
  <2>1. Len(h[n - 1]) <= Len(f[n - 1])
    BY <1>3
  <2>2. f[n] = IF s[n] \in K THEN Append(f[n - 1], s[n]) ELSE f[n - 1]
    BY <1>1, FilterSteps
  <2>3. h[n] = IF s[n] \in L THEN Append(h[n - 1], s[n]) ELSE h[n - 1]
    BY <1>1, FilterSteps
  <2>4. s[n] \in T /\ n - 1 \in 0..Len(s)
    BY <1>1
  <2>5. f[n - 1] \in Seq(T) /\ h[n - 1] \in Seq(T)
    BY <2>4, FilterFacts
  <2>6. Len(Append(f[n - 1], s[n])) = Len(f[n - 1]) + 1 /\ Len(Append(h[n - 1], s[n])) = Len(h[n - 1]) + 1
    BY <2>4, <2>5
  <2>7. Len(f[n - 1]) \in Nat /\ Len(h[n - 1]) \in Nat
    BY <2>5
  <2>8. Len(h[n]) <= Len(f[n])
    BY <2>1, <2>2, <2>3, <2>4, <2>6, <2>7
  <2> QED
    BY <2>8
<1>4. I = 0..N
  <2>1. I \in SUBSET (0..N)
    OBVIOUS
  <2> HIDE DEF I
  <2> QED
    BY <1>2, <1>3, <2>1, LoopKeeps
<1>5. N \in I
  BY <1>4
<1> QED
  BY <1>1, <1>5

\* A family of subsets that has every set it has all of but one member is all of them.
LEMMA SubsetInduction ==
  ASSUME NEW S, IsFiniteSet(S), NEW Q \in SUBSET (SUBSET S),
         \A T \in SUBSET S : (\A x \in T : T \ {x} \in Q) => T \in Q
  PROVE  Q = SUBSET S
<1>1. PICK N \in Nat : N = Cardinality(S)
  BY FS_CardinalityType
<1> DEFINE I == {n \in 0..N : \A T \in SUBSET S : Cardinality(T) = n => T \in Q}
<1>2. 0 \in I
  <2>1. ASSUME NEW T \in SUBSET S, Cardinality(T) = 0 PROVE T \in Q
    <3>1. IsFiniteSet(T)
      BY FS_Subset
    <3>2. T = {}
      BY <2>1, <3>1, FS_EmptySet
    <3> QED
      BY <3>2
  <2> QED
    BY <2>1
<1>3. ASSUME NEW n \in 1..N, n - 1 \in I PROVE n \in I
  <2>1. ASSUME NEW T \in SUBSET S, Cardinality(T) = n PROVE T \in Q
    <3>1. IsFiniteSet(T)
      BY FS_Subset
    <3>2. ASSUME NEW x \in T PROVE T \ {x} \in Q
      <4>1. Cardinality(T \ {x}) = n - 1
        BY <2>1, <3>1, FS_RemoveElement
      <4> QED
        BY <1>3, <4>1
    <3> QED
      BY <3>2
  <2> QED
    BY <2>1
<1>4. I = 0..N
  <2>1. I \in SUBSET (0..N)
    OBVIOUS
  <2> HIDE DEF I
  <2> QED
    BY <1>2, <1>3, <2>1, LoopKeeps
<1>5. ASSUME NEW T \in SUBSET S PROVE T \in Q
  <2>1. IsFiniteSet(T) /\ Cardinality(T) \in Nat /\ Cardinality(T) <= N
    BY <1>1, FS_Subset, FS_CardinalityType
  <2>2. Cardinality(T) \in I
    BY <1>4, <2>1
  <2> QED
    BY <2>2
<1> QED
  BY <1>5

\* The sum of f over each set of subsets of S, one member after the other.
IsSum(h, f, S) ==
  h = [T \in SUBSET S |-> IF T = {} THEN 0 ELSE f[CHOOSE x \in T : TRUE] + h[T \ {CHOOSE x \in T : TRUE}]]

\* The values of a finite set can be added up.
LEMMA SumExists ==
  ASSUME NEW S, IsFiniteSet(S), NEW f, \A x \in S : f[x] \in Nat
  PROVE  \E h : IsSum(h, f, S)
<1>1. PICK N \in Nat : N = Cardinality(S)
  BY FS_CardinalityType
<1> DEFINE c(T) == CHOOSE x \in T : TRUE
           V == [SUBSET S -> Nat]
           b == [T \in SUBSET S |-> 0]
           step(h) == [T \in SUBSET S |-> IF T = {} THEN 0 ELSE f[c(T)] + h[T \ {c(T)}]]
           g == [p \in (1..N) \X V |-> step(p[2])]
<1>2. \A T \in SUBSET S : T # {} => c(T) \in T
  OBVIOUS
<1>3. ASSUME NEW h \in V PROVE step(h) \in V
  <2>1. ASSUME NEW T \in SUBSET S, T # {} PROVE f[c(T)] + h[T \ {c(T)}] \in Nat
    <3>1. c(T) \in S /\ T \ {c(T)} \in SUBSET S
      BY <1>2, <2>1
    <3> HIDE DEF c
    <3>2. f[c(T)] \in Nat /\ h[T \ {c(T)}] \in Nat
      BY <3>1
    <3> QED
      BY <3>2
  <2> HIDE DEF c
  <2> QED
    BY <2>1
<1> HIDE DEF c
<1>4. IsRound(g, N, V) /\ b \in V
  <2> HIDE DEF step
  <2> QED
    BY <1>3 DEF IsRound
<1>5. PICK f1 : IsLoop(f1, N, V, b, g)
  <2> HIDE DEF b, g, V
  <2> QED
    BY <1>4, Loop
<1>6. f1 \in [0..N -> V] /\ f1[0] = b /\ \A n \in 1..N : f1[n] = step(f1[n - 1])
  <2>1. f1 \in [0..N -> V] /\ f1[0] = b /\ \A n \in 1..N : f1[n] = g[<<n, f1[n - 1]>>]
    <3> HIDE DEF b, g, V
    <3> QED
      BY <1>5 DEF IsLoop
  <2>2. ASSUME NEW n \in 1..N PROVE f1[n] = step(f1[n - 1])
    <3>1. f1[n - 1] \in V
      <4> HIDE DEF V
      <4> QED
        BY <2>1
    <3>2. <<n, f1[n - 1]>> \in (1..N) \X V
      BY <3>1
    <3> HIDE DEF step, V
    <3> QED
      BY <2>1, <3>2
  <2> HIDE DEF step, g, V, b
  <2> QED
    BY <2>1, <2>2
<1> DEFINE h == [T \in SUBSET S |-> f1[Cardinality(T)][T]]
<1>7. ASSUME NEW T \in SUBSET S PROVE IsFiniteSet(T) /\ Cardinality(T) \in 0..N
  BY <1>1, FS_Subset, FS_CardinalityType
<1>8. h[{}] = 0
  <2>1. {} \in SUBSET S /\ Cardinality({}) = 0
    BY FS_EmptySet
  <2> QED
    BY <1>6, <2>1
<1>9. ASSUME NEW T \in SUBSET S, T # {} PROVE h[T] = f[c(T)] + h[T \ {c(T)}]
  <2>1. c(T) \in T /\ T \ {c(T)} \in SUBSET S
    BY <1>2, <1>9
  <2>2. PICK n, m : n = Cardinality(T) /\ m = Cardinality(T \ {c(T)})
    OBVIOUS
  <2>3. n \in 1..N /\ m = n - 1
    <3>1. n \in 0..N /\ m \in 0..N
      BY <1>7, <2>1, <2>2
    <3>2. m = n - 1
      BY <1>7, <2>1, <2>2, FS_RemoveElement
    <3> QED
      BY <3>1, <3>2
  <2>4. h[T] = f1[n][T] /\ h[T \ {c(T)}] = f1[n - 1][T \ {c(T)}]
    BY <2>1, <2>2, <2>3
  <2>5. f1[n] = step(f1[n - 1])
    BY <1>6, <2>3
  <2>6. f1[n][T] = f[c(T)] + f1[n - 1][T \ {c(T)}]
    BY <1>9, <2>5
  <2> QED
    BY <2>4, <2>6
<1>10. h = [T \in SUBSET S |-> IF T = {} THEN 0 ELSE f[c(T)] + h[T \ {c(T)}]]
  <2>1. h = [T \in SUBSET S |-> h[T]]
    OBVIOUS
  <2> HIDE DEF h
  <2>2. \A T \in SUBSET S : h[T] = IF T = {} THEN 0 ELSE f[c(T)] + h[T \ {c(T)}]
    BY <1>8, <1>9
  <2> QED
    BY <2>1, <2>2
<1> HIDE DEF h
<1> QED
  BY <1>10, Zenon DEF IsSum, c

\* A sum is that of one member, the chosen one, and that of the others.
LEMMA SumSteps ==
  ASSUME NEW S, NEW f, NEW h, IsSum(h, f, S)
  PROVE  /\ h[{}] = 0
         /\ \A T \in SUBSET S : T # {} => \E x \in T : x = (CHOOSE y \in T : TRUE) /\ h[T] = f[x] + h[T \ {x}]
<1>1. \A T \in SUBSET S :
        h[T] = IF T = {} THEN 0 ELSE f[CHOOSE x \in T : TRUE] + h[T \ {CHOOSE x \in T : TRUE}]
  BY Zenon DEF IsSum
<1>2. h[{}] = 0
  BY <1>1
<1>3. ASSUME NEW T \in SUBSET S, T # {}
      PROVE  \E x \in T : x = (CHOOSE y \in T : TRUE) /\ h[T] = f[x] + h[T \ {x}]
  <2>1. PICK x : x = CHOOSE y \in T : TRUE
    OBVIOUS
  <2>2. x \in T
    BY <1>3, <2>1
  <2>3. h[T] = f[x] + h[T \ {x}]
    BY <1>1, <1>3, <2>1
  <2> QED
    BY <2>1, <2>2, <2>3
<1> QED
  BY <1>2, <1>3

\* A sum of naturals is a natural.
LEMMA SumType ==
  ASSUME NEW S, IsFiniteSet(S), NEW f, \A x \in S : f[x] \in Nat, NEW h, IsSum(h, f, S)
  PROVE  \A T \in SUBSET S : h[T] \in Nat
<1> DEFINE Q == {T \in SUBSET S : h[T] \in Nat}
<1>1. ASSUME NEW T \in SUBSET S, \A x \in T : T \ {x} \in Q
      PROVE  T \in Q
  <2>1. CASE T = {}
    BY <2>1, SumSteps
  <2>2. CASE T # {}
    <3>1. PICK c \in T : h[T] = f[c] + h[T \ {c}]
      BY <2>2, SumSteps
    <3>2. h[T \ {c}] \in Nat /\ f[c] \in Nat
      BY <1>1
    <3> QED
      BY <3>1, <3>2
  <2> QED
    BY <2>1, <2>2
<1>2. Q = SUBSET S
  <2>1. Q \in SUBSET (SUBSET S)
    OBVIOUS
  <2> HIDE DEF Q
  <2> QED
    BY <1>1, <2>1, SubsetInduction
<1> QED
  BY <1>2

\* A sum is that of any member and that of the others.
LEMMA SumOne ==
  ASSUME NEW S, IsFiniteSet(S), NEW f, \A x \in S : f[x] \in Nat, NEW h, IsSum(h, f, S)
  PROVE  \A T \in SUBSET S : \A x \in T : h[T] = f[x] + h[T \ {x}]
<1> DEFINE Q == {T \in SUBSET S : \A x \in T : h[T] = f[x] + h[T \ {x}]}
<1>0. \A T \in SUBSET S : h[T] \in Nat
  BY SumType
<1>1. ASSUME NEW T \in SUBSET S, \A x \in T : T \ {x} \in Q
      PROVE  T \in Q
  <2>1. ASSUME NEW x \in T PROVE h[T] = f[x] + h[T \ {x}]
    <3>1. PICK c \in T : h[T] = f[c] + h[T \ {c}]
      BY SumSteps
    <3>2. CASE x # c
      <4>1. PICK A, B, C : A = T \ {c} /\ B = T \ {x} /\ C = (T \ {c}) \ {x}
        OBVIOUS
      <4>2. C = B \ {c} /\ C = A \ {x} /\ x \in A /\ c \in B /\ A \in Q /\ B \in Q /\ C \in SUBSET S
        BY <1>1, <3>2, <4>1
      <4>3. h[A] = f[x] + h[C] /\ h[B] = f[c] + h[C]
        BY <4>2
      <4>4. f[x] \in Nat /\ f[c] \in Nat /\ h[C] \in Nat
        BY <1>0, <4>2
      <4>5. h[T] = f[c] + h[A]
        BY <3>1, <4>1
      <4>6. h[T] = f[x] + h[B]
        BY <4>3, <4>4, <4>5
      <4> QED
        BY <4>1, <4>6
    <3> QED
      BY <3>1, <3>2
  <2> QED
    BY <2>1
<1>2. Q = SUBSET S
  <2>1. Q \in SUBSET (SUBSET S)
    OBVIOUS
  <2> HIDE DEF Q
  <2> QED
    BY <1>1, <2>1, SubsetInduction
<1> QED
  BY <1>2

\* The sum of a set does not depend on the sets summed beside it.
LEMMA SumsAgree ==
  ASSUME NEW S, IsFiniteSet(S), NEW R \in SUBSET S, NEW f, NEW h, IsSum(h, f, S),
         NEW e, \A x \in R : e[x] = f[x], NEW k, IsSum(k, e, R)
  PROVE  k[R] = h[R]
<1> DEFINE Q == {T \in SUBSET R : k[T] = h[T]}
<1>1. ASSUME NEW T \in SUBSET R, \A x \in T : T \ {x} \in Q
      PROVE  T \in Q
  <2>1. CASE T = {}
    BY <2>1, SumSteps
  <2>2. CASE T # {}
    <3>1. PICK c \in T : c = (CHOOSE y \in T : TRUE) /\ h[T] = f[c] + h[T \ {c}]
      BY <2>2, SumSteps
    <3>2. PICK d \in T : d = (CHOOSE y \in T : TRUE) /\ k[T] = e[d] + k[T \ {d}]
      BY <2>2, SumSteps
    <3>3. c = d /\ k[T \ {c}] = h[T \ {c}] /\ e[c] = f[c]
      BY <1>1, <3>1, <3>2
    <3> QED
      BY <3>1, <3>2, <3>3
  <2> QED
    BY <2>1, <2>2
<1>2. Q = SUBSET R
  <2>1. Q \in SUBSET (SUBSET R) /\ IsFiniteSet(R)
    BY FS_Subset
  <2> HIDE DEF Q
  <2> QED
    BY <1>1, <2>1, SubsetInduction
<1> QED
  BY <1>2

\* The sum of two sets that share nothing.
LEMMA SumUnion ==
  ASSUME NEW S, IsFiniteSet(S), NEW f, \A x \in S : f[x] \in Nat, NEW h, IsSum(h, f, S),
         NEW A \in SUBSET S, NEW B \in SUBSET S, A \cap B = {}
  PROVE  h[A \cup B] = h[A] + h[B]
<1> DEFINE Q == {T \in SUBSET B : h[A \cup T] = h[A] + h[T]}
<1>0. \A T \in SUBSET S : h[T] \in Nat
  BY SumType
<1>1. ASSUME NEW T \in SUBSET B, \A x \in T : T \ {x} \in Q
      PROVE  T \in Q
  <2>1. CASE T = {}
    <3>1. A \cup T = A /\ h[T] = 0 /\ h[A] \in Nat
      BY <1>0, <2>1, SumSteps
    <3>2. h[A] = h[A] + 0
      BY <3>1
    <3>3. h[A \cup T] = h[A] + h[T]
      BY <3>1, <3>2
    <3> QED
      BY <3>3
  <2>2. CASE T # {}
    <3>1. PICK x \in T : TRUE
      BY <2>2
    <3>2. h[T] = f[x] + h[T \ {x}] /\ h[A \cup T] = f[x] + h[(A \cup T) \ {x}]
      <4>1. T \in SUBSET S /\ A \cup T \in SUBSET S /\ x \in A \cup T
        OBVIOUS
      <4> QED
        BY <3>1, <4>1, SumOne
    <3>3. (A \cup T) \ {x} = A \cup (T \ {x})
      OBVIOUS
    <3>4. h[A \cup (T \ {x})] = h[A] + h[T \ {x}]
      BY <1>1
    <3>5. h[A] \in Nat /\ h[T \ {x}] \in Nat /\ f[x] \in Nat
      <4>1. A \in SUBSET S /\ T \ {x} \in SUBSET S /\ x \in S
        OBVIOUS
      <4> QED
        BY <1>0, <4>1
    <3>6. PICK a, r, y : a = h[A] /\ r = h[T \ {x}] /\ y = f[x] /\ a \in Nat /\ r \in Nat /\ y \in Nat
      BY <3>5
    <3>7. h[T] = y + r /\ h[A \cup T] = y + (a + r)
      BY <3>2, <3>3, <3>4, <3>6
    <3>8. y + (a + r) = a + (y + r)
      BY <3>6
    <3>9. h[A \cup T] = h[A] + h[T]
      BY <3>6, <3>7, <3>8
    <3> QED
      BY <3>9
  <2> QED
    BY <2>1, <2>2
<1>2. Q = SUBSET B
  <2>1. Q \in SUBSET (SUBSET B) /\ IsFiniteSet(B)
    BY FS_Subset
  <2> HIDE DEF Q
  <2> QED
    BY <1>1, <2>1, SubsetInduction
<1> QED
  BY <1>2

\* P gives of each member of S those before it, in one order of all.
IsOrder(P, S) ==
  /\ P \in [S -> SUBSET S]
  /\ \A r \in S : r \notin P[r]
  /\ \A r \in S : \A q \in P[r] : P[q] \subseteq P[r]
  /\ \A q, r \in S : q = r \/ q \in P[r] \/ r \in P[q]
IsRank(p, P, S) == p = [r \in S |-> Cardinality(P[r])]

\* In an order of finitely many each has a place of its own, and each place is taken.
LEMMA RankFacts ==
  ASSUME NEW S, IsFiniteSet(S), NEW P, IsOrder(P, S), NEW p, IsRank(p, P, S),
         NEW N, N = Cardinality(S)
  PROVE  /\ N \in Nat
         /\ p \in [S -> 0..N - 1]
         /\ \A q, r \in S : q \in P[r] <=> p[q] < p[r]
         /\ \A q, r \in S : p[q] = p[r] => q = r
         /\ \A i \in 0..N - 1 : \E r \in S : p[r] = i
<1>1. N \in Nat
  BY FS_CardinalityType
<1>2. P \in [S -> SUBSET S] /\ \A r \in S : r \notin P[r] /\ p[r] = Cardinality(P[r])
  BY DEF IsOrder, IsRank
<1>3. ASSUME NEW r \in S PROVE p[r] \in 0..N - 1 /\ IsFiniteSet(P[r])
  <2>1. P[r] \in SUBSET S /\ P[r] # S
    BY <1>2
  <2>2. PICK T \in SUBSET S : T = P[r] /\ T # S
    BY <2>1
  <2>3. IsFiniteSet(T) /\ Cardinality(T) <= N /\ Cardinality(T) # N
    BY <2>2, FS_Subset
  <2>4. Cardinality(T) \in Nat
    BY <2>3, FS_CardinalityType
  <2> QED
    BY <1>1, <1>2, <2>2, <2>3, <2>4
<1>4. ASSUME NEW r \in S, NEW q \in P[r] PROVE p[q] < p[r]
  <2>1. q \in S /\ P[q] \subseteq P[r] /\ P[q] # P[r]
    BY <1>2 DEF IsOrder
  <2>2. PICK T, U : T = P[r] /\ U = P[q]
    OBVIOUS
  <2>3. IsFiniteSet(T) /\ U \in SUBSET T /\ U # T
    BY <1>3, <2>1, <2>2
  <2>4. Cardinality(U) <= Cardinality(T) /\ Cardinality(U) # Cardinality(T)
    BY <2>3, FS_Subset
  <2> QED
    BY <1>2, <1>3, <2>1, <2>2, <2>4
<1>5. ASSUME NEW q \in S, NEW r \in S PROVE q \in P[r] <=> p[q] < p[r]
  <2>1. q = r \/ q \in P[r] \/ r \in P[q]
    BY DEF IsOrder
  <2>2. p[q] \in Int /\ p[r] \in Int
    BY <1>1, <1>3
  <2>3. CASE q \in P[r]
    BY <1>4, <2>3
  <2>4. CASE r \in P[q]
    <3>1. p[r] < p[q]
      BY <1>4, <2>4
    <3>2. q \notin P[r]
      BY <1>4, <2>2, <3>1
    <3> QED
      BY <2>2, <3>1, <3>2
  <2>5. CASE q = r
    BY <1>2, <2>2, <2>5
  <2> QED
    BY <2>1, <2>3, <2>4, <2>5
<1>6. ASSUME NEW q \in S, NEW r \in S, p[q] = p[r] PROVE q = r
  <2>1. q \notin P[r] /\ r \notin P[q]
    BY <1>1, <1>3, <1>5, <1>6
  <2> QED
    BY <2>1 DEF IsOrder
<1>7. p \in [S -> 0..N - 1]
  BY <1>3 DEF IsRank
<1>8. PICK W : W = 0..N - 1
  OBVIOUS
<1>9. ASSUME NEW i \in W PROVE \E r \in S : p[r] = i
  <2>1. p \in Injection(S, W)
    BY <1>6, <1>7, <1>8 DEF Injection, IsInjective
  <2>2. IsFiniteSet(W) /\ Cardinality(W) = N
    <3>1. PICK lo, hi \in Int : lo = 0 /\ hi = N - 1
      BY <1>1
    <3>2. IsFiniteSet(lo..hi) /\ Cardinality(lo..hi) = IF lo > hi THEN 0 ELSE hi - lo + 1
      BY FS_Interval
    <3> QED
      BY <1>1, <1>8, <3>1, <3>2
  <2>3. Cardinality(S) = Cardinality(W)
    BY <2>2
  <2>4. p \in Surjection(S, W)
    BY <2>1, <2>2, <2>3, FS_Injection
  <2> QED
    BY <2>4 DEF Surjection
<1> QED
  BY <1>1, <1>5, <1>6, <1>7, <1>8, <1>9

\* s lists S by the places p.
IsByPlace(s, S, p) == s \in [1..Cardinality(S) -> S] /\ \A i \in 1..Cardinality(S) : p[s[i]] = i - 1

\* One list only is by given places.
LEMMA OneByPlace ==
  ASSUME NEW S, NEW p, \A q, r \in S : p[q] = p[r] => q = r, NEW s, IsByPlace(s, S, p), NEW t, IsByPlace(t, S, p)
  PROVE  s = t
<1>1. PICK W : W = 1..Cardinality(S)
  OBVIOUS
<1>2. s \in [W -> S] /\ t \in [W -> S] /\ \A i \in W : p[s[i]] = p[t[i]]
  BY <1>1 DEF IsByPlace
<1>3. \A i \in W : s[i] = t[i]
  BY <1>2
<1> QED
  BY <1>2, <1>3

\* Who leaves some of a list by place leaves them by theirs, those of a part of the order.
LEMMA FilterKeepsPlace ==
  ASSUME NEW A, IsFiniteSet(A), NEW P, IsOrder(P, A), NEW p, IsRank(p, P, A),
         NEW s, IsByPlace(s, A, p), NEW K, NEW f, IsFilter(f, s, K),
         NEW L, L = A \cap K, NEW Q, Q = [r \in L |-> P[r] \cap L], NEW q, IsRank(q, Q, L)
  PROVE  IsOrder(Q, L) /\ IsByPlace(f[Len(s)], L, q)
<1>1. PICK N \in Nat : N = Cardinality(A)
  BY FS_CardinalityType
<1>2. L \in SUBSET A /\ IsFiniteSet(L)
  BY FS_Subset
<1>3. IsOrder(Q, L)
  BY <1>2 DEF IsOrder
<1>4. /\ p \in [A -> 0..N - 1]
      /\ \A x, r \in A : x \in P[r] <=> p[x] < p[r]
      /\ \A x, r \in A : p[x] = p[r] => x = r
  BY <1>1, RankFacts
<1>5. s \in Seq(A) /\ Len(s) = N /\ \A n \in 1..N : s[n] \in A /\ p[s[n]] = n - 1
  <2>1. s \in [1..N -> A] /\ \A n \in 1..N : p[s[n]] = n - 1
    BY <1>1 DEF IsByPlace
  <2>2. s \in Seq(A) /\ Len(s) = N
    BY <2>1
  <2> QED
    BY <2>1, <2>2
<1>6. f[0] = <<>> /\ \A n \in 1..N : f[n] = IF s[n] \in K THEN Append(f[n - 1], s[n]) ELSE f[n - 1]
  <2>1. s \in Seq(A)
    BY <1>5
  <2>2. /\ f[0] = <<>>
        /\ \A n \in 1..Len(s) : f[n] = IF s[n] \in K THEN Append(f[n - 1], s[n]) ELSE f[n - 1]
    BY <2>1, FilterSteps
  <2> QED
    BY <1>5, <2>2
<1>7. \A r \in L : q[r] = Cardinality(Q[r]) /\ Q[r] = {x \in L : p[x] < p[r]}
  <2>1. \A r \in L : q[r] = Cardinality(Q[r])
    BY Zenon DEF IsRank
  <2>2. \A r \in L : Q[r] = {x \in L : p[x] < p[r]}
    <3>1. \A r \in L : Q[r] = P[r] \cap L
      OBVIOUS
    <3>2. \A r \in L : \A x \in L : x \in P[r] <=> p[x] < p[r]
      BY <1>2, <1>4
    <3> QED
      BY <3>1, <3>2
  <2> QED
    BY <2>1, <2>2
<1> DEFINE B(n) == {x \in L : p[x] < n}
           Good(n) == /\ f[n] \in Seq(L) /\ Len(f[n]) = Cardinality(B(n))
                      /\ \A i \in 1..Len(f[n]) : q[f[n][i]] = i - 1
           I == {n \in 0..N : Good(n)}
<1>8. 0 \in I
  <2>1. B(0) = {}
    BY <1>2, <1>4
  <2>2. Cardinality(B(0)) = 0
    BY <2>1, FS_EmptySet
  <2>3. f[0] \in Seq(L) /\ Len(f[0]) = 0
    BY <1>6
  <2> HIDE DEF B
  <2>4. Good(0)
    BY <2>2, <2>3
  <2> QED
    BY <2>4
<1>9. ASSUME NEW n \in 1..N, n - 1 \in I PROVE n \in I
  <2>1. Good(n - 1) /\ n \in 0..N
    <3> HIDE DEF Good
    <3> QED
      BY <1>9
  <2>2. PICK r \in A : r = s[n] /\ p[r] = n - 1
    BY <1>5
  <2>3. \A x \in L : p[x] \in Int /\ (p[x] < n <=> p[x] < n - 1 \/ x = r)
    <3>1. \A x \in L : p[x] \in Int /\ (p[x] = n - 1 <=> x = r)
      BY <1>1, <1>2, <1>4, <2>2
    <3> QED
      BY <3>1
  <2>4. CASE r \in K
    <3>1. r \in L /\ B(n) = B(n - 1) \cup {r} /\ r \notin B(n - 1)
      BY <2>2, <2>3, <2>4
    <3>2. IsFiniteSet(B(n - 1))
      BY <1>2, FS_Subset
    <3>3. PICK c \in Nat : c = Cardinality(B(n - 1))
      BY <3>2, FS_CardinalityType
    <3>4. Cardinality(B(n)) = c + 1
      BY <3>1, <3>2, <3>3, FS_AddElement
    <3>5. q[r] = c
      <4>1. Q[r] = B(n - 1)
        <5>1. Q[r] = {x \in L : p[x] < p[r]}
          BY <1>7, <3>1
        <5> QED
          BY <2>2, <5>1
      <4> QED
        BY <1>7, <3>1, <3>3, <4>1
    <3> HIDE DEF B
    <3>6. PICK g \in Seq(L) : g = f[n - 1] /\ Len(g) = c /\ \A i \in 1..c : q[g[i]] = i - 1
      BY <2>1, <3>3
    <3>7. f[n] = Append(g, r)
      BY <1>6, <2>2, <2>4, <3>6
    <3>8. f[n] \in Seq(L) /\ Len(f[n]) = c + 1 /\ f[n][c + 1] = r /\ \A i \in 1..c : f[n][i] = g[i]
      BY <3>1, <3>6, <3>7
    <3>9. \A i \in 1..c + 1 : i = c + 1 \/ i \in 1..c
      OBVIOUS
    <3>10. (c + 1) - 1 = c
      OBVIOUS
    <3>11. \A i \in 1..c + 1 : q[f[n][i]] = i - 1
      BY <3>5, <3>6, <3>8, <3>9, <3>10
    <3>12. Good(n)
      BY <3>4, <3>8, <3>11
    <3> QED
      BY <2>1, <3>12
  <2>5. CASE r \notin K
    <3>1. B(n) = B(n - 1)
      BY <2>3, <2>5
    <3>2. f[n] = f[n - 1]
      BY <1>6, <2>2, <2>5
    <3> HIDE DEF B
    <3>3. Good(n)
      BY <2>1, <3>1, <3>2
    <3> QED
      BY <2>1, <3>3
  <2> QED
    BY <2>4, <2>5
<1>10. I = 0..N
  <2>1. I \in SUBSET (0..N)
    OBVIOUS
  <2> HIDE DEF I
  <2> QED
    BY <1>8, <1>9, <2>1, LoopKeeps
<1>11. Good(N)
  <2>1. N \in 0..N
    OBVIOUS
  <2> QED
    BY <1>10, <2>1
<1>12. B(N) = L
  BY <1>2, <1>4
<1> HIDE DEF B
<1>13. PICK g, c : g = f[N] /\ c = Cardinality(L) /\ g \in Seq(L) /\ Len(g) = c /\ \A i \in 1..c : q[g[i]] = i - 1
  BY <1>11, <1>12
<1>14. g \in [1..c -> L]
  <2>1. c \in Nat
    BY <1>2, <1>13, FS_CardinalityType
  <2>2. \A t \in Seq(L) : t \in [1..Len(t) -> L]
    OBVIOUS
  <2> QED
    BY <1>13, <2>1, <2>2
<1> QED
  BY <1>3, <1>5, <1>13, <1>14 DEF IsByPlace

-----------------------------------------------------------------------------
(* What is kept of the insights (MiningRules): x1 is the input.              *)

\* Bounded lists are lists.
LEMMA BoundedList ==
  ASSUME NEW most \in Nat, NEW s \in Rules!Answers(most)
  PROVE  s \in Seq(Rules!Drafts)
<1> DEFINE D == Rules!Drafts
<1>1. s \in UNION {[1..n -> D] : n \in 0..most}
  BY DEF Rules!Answers
<1> HIDE DEF D
<1>2. PICK n \in 0..most : s \in [1..n -> D]
  BY <1>1
<1>3. s \in Seq(D)
  BY <1>2
<1> QED
  BY <1>3 DEF D

\* The lesser of two numbers.
Lesser(a, b) == IF a <= b THEN a ELSE b
LEMMA LesserOfTwo ==
  ASSUME NEW a \in Nat, NEW b \in Nat
  PROVE  Rules!Min({a, b}) = Lesser(a, b) /\ Lesser(a, b) \in Nat /\ Lesser(a, b) <= a /\ Lesser(a, b) <= b
<1>1. Rules!Min({a, b}) = Lesser(a, b)
  BY DEF Rules!Min, Lesser
<1> QED
  BY <1>1 DEF Lesser

\* The insights of an answer that are kept: its first ones.
LEMMA FirstOnes ==
  ASSUME NEW T, NEW s \in Seq(T)
  PROVE  /\ Rules!first(s) \in Seq(T)
         /\ Len(Rules!first(s)) = Lesser(Len(s), MAX_INSIGHTS)
         /\ \A i \in 1..Len(Rules!first(s)) : i \in 1..Len(s) /\ Rules!first(s)[i] = s[i]
<1>1. PICK m : m = Lesser(Len(s), MAX_INSIGHTS)
  OBVIOUS
<1>2. m \in Nat /\ m <= Len(s) /\ Rules!Min({Len(s), MAX_INSIGHTS}) = m
  <2>1. Len(s) \in Nat /\ MAX_INSIGHTS \in Nat
    BY Computations
  <2> QED
    BY <1>1, <2>1, LesserOfTwo
<1>3. Rules!first(s) = SubSeq(s, 1, m)
  BY <1>2 DEF Rules!first
<1>4. SubSeq(s, 1, m) = [i \in 1..m |-> s[i]]
  BY <1>2
<1>5. \A i \in 1..m : i \in 1..Len(s) /\ s[i] \in T
  BY <1>2
<1>6. [i \in 1..m |-> s[i]] \in [1..m -> T]
  BY <1>5
<1>7. Rules!first(s) \in Seq(T) /\ Len(Rules!first(s)) = m
  BY <1>2, <1>3, <1>4, <1>6
<1> QED
  BY <1>1, <1>3, <1>4, <1>5, <1>7

\* What the mining keeps of a list is read member by member.
LEMMA WhereIsFilter ==
  ASSUME NEW T, NEW s \in Seq(T), NEW K
  PROVE  \E f : IsFilter(f, s, K) /\ Rules!Where(s, K) = f[Len(s)]
<1> DEFINE F == CHOOSE f : IsFilter(f, s, K)
<1>1. IsFilter(F, s, K)
  BY FilterExists
<1>2. Rules!Where(s, K) = F[Len(s)]
  BY DEF Rules!Where, IsFilter
<1> QED
  BY <1>1, <1>2

\* Every insight that is shown is supported, and none is lost but by a call that raises.
LEMMA InsightsHold ==
  ASSUME x1 \in Rules!InsightInputs
  PROVE  Rules!InsightsAreSupported
<1> DEFINE D == Rules!Drafts
           H == {d \in D : Rules!Holds(d)}
           E == {d \in D : Rules!Supported(d)}
<1>1. PICK s, t : s = x1.first /\ t = x1.again /\ s \in Seq(D) /\ t \in Seq(D)
  BY BoundedList, Computations DEF Rules!InsightInputs
<1>2. E \cap D \subseteq H
  BY DEF Rules!Drafts, Rules!Holds, Rules!Valid, Rules!Supported
<1>3. \A d \in H : Rules!Supported(d)
  BY DEF Rules!Holds, Rules!Valid, Rules!Supported
<1> HIDE DEF D, H, E
<1>4. PICK f : IsFilter(f, s, H) /\ Rules!Where(s, H) = f[Len(s)]
  BY <1>1, WhereIsFilter
<1>5. PICK g : IsFilter(g, t, H) /\ Rules!Where(t, H) = g[Len(t)]
  BY <1>1, WhereIsFilter
<1>6. PICK h : IsFilter(h, s, E) /\ Rules!Where(s, E) = h[Len(s)]
  BY <1>1, WhereIsFilter
<1>7. PICK F, G, B : F = f[Len(s)] /\ G = g[Len(t)] /\ B = h[Len(s)]
  OBVIOUS
<1>8. /\ F \in Seq(D) /\ \A i \in 1..Len(F) : F[i] \in H
      /\ G \in Seq(D) /\ \A i \in 1..Len(G) : G[i] \in H
      /\ B \in Seq(D)
  <2>1. Len(s) \in 0..Len(s) /\ Len(t) \in 0..Len(t)
    BY <1>1
  <2> QED
    BY <1>1, <1>4, <1>5, <1>6, <1>7, <2>1, FilterFacts
<1>9. Len(B) <= Len(F)
  BY <1>1, <1>2, <1>4, <1>6, <1>7, FilterGrows
<1>10. PICK one, two : one = Rules!first(F) /\ two = Rules!first(G)
  OBVIOUS
<1>11. /\ one \in Seq(D) /\ \A i \in 1..Len(one) : one[i] \in H
       /\ two \in Seq(D) /\ \A i \in 1..Len(two) : two[i] \in H
       /\ Len(one) = Lesser(Len(F), MAX_INSIGHTS)
  BY <1>8, <1>10, FirstOnes
<1>12. PICK had : had = Lesser(Len(B), MAX_INSIGHTS)
  OBVIOUS
<1>13. had \in Nat /\ had <= Len(one) /\ Rules!Min({Len(B), MAX_INSIGHTS}) = had
  <2>1. Len(B) \in Nat /\ Len(F) \in Nat /\ MAX_INSIGHTS \in Nat
    BY <1>8, Computations
  <2>2. had \in Nat /\ Rules!Min({Len(B), MAX_INSIGHTS}) = had
    BY <1>12, <2>1, LesserOfTwo
  <2>3. had <= Len(one)
    BY <1>9, <1>11, <1>12, <2>1 DEF Lesser
  <2> QED
    BY <2>2, <2>3
<1>14. Rules!verify(x1.first) = one /\ Rules!verify(x1.again) = two
  BY <1>1, <1>4, <1>5, <1>7, <1>10 DEF Rules!verify, H, D
<1>15. PICK outcome : outcome = Rules!insights(x1)
  OBVIOUS
<1>16. /\ \A i \in 1..Len(outcome.shown) : outcome.shown[i] \in H
       /\ outcome.status = "done" => Len(outcome.shown) >= had
       /\ outcome.status = "failed" /\ x1.raises # "first" => had < MIN_INSIGHTS
  <2>1. CASE x1.raises = "first" \/ (Len(one) < MIN_INSIGHTS /\ x1.raises = "again")
    <3>1. outcome = Rules!Failed
      BY <1>11, <1>14, <1>15, <2>1, Computations DEF Rules!insights, Rules!Retried
    <3>2. outcome.status = "failed" /\ outcome.shown = <<>>
      BY <3>1 DEF Rules!Failed
    <3>3. Len(one) < MIN_INSIGHTS => had < MIN_INSIGHTS
      BY <1>11, <1>13, Computations
    <3> QED
      BY <2>1, <3>2, <3>3
  <2>2. CASE x1.raises # "first" /\ (Len(one) >= MIN_INSIGHTS \/ x1.raises # "again")
    <3>1. PICK list : /\ outcome = Rules!Done(list) /\ list \in {one, two} /\ Len(list) >= Len(one)
      <4>1. outcome = Rules!Done(one) \/ outcome = Rules!Done(Rules!Better(one, two))
        BY <1>14, <1>15, <2>2 DEF Rules!insights, Rules!Retried
      <4>2. Len(one) \in Nat /\ Len(two) \in Nat
        BY <1>11
      <4> QED
        BY <4>1, <4>2 DEF Rules!Better
    <3>2. outcome.status = "done" /\ outcome.shown = list
      BY <3>1 DEF Rules!Done
    <3>3. Len(list) >= had
      BY <1>11, <1>13, <3>1
    <3> QED
      BY <1>11, <3>1, <3>2, <3>3
  <2>3. Len(one) \in Nat
    BY <1>11
  <2> QED
    BY <2>1, <2>2, <2>3, Computations
<1>17. Rules!Where(x1.first, {d \in Rules!Drafts : Rules!Supported(d)}) = B
  BY <1>1, <1>6, <1>7 DEF E, D
<1>18. \A i \in 1..Len(outcome.shown) : Rules!Supported(outcome.shown[i])
  BY <1>3, <1>16
<1> QED
  BY <1>13, <1>15, <1>16, <1>17, <1>18 DEF Rules!InsightsAreSupported

-----------------------------------------------------------------------------
(* The files of an export (ExportContent): x1 is the input.                  *)

\* Safe names, and the names used so far with the last number each was given.
SafeNames == {name \in Seq({"a", "b", "o"} \cup Nat) : Len(name) # 0}
IsUsed(u) == /\ u = [x \in DOMAIN u |-> u[x]] /\ IsFiniteSet(DOMAIN u)
             /\ DOMAIN u \subseteq SafeNames /\ \A x \in DOMAIN u : u[x] \in Nat

\* Numbers of some kind have a least one.
LEMMA HasLeast ==
  ASSUME NEW S \in SUBSET Nat, S # {}
  PROVE  \E x \in S : \A y \in S : x <= y
<1>1. IsWellFoundedOn(OpToRel(<, Nat), Nat)
  BY NatLessThanWellFounded
<1>2. PICK x \in S : \A y \in S : ~ (<<y, x>> \in OpToRel(<, Nat))
  BY <1>1, WFMin
<1>3. ASSUME NEW y \in S PROVE x <= y
  <2> SUFFICES ASSUME ~(x <= y) PROVE FALSE
    OBVIOUS
  <2>1. y < x /\ x \in Nat /\ y \in Nat
    OBVIOUS
  <2>2. <<y, x>> \in OpToRel(<, Nat)
    BY <2>1 DEF OpToRel
  <2> QED
    BY <1>2, <2>2
<1> QED
  BY <1>3

\* The numbered names of a name are names, one for each number.
LEMMA Numbered ==
  ASSUME NEW name \in SafeNames, NEW n \in Nat
  PROVE  /\ Content!Suffixed(name, n) \in SafeNames
         /\ Content!Suffixed(name, n)[Len(Content!Suffixed(name, n))] = n
<1>1. PICK T : T = {"a", "b", "o"} \cup Nat
  OBVIOUS
<1>2. name \in Seq(T) /\ Len(name) # 0 /\ Len(name) \in Nat
  BY <1>1 DEF SafeNames
<1>3. Content!Min({Len(name), Content!MAX_NAME - 1}) = 1
  <2>1. PICK l \in Nat : l = Len(name) /\ l # 0
    BY <1>2
  <2>2. PICK S : S = {l, 1}
    OBVIOUS
  <2>3. 1 \in S /\ \A y \in S : y \in Nat /\ 1 <= y
    BY <2>1, <2>2
  <2>4. \A x \in S : (\A y \in S : x <= y) => x = 1
    BY <2>3
  <2>5. Content!Min(S) = 1
    BY <2>3, <2>4, Zenon DEF Content!Min
  <2>6. {Len(name), Content!MAX_NAME - 1} = S
    BY <2>1, <2>2 DEF Content!MAX_NAME
  <2> QED
    BY <2>5, <2>6
<1>4. PICK s : s = SubSeq(name, 1, 1) /\ s \in Seq(T) /\ Len(s) \in Nat
  <2>1. \A i \in 1..1 : name[i] \in T
    BY <1>2
  <2>2. SubSeq(name, 1, 1) \in Seq(T)
    BY <2>1, SubSeqProperties
  <2>3. \A t \in Seq(T) : Len(t) \in Nat
    OBVIOUS
  <2> QED
    BY <2>2, <2>3
<1>5. Content!Suffixed(name, n) = Append(s, n)
  BY <1>3, <1>4 DEF Content!Suffixed
<1>6. n \in T
  BY <1>1
<1>7. Append(s, n) \in Seq(T) /\ Len(Append(s, n)) = Len(s) + 1 /\ Append(s, n)[Len(s) + 1] = n
  BY <1>4, <1>6
<1> QED
  BY <1>1, <1>4, <1>5, <1>7 DEF SafeNames

\* The name given was not used before.
LEMMA FreeIsNew ==
  ASSUME NEW u, IsUsed(u), NEW name \in SafeNames
  PROVE  /\ Content!Free(u, name) \in SafeNames \ DOMAIN u
         /\ Content!Free(u, name) # name => Content!Free(u, name)[Len(Content!Free(u, name))] \in Nat
<1>1. CASE name \notin DOMAIN u
  BY <1>1 DEF Content!Free
<1>2. CASE name \in DOMAIN u
  <2>1. PICK D : D = DOMAIN u /\ IsFiniteSet(D)
    BY DEF IsUsed
  <2>2. PICK b, c \in Nat : b = u[name] /\ c = Cardinality(D)
    <3>1. u[name] \in Nat
      BY <1>2 DEF IsUsed
    <3>2. Cardinality(D) \in Nat
      BY <2>1, FS_CardinalityType
    <3> QED
      BY <3>1, <3>2
  <2>3. PICK W : W = b + 1..b + c + 1
    OBVIOUS
  <2>4. W \subseteq Nat /\ IsFiniteSet(W) /\ Cardinality(W) = c + 1
    <3>1. PICK lo, hi \in Int : lo = b + 1 /\ hi = b + c + 1
      OBVIOUS
    <3>2. IsFiniteSet(lo..hi) /\ Cardinality(lo..hi) = IF lo > hi THEN 0 ELSE hi - lo + 1
      BY FS_Interval
    <3> QED
      <4>1. lo..hi = W /\ lo <= hi /\ hi - lo + 1 = c + 1
        BY <2>2, <2>3, <3>1
      <4>2. W \subseteq Nat
        BY <2>2, <2>3
      <4> QED
        BY <3>2, <4>1, <4>2
  <2> DEFINE New == {k \in W : Content!Suffixed(name, k) \notin D}
  <2>5. New # {}
    <3> SUFFICES ASSUME New = {} PROVE FALSE
      OBVIOUS
    <3>1. PICK f \in [W -> D] : f = [k \in W |-> Content!Suffixed(name, k)]
      OBVIOUS
    <3>2. Cardinality(D) < Cardinality(W) /\ IsFiniteSet(W) /\ IsFiniteSet(D)
      BY <2>1, <2>2, <2>4
    <3>3. PICK x, y \in W : x # y /\ f[x] = f[y]
      <4> HIDE DEF New
      <4> QED
        BY <3>2, FS_PigeonHole
    <3>4. \A k \in W : f[k][Len(f[k])] = k
      BY <2>4, <3>1, Numbered
    <3> QED
      BY <3>3, <3>4
  <2>6. PICK n \in New : \A k \in New : n <= k
    <3>1. New \in SUBSET Nat
      BY <2>4
    <3> HIDE DEF New
    <3> QED
      BY <2>5, <3>1, HasLeast
  <2>7. n \in W /\ Content!Suffixed(name, n) \notin D /\ \A j \in b + 1..n - 1 : Content!Suffixed(name, j) \in D
    <3>1. n \in W /\ Content!Suffixed(name, n) \notin D
      OBVIOUS
    <3>2. \A j \in b + 1..n - 1 : j \in W /\ ~(n <= j)
      BY <2>2, <2>3, <3>1
    <3> QED
      BY <2>6, <3>1, <3>2
  <2> HIDE DEF New
  <2> DEFINE P(k) == Content!Suffixed(name, k) \notin D /\ \A j \in b + 1..k - 1 : Content!Suffixed(name, j) \in D
  <2>8. PICK m : m = CHOOSE k \in W : P(k)
    OBVIOUS
  <2>9. m \in W /\ P(m)
    <3>1. n \in W /\ P(n)
      BY <2>7
    <3> HIDE DEF P
    <3> QED
      BY <2>8, <3>1, Zenon
  <2>10. Content!Free(u, name) = Content!Suffixed(name, m)
    <3>1. \A T : Content!Cardinality(T) = Cardinality(T)
      BY Zenon DEF Content!Cardinality, Cardinality
    <3>2. W = u[name] + 1..u[name] + Content!Cardinality(DOMAIN u) + 1
      BY <2>1, <2>2, <2>3, <3>1
    <3> QED
      BY <1>2, <2>1, <2>2, <2>8, <3>2, Zenon DEF Content!Free
  <2> QED
    BY <2>1, <2>4, <2>9, <2>10, Numbered
<1> QED
  BY <1>1, <1>2

\* What a function with one more value is.
LEMMA WithDomain ==
  ASSUME NEW f, NEW x, NEW v
  PROVE  DOMAIN Content!With(f, x, v) = DOMAIN f \cup {x}
  BY DEF Content!With

\* A number more leaves the names and their numbers what they are.
LEMMA WithNumber ==
  ASSUME NEW u, IsUsed(u), NEW name \in SafeNames, NEW n \in Nat
  PROVE  IsUsed(Content!With(u, name, n))
<1>1. PICK w : w = Content!With(u, name, n)
  OBVIOUS
<1>2. DOMAIN w = DOMAIN u \cup {name} /\ w = [y \in DOMAIN w |-> w[y]] /\ w[name] = n
  BY <1>1 DEF Content!With
<1>3. \A y \in DOMAIN u : y # name => w[y] = u[y]
  BY <1>1 DEF Content!With
<1>4. IsFiniteSet(DOMAIN w)
  <2>1. PICK D : D = DOMAIN u /\ IsFiniteSet(D)
    BY DEF IsUsed
  <2>2. IsFiniteSet(D \cup {name})
    BY <2>1, FS_AddElement
  <2> QED
    BY <1>2, <2>1, <2>2
<1>5. IsUsed(w)
  BY <1>2, <1>3, <1>4 DEF IsUsed
<1> QED
  BY <1>1, <1>5

\* A name taken is used, with the one it got.
LEMMA TakenIsUsed ==
  ASSUME NEW u, IsUsed(u), NEW name \in SafeNames
  PROVE  /\ IsUsed(Content!Taken(u, name))
         /\ DOMAIN Content!Taken(u, name) = DOMAIN u \cup {name, Content!Free(u, name)}
<1>1. PICK new : new = Content!Free(u, name) /\ new \in SafeNames /\ (new # name => new[Len(new)] \in Nat)
  BY FreeIsNew
<1>2. PICK last \in Nat : last = IF new = name THEN 1 ELSE new[Len(new)]
  BY <1>1
<1>3. Content!Taken(u, name) = Content!With(Content!With(u, new, 1), name, last)
  BY <1>1, <1>2 DEF Content!Taken
<1>4. PICK w : w = Content!With(u, new, 1) /\ IsUsed(w) /\ DOMAIN w = DOMAIN u \cup {new}
  <2>1. 1 \in Nat
    OBVIOUS
  <2> QED
    BY <1>1, <2>1, WithNumber, WithDomain
<1>5. IsUsed(Content!With(w, name, last)) /\ DOMAIN Content!With(w, name, last) = DOMAIN w \cup {name}
  BY <1>4, WithNumber, WithDomain
<1> QED
  BY <1>1, <1>3, <1>4, <1>5

\* Functions from some of S to V.
Maps(S, V) == UNION {[D -> V] : D \in SUBSET S}

\* What a function from some of S to V is.
LEMMA MapsAre ==
  ASSUME NEW S, NEW V, NEW f
  PROVE  f \in Maps(S, V) <=> (/\ f = [x \in DOMAIN f |-> f[x]] /\ DOMAIN f \subseteq S
                               /\ \A x \in DOMAIN f : f[x] \in V)
<1>1. ASSUME f \in Maps(S, V)
      PROVE  f = [x \in DOMAIN f |-> f[x]] /\ DOMAIN f \subseteq S /\ \A x \in DOMAIN f : f[x] \in V
  <2>1. PICK D \in SUBSET S : f \in [D -> V]
    BY <1>1 DEF Maps
  <2> QED
    BY <2>1
<1>2. ASSUME f = [x \in DOMAIN f |-> f[x]], DOMAIN f \subseteq S, \A x \in DOMAIN f : f[x] \in V
      PROVE  f \in Maps(S, V)
  <2>1. PICK D \in SUBSET S : D = DOMAIN f
    BY <1>2
  <2>2. f \in [D -> V]
    BY <1>2, <2>1
  <2> QED
    BY <2>2 DEF Maps
<1> QED
  BY <1>1, <1>2

\* With one more value it still is one.
LEMMA WithMap ==
  ASSUME NEW S, NEW V, NEW f \in Maps(S, V), NEW x \in S, NEW v \in V
  PROVE  Content!With(f, x, v) \in Maps(S, V)
<1>1. f = [y \in DOMAIN f |-> f[y]] /\ DOMAIN f \subseteq S /\ \A y \in DOMAIN f : f[y] \in V
  BY MapsAre
<1>2. PICK g : g = Content!With(f, x, v)
  OBVIOUS
<1>3. g = [y \in DOMAIN g |-> g[y]] /\ DOMAIN g = DOMAIN f \cup {x} /\ g[x] = v
      /\ \A y \in DOMAIN f : y # x => g[y] = f[y]
  BY <1>2 DEF Content!With
<1>4. DOMAIN g \subseteq S /\ \A y \in DOMAIN g : g[y] \in V
  BY <1>1, <1>3
<1>5. g \in Maps(S, V)
  BY <1>3, <1>4, MapsAre
<1> QED
  BY <1>2, <1>5

NumberMaps == Maps(SafeNames, Nat)
ZipFiles == [path : SafeNames \X SafeNames, rows : Seq(Nat)]

\* What the export has written: each folder and each name is one that is used, no folder
\* is that of two diagrams, and no path that of two files.
IsSound(files, folders, names, used) ==
  /\ IsUsed(used)
  /\ DOMAIN names = DOMAIN folders
  /\ \A d \in DOMAIN folders : folders[d] \in DOMAIN used /\ IsUsed(names[d])
  /\ \A d, e \in DOMAIN folders : folders[d] = folders[e] => d = e
  /\ \A i \in 1..Len(files) : \E d \in DOMAIN folders :
       files[i].path[1] = folders[d] /\ files[i].path[2] \in DOMAIN names[d]
  /\ \A i, j \in 1..Len(files) : i # j => files[i].path # files[j].path
Written(N) ==
  {s \in [files : Seq(ZipFiles), group : Seq(1..N), folders : Maps({1, 2}, SafeNames),
          names : Maps({1, 2}, NumberMaps), used : NumberMaps] :
     IsSound(s.files, s.folders, s.names, s.used)}

\* The names used so far are such a function.
LEMMA UsedIsMap ==
  ASSUME NEW u, IsUsed(u)
  PROVE  u \in NumberMaps
  BY MapsAre DEF IsUsed, NumberMaps

\* No name is used at first.
LEMMA NothingIsUsed ==
  /\ IsUsed(Content!Nothing) /\ DOMAIN Content!Nothing = {}
  /\ \A S, V : Content!Nothing \in Maps(S, V)
<1>1. PICK u : u = Content!Nothing
  OBVIOUS
<1>2. DOMAIN u = {} /\ u = [x \in DOMAIN u |-> u[x]]
  BY <1>1 DEF Content!Nothing
<1>3. IsUsed(u)
  BY <1>2, FS_EmptySet DEF IsUsed
<1>4. ASSUME NEW S, NEW V PROVE u \in Maps(S, V)
  BY <1>2, MapsAre
<1> QED
  BY <1>1, <1>2, <1>3, <1>4

\* The folder of a diagram is there, and nothing else has changed.
LEMMA FolderIsThere ==
  ASSUME NEW N, NEW in, NEW s \in Written(N), NEW d \in {1, 2}, in.folder[d] \in SafeNames
  PROVE  LET t == Content!Folder(in, s, d)
         IN  t \in Written(N) /\ d \in DOMAIN t.folders /\ t.files = s.files /\ t.group = s.group
<1>1. CASE d \in DOMAIN s.folders
  BY <1>1 DEF Content!Folder
<1>2. CASE d \notin DOMAIN s.folders
  <2>1. PICK files, group, folders, names, used :
          /\ files = s.files /\ group = s.group /\ folders = s.folders /\ names = s.names /\ used = s.used
          /\ s = [files |-> files, group |-> group, folders |-> folders, names |-> names, used |-> used]
    BY DEF Written
  <2>2. /\ files \in Seq(ZipFiles) /\ group \in Seq(1..N) /\ folders \in Maps({1, 2}, SafeNames)
        /\ names \in Maps({1, 2}, NumberMaps) /\ IsSound(files, folders, names, used)
    BY <2>1 DEF Written
  <2>3. PICK name \in SafeNames : name = in.folder[d]
    OBVIOUS
  <2>4. IsUsed(used)
    BY <2>2 DEF IsSound
  <2>5. PICK new \in SafeNames : new = Content!Free(used, name) /\ new \notin DOMAIN used
    BY <2>4, FreeIsNew
  <2>6. PICK U : U = Content!Taken(used, name) /\ IsUsed(U) /\ DOMAIN U = DOMAIN used \cup {name, new}
    BY <2>4, <2>5, TakenIsUsed
  <2>7. PICK F, M : F = Content!With(folders, d, new) /\ M = Content!With(names, d, Content!Nothing)
    OBVIOUS
  <2>8. F \in Maps({1, 2}, SafeNames) /\ M \in Maps({1, 2}, NumberMaps) /\ U \in NumberMaps
    <3>1. Content!Nothing \in NumberMaps
      BY NothingIsUsed, UsedIsMap
    <3>2. F \in Maps({1, 2}, SafeNames)
      BY <2>2, <2>7, WithMap
    <3>3. M \in Maps({1, 2}, NumberMaps)
      BY <2>2, <2>7, <3>1, WithMap
    <3> QED
      BY <2>6, <3>2, <3>3, UsedIsMap
  <2>9. /\ DOMAIN F = DOMAIN folders \cup {d} /\ F[d] = new /\ \A e \in DOMAIN folders : e # d => F[e] = folders[e]
        /\ DOMAIN M = DOMAIN names \cup {d} /\ M[d] = Content!Nothing
        /\ \A e \in DOMAIN names : e # d => M[e] = names[e]
    BY <2>7 DEF Content!With
  <2>10. /\ DOMAIN names = DOMAIN folders /\ d \notin DOMAIN folders
         /\ \A e \in DOMAIN folders : folders[e] \in DOMAIN used /\ IsUsed(names[e])
         /\ \A e, g \in DOMAIN folders : folders[e] = folders[g] => e = g
         /\ \A i \in 1..Len(files) : \E e \in DOMAIN folders :
              files[i].path[1] = folders[e] /\ files[i].path[2] \in DOMAIN names[e]
         /\ \A i, j \in 1..Len(files) : i # j => files[i].path # files[j].path
    BY <1>2, <2>1, <2>2 DEF IsSound
  <2>11. \A e \in DOMAIN F : F[e] \in DOMAIN U /\ IsUsed(M[e])
    BY <2>6, <2>9, <2>10, NothingIsUsed
  <2>12. \A e, g \in DOMAIN F : F[e] = F[g] => e = g
    BY <2>5, <2>9, <2>10
  <2>13. \A i \in 1..Len(files) : \E e \in DOMAIN F :
           files[i].path[1] = F[e] /\ files[i].path[2] \in DOMAIN M[e]
    BY <2>9, <2>10
  <2>14. IsSound(files, F, M, U)
    BY <2>6, <2>9, <2>10, <2>11, <2>12, <2>13 DEF IsSound
  <2>15. PICK t : t = [files |-> files, group |-> group, folders |-> F, names |-> M, used |-> U]
    OBVIOUS
  <2>16. Content!Folder(in, s, d) = t
    <3>1. Content!Folder(in, s, d) =
            [s EXCEPT !.folders = Content!With(s.folders, d, Content!Free(s.used, in.folder[d])),
                      !.names = Content!With(s.names, d, Content!Nothing),
                      !.used = Content!Taken(s.used, in.folder[d])]
      BY <1>2, Zenon DEF Content!Folder
    <3>2. /\ Content!With(s.folders, d, Content!Free(s.used, in.folder[d])) = F
          /\ Content!With(s.names, d, Content!Nothing) = M
          /\ Content!Taken(s.used, in.folder[d]) = U
      BY <2>1, <2>3, <2>5, <2>6, <2>7
    <3>3. Content!Folder(in, s, d) = [s EXCEPT !.folders = F, !.names = M, !.used = U]
      BY <3>1, <3>2
    <3> QED
      BY <2>1, <2>15, <3>3
  <2>17. t \in Written(N)
    BY <2>2, <2>8, <2>14, <2>15 DEF Written
  <2> QED
    BY <2>1, <2>9, <2>15, <2>16, <2>17
<1> QED
  BY <1>1, <1>2

\* The names of an input are safe.
LEMMA NamesAreSafe ==
  ASSUME NEW in \in Content!Inputs
  PROVE  /\ \A d \in {1, 2} : in.folder[d] \in SafeNames
         /\ \A a \in 1..4 : Content!Label(in, a) \in SafeNames /\ Content!DiagramOf(a) \in {1, 2}
<1>1. Content!Short \subseteq SafeNames
  <2>1. PICK T : T = {"a", "b", "o"} \cup Nat
    OBVIOUS
  <2>2. \A w \in {"a", "b"} : w \in T /\ 2 \in T
    BY <2>1
  <2>3. \A w \in T : 2 \in T => <<w>> \in Seq(T) /\ <<w, 2>> \in Seq(T) /\ Len(<<w>>) # 0 /\ Len(<<w, 2>>) # 0
    OBVIOUS
  <2>4. \A name \in Content!Short : \E w \in {"a", "b"} : name = <<w>> \/ name = <<w, 2>>
    BY DEF Content!Short
  <2> QED
    BY <2>1, <2>2, <2>3, <2>4 DEF SafeNames
<1>2. <<"o">> \in SafeNames
  BY DEF SafeNames
<1>3. \A d \in {1, 2} : in.folder[d] \in Content!Short
  BY DEF Content!Inputs, Content!Diagrams
<1>4. \A a \in 1..4 : in.label[a] \in Content!Short \cup {Content!NoLabel}
  BY DEF Content!Inputs, Content!Activities
<1>5. \A a \in 1..4 : Content!Label(in, a) \in SafeNames
  BY <1>1, <1>2, <1>4 DEF Content!Label
<1>6. \A a \in 1..4 : Content!DiagramOf(a) \in {1, 2}
  BY DEF Content!DiagramOf
<1> QED
  BY <1>1, <1>3, <1>5, <1>6

\* The rows of an input are of activities, in their order.
LEMMA RowsInOrder ==
  ASSUME NEW in \in Content!Inputs
  PROVE  in.rows \in Seq(1..4) /\ \A i \in 1..Len(in.rows) - 1 : in.rows[i] <= in.rows[i + 1]
<1>1. in.rows \in UNION {[1..n -> 1..4] : n \in 0..4} /\ \A i \in 1..Len(in.rows) - 1 : in.rows[i] <= in.rows[i + 1]
  BY DEF Content!Inputs, Content!Rows, Content!Activities
<1>2. PICK m \in 0..4 : in.rows \in [1..m -> 1..4]
  BY <1>1
<1>3. \A n \in Nat : \A f \in [1..n -> 1..4] : f \in Seq(1..4)
  OBVIOUS
<1>4. in.rows \in Seq(1..4)
  BY <1>2, <1>3
<1> QED
  BY <1>1, <1>4

\* A file more: that of the rows of the activity, at a path of its own.
LEMMA FlushAdds ==
  ASSUME NEW in \in Content!Inputs, NEW N, N = Len(in.rows), NEW s \in Written(N), s.group # <<>>
  PROVE  LET t == Content!Flushed(in, s)
         IN  /\ t \in Written(N) /\ t.group = <<>>
             /\ \E p : t.files = Append(s.files, [path |-> p, rows |-> s.group])
<1>1. s.group \in Seq(1..N) /\ N \in Nat /\ in.rows \in Seq(1..4)
  BY RowsInOrder DEF Written
<1>2. PICK a \in 1..4 : a = in.rows[s.group[1]]
  <2>1. s.group[1] \in 1..N
    BY <1>1
  <2> QED
    BY <1>1, <2>1
<1>3. PICK d \in {1, 2} : d = Content!DiagramOf(a)
  BY NamesAreSafe
<1>4. PICK name \in SafeNames : name = Content!Label(in, a)
  BY NamesAreSafe
<1>5. PICK r \in Written(N) : /\ r = Content!Folder(in, s, d) /\ d \in DOMAIN r.folders
                              /\ r.files = s.files /\ r.group = s.group
  <2>1. in.folder[d] \in SafeNames
    BY NamesAreSafe
  <2> QED
    BY <2>1, FolderIsThere
<1>6. PICK files, group, folders, names, used :
        /\ files = r.files /\ group = r.group /\ folders = r.folders /\ names = r.names /\ used = r.used
        /\ r = [files |-> files, group |-> group, folders |-> folders, names |-> names, used |-> used]
  BY DEF Written
<1>7. /\ files \in Seq(ZipFiles) /\ group \in Seq(1..N) /\ folders \in Maps({1, 2}, SafeNames)
      /\ names \in Maps({1, 2}, NumberMaps) /\ IsSound(files, folders, names, used)
  BY <1>6 DEF Written
<1>8. /\ IsUsed(used) /\ DOMAIN names = DOMAIN folders /\ d \in DOMAIN folders
      /\ \A e \in DOMAIN folders : folders[e] \in DOMAIN used /\ IsUsed(names[e])
      /\ \A e, g \in DOMAIN folders : folders[e] = folders[g] => e = g
      /\ \A i \in 1..Len(files) : \E e \in DOMAIN folders :
           files[i].path[1] = folders[e] /\ files[i].path[2] \in DOMAIN names[e]
      /\ \A i, j \in 1..Len(files) : i # j => files[i].path # files[j].path
  BY <1>5, <1>6, <1>7 DEF IsSound
<1>9. PICK u : u = names[d] /\ IsUsed(u)
  BY <1>8
<1>10. PICK new \in SafeNames : new = Content!Free(u, name) /\ new \notin DOMAIN u
  BY <1>9, FreeIsNew
<1>11. PICK U : U = Content!Taken(u, name) /\ IsUsed(U) /\ DOMAIN U = DOMAIN u \cup {name, new}
  BY <1>9, <1>10, TakenIsUsed
<1>12. PICK M : M = Content!With(names, d, U)
  OBVIOUS
<1>13. M \in Maps({1, 2}, NumberMaps)
  <2>1. U \in NumberMaps
    BY <1>11, UsedIsMap
  <2> QED
    BY <1>7, <1>12, <2>1, WithMap
<1>14. DOMAIN M = DOMAIN names /\ M[d] = U /\ \A e \in DOMAIN names : e # d => M[e] = names[e]
  BY <1>8, <1>12 DEF Content!With
<1>15. PICK p \in SafeNames \X SafeNames : p = <<folders[d], new>>
  <2>1. folders[d] \in SafeNames
    BY <1>8 DEF IsUsed
  <2> QED
    BY <2>1
<1>16. PICK f \in ZipFiles : f = [path |-> p, rows |-> group]
  <2>1. group \in Seq(Nat)
    BY <1>1, <1>7
  <2> QED
    BY <2>1 DEF ZipFiles
<1>17. PICK F \in Seq(ZipFiles) : F = Append(files, f)
  <2>1. files \in Seq(ZipFiles)
    BY <1>7
  <2>2. \A Z : \A z \in Seq(Z) : \A x \in Z : Append(z, x) \in Seq(Z)
    OBVIOUS
  <2> QED
    BY <2>1, <2>2
<1>18. PICK n \in Nat : n = Len(files)
  BY <1>7
<1>19. Len(F) = n + 1 /\ F[n + 1] = f /\ \A i \in 1..n : F[i] = files[i]
  BY <1>7, <1>17, <1>18
<1>20. f.path[1] = folders[d] /\ f.path[2] = new
  BY <1>15, <1>16
<1>21. \A i \in 1..n + 1 : i = n + 1 \/ i \in 1..n
  OBVIOUS
<1>22. \A i \in 1..n + 1 : \E e \in DOMAIN folders : F[i].path[1] = folders[e] /\ F[i].path[2] \in DOMAIN M[e]
  <2>1. ASSUME NEW i \in 1..n
        PROVE  \E e \in DOMAIN folders : F[i].path[1] = folders[e] /\ F[i].path[2] \in DOMAIN M[e]
    <3>1. PICK e \in DOMAIN folders : files[i].path[1] = folders[e] /\ files[i].path[2] \in DOMAIN names[e]
      BY <1>8, <1>18
    <3>2. DOMAIN names[e] \subseteq DOMAIN M[e]
      BY <1>8, <1>9, <1>11, <1>14
    <3> QED
      BY <1>19, <3>1, <3>2
  <2>2. F[n + 1].path[1] = folders[d] /\ F[n + 1].path[2] \in DOMAIN M[d]
    BY <1>11, <1>14, <1>19, <1>20
  <2> QED
    BY <1>8, <1>21, <2>1, <2>2
<1>23. \A i \in 1..n : F[i].path # f.path
  <2> SUFFICES ASSUME NEW i \in 1..n, files[i].path = f.path PROVE FALSE
    BY <1>19
  <2>1. PICK e \in DOMAIN folders : files[i].path[1] = folders[e] /\ files[i].path[2] \in DOMAIN names[e]
    BY <1>8, <1>18
  <2>2. e = d
    BY <1>8, <1>20, <2>1
  <2> QED
    BY <1>9, <1>10, <1>20, <2>1, <2>2
<1>24. \A i, j \in 1..n + 1 : i # j => F[i].path # F[j].path
  <2>1. \A i, j \in 1..n : i # j => F[i].path # F[j].path
    BY <1>8, <1>18, <1>19
  <2> QED
    BY <1>19, <1>21, <1>23, <2>1
<1>25. IsSound(F, folders, M, used)
  <2>1. \A e \in DOMAIN folders : folders[e] \in DOMAIN used /\ IsUsed(M[e])
    BY <1>8, <1>11, <1>14
  <2> QED
    BY <1>8, <1>14, <1>19, <1>22, <1>24, <2>1 DEF IsSound
<1>26. PICK t : t = [files |-> F, group |-> <<>>, folders |-> folders, names |-> M, used |-> used]
  OBVIOUS
<1>27. used \in NumberMaps /\ <<>> \in Seq(1..N)
  BY <1>8, UsedIsMap
<1>28. t \in Written(N)
  BY <1>7, <1>13, <1>25, <1>26, <1>27 DEF Written
<1>29. Content!Flushed(in, s) = t
  <2>1. Content!Flushed(in, s) =
          [r EXCEPT !.files = Append(r.files, [path |-> <<r.folders[d], Content!Free(r.names[d], name)>>,
                                               rows |-> s.group]),
                    !.names = Content!With(r.names, d, Content!Taken(r.names[d], name)),
                    !.group = <<>>]
    BY <1>2, <1>3, <1>4, <1>5, Zenon DEF Content!Flushed, Content!Filed
  <2>2. /\ Append(r.files, [path |-> <<r.folders[d], Content!Free(r.names[d], name)>>, rows |-> s.group]) = F
        /\ Content!With(r.names, d, Content!Taken(r.names[d], name)) = M
    BY <1>5, <1>6, <1>9, <1>10, <1>11, <1>12, <1>15, <1>16, <1>17
  <2>3. Content!Flushed(in, s) = [r EXCEPT !.files = F, !.names = M, !.group = <<>>]
    BY <2>1, <2>2
  <2> QED
    BY <1>6, <1>26, <2>3
<1>30. t.files = Append(s.files, [path |-> p, rows |-> s.group]) /\ t.group = <<>>
  BY <1>5, <1>6, <1>16, <1>17, <1>26
<1> QED
  BY <1>28, <1>29, <1>30

\* The rows of an activity among the first n; the files of those below c, each once.
At(rows, b, n) == {j \in 1..n : rows[j] = b}
RowsOf(file) == Content!Range(file.rows)
IsGrouped(files, rows, c, n) ==
  /\ \A i \in 1..Len(files) : \E b \in 1..4 : b < c /\ At(rows, b, n) # {} /\ RowsOf(files[i]) = At(rows, b, n)
  /\ \A b \in 1..4 : b < c /\ At(rows, b, n) # {} => \E i \in 1..Len(files) : RowsOf(files[i]) = At(rows, b, n)
  /\ \A i, j \in 1..Len(files) : i # j => RowsOf(files[i]) # RowsOf(files[j])

\* The file of the activity of the last row is that of one activity more.
LEMMA GroupedMore ==
  ASSUME NEW rows \in Seq(1..4), NEW n \in 1..Len(rows), NEW files \in Seq(ZipFiles), NEW file \in ZipFiles,
         IsGrouped(files, rows, rows[n], n), RowsOf(file) = At(rows, rows[n], n)
  PROVE  IsGrouped(Append(files, file), rows, rows[n] + 1, n)
<1>1. PICK c \in 1..4 : c = rows[n]
  OBVIOUS
<1>2. PICK F, m : F = Append(files, file) /\ m \in Nat /\ m = Len(files) /\ Len(F) = m + 1
                  /\ F[m + 1] = file /\ \A i \in 1..m : F[i] = files[i]
  <2>1. PICK m \in Nat : m = Len(files)
    OBVIOUS
  <2>2. PICK F : F = Append(files, file)
    OBVIOUS
  <2>3. Len(F) = m + 1 /\ F[m + 1] = file /\ \A i \in 1..m : F[i] = files[i]
    BY <2>1, <2>2
  <2> QED
    BY <2>1, <2>2, <2>3
<1>3. \A i \in 1..m + 1 : i = m + 1 \/ i \in 1..m
  BY <1>2
<1>4. At(rows, c, n) # {} /\ RowsOf(file) = At(rows, c, n)
  <2>1. n \in At(rows, c, n)
    BY <1>1 DEF At
  <2> QED
    BY <1>1, <2>1
<1>5. /\ \A i \in 1..m : \E b \in 1..4 : b < c /\ At(rows, b, n) # {} /\ RowsOf(files[i]) = At(rows, b, n)
      /\ \A b \in 1..4 : b < c /\ At(rows, b, n) # {} => \E i \in 1..m : RowsOf(files[i]) = At(rows, b, n)
      /\ \A i, j \in 1..m : i # j => RowsOf(files[i]) # RowsOf(files[j])
  BY <1>1, <1>2 DEF IsGrouped
<1>6. \A b \in 1..4 : b < c + 1 <=> b < c \/ b = c
  OBVIOUS
<1>7. \A i \in 1..m + 1 : \E b \in 1..4 : b < c + 1 /\ At(rows, b, n) # {} /\ RowsOf(F[i]) = At(rows, b, n)
  BY <1>2, <1>3, <1>4, <1>5, <1>6
<1>8. \A b \in 1..4 : b < c + 1 /\ At(rows, b, n) # {} => \E i \in 1..m + 1 : RowsOf(F[i]) = At(rows, b, n)
  <2>1. m + 1 \in 1..m + 1 /\ \A i \in 1..m : i \in 1..m + 1
    BY <1>2
  <2> QED
    BY <1>2, <1>4, <1>5, <1>6, <2>1
<1>9. \A i \in 1..m : RowsOf(F[i]) # RowsOf(file)
  <2> SUFFICES ASSUME NEW i \in 1..m, RowsOf(files[i]) = RowsOf(file) PROVE FALSE
    BY <1>2
  <2>1. PICK b \in 1..4 : b < c /\ At(rows, b, n) # {} /\ RowsOf(files[i]) = At(rows, b, n)
    BY <1>5
  <2>2. At(rows, b, n) = At(rows, c, n)
    BY <1>4, <2>1
  <2>3. PICK j : j \in At(rows, b, n) /\ j \in At(rows, c, n)
    BY <2>1, <2>2
  <2>4. rows[j] = b /\ rows[j] = c
    BY <2>3 DEF At
  <2> QED
    BY <2>1, <2>4
<1>10. \A i, j \in 1..m + 1 : i # j => RowsOf(F[i]) # RowsOf(F[j])
  BY <1>2, <1>3, <1>5, <1>9
<1> QED
  BY <1>1, <1>2, <1>7, <1>8, <1>10 DEF IsGrouped

\* A row of a later activity does not change the files of those before.
LEMMA GroupedOn ==
  ASSUME NEW rows \in Seq(1..4), NEW n \in Nat, n + 1 \in 1..Len(rows), NEW files, NEW c \in Int,
         IsGrouped(files, rows, c, n), c <= rows[n + 1],
         \A j \in 1..n : rows[j] < rows[n + 1] => rows[j] < c
  PROVE  IsGrouped(files, rows, rows[n + 1], n + 1)
<1>1. PICK e \in 1..4 : e = rows[n + 1] /\ c <= e
  OBVIOUS
<1>2. \A b \in 1..4 : b < e => At(rows, b, n + 1) = At(rows, b, n)
  BY <1>1 DEF At
<1>3. \A b \in 1..4 : b < e /\ At(rows, b, n) # {} => b < c
  BY <1>1 DEF At
<1>4. \A b \in 1..4 : b < c => b < e
  BY <1>1
<1>5. /\ \A i \in 1..Len(files) : \E b \in 1..4 : b < c /\ At(rows, b, n) # {} /\ RowsOf(files[i]) = At(rows, b, n)
      /\ \A b \in 1..4 : b < c /\ At(rows, b, n) # {} => \E i \in 1..Len(files) : RowsOf(files[i]) = At(rows, b, n)
      /\ \A i, j \in 1..Len(files) : i # j => RowsOf(files[i]) # RowsOf(files[j])
  BY DEF IsGrouped
<1>6. /\ \A i \in 1..Len(files) : \E b \in 1..4 :
           b < e /\ At(rows, b, n + 1) # {} /\ RowsOf(files[i]) = At(rows, b, n + 1)
      /\ \A b \in 1..4 : b < e /\ At(rows, b, n + 1) # {} =>
           \E i \in 1..Len(files) : RowsOf(files[i]) = At(rows, b, n + 1)
  BY <1>2, <1>3, <1>4, <1>5
<1> QED
  BY <1>1, <1>5, <1>6 DEF IsGrouped

\* Then the files are those of the activities there are, one for each.
LEMMA GroupsAreAll ==
  ASSUME NEW rows \in Seq(1..4), NEW N, N = Len(rows), NEW files \in Seq(ZipFiles), NEW c \in Int,
         IsGrouped(files, rows, c, N), \A j \in 1..N : rows[j] < c
  PROVE  \E G : /\ \A i \in 1..Len(files) : RowsOf(files[i]) \in G
                /\ \A g \in G : \E i \in 1..Len(files) : g = RowsOf(files[i])
                /\ \A j \in 1..N : At(rows, rows[j], N) \in G
                /\ \A g \in G : \E j \in 1..N : g = At(rows, rows[j], N)
                /\ Len(files) = Cardinality(G)
<1>1. PICK L, k \in Nat : L = Len(files) /\ k = N
  OBVIOUS
<1>2. PICK W : W = 1..L
  OBVIOUS
<1> DEFINE groups == {RowsOf(files[i]) : i \in W}
<1>3. /\ \A i \in W : \E b \in 1..4 : b < c /\ At(rows, b, N) # {} /\ RowsOf(files[i]) = At(rows, b, N)
      /\ \A b \in 1..4 : b < c /\ At(rows, b, N) # {} => \E i \in W : RowsOf(files[i]) = At(rows, b, N)
      /\ \A i, j \in W : i # j => RowsOf(files[i]) # RowsOf(files[j])
  BY <1>1, <1>2 DEF IsGrouped
<1>4. \A b \in 1..4 : At(rows, b, N) # {} <=> \E j \in 1..N : rows[j] = b
  BY DEF At
<1>5. \A j \in 1..N : rows[j] \in 1..4 /\ rows[j] < c
  OBVIOUS
<1>6. /\ \A j \in 1..N : At(rows, rows[j], N) \in groups
      /\ \A g \in groups : \E j \in 1..N : g = At(rows, rows[j], N)
  <2>1. ASSUME NEW g \in groups PROVE \E j \in 1..N : g = At(rows, rows[j], N)
    <3>1. PICK i \in W : g = RowsOf(files[i])
      OBVIOUS
    <3>2. PICK b \in 1..4 : At(rows, b, N) # {} /\ g = At(rows, b, N)
      BY <1>3, <3>1
    <3> QED
      BY <1>4, <3>2
  <2>2. ASSUME NEW j \in 1..N PROVE At(rows, rows[j], N) \in groups
    <3>1. PICK b \in 1..4 : b = rows[j] /\ b < c
      BY <1>5
    <3>2. At(rows, b, N) # {}
      BY <1>4, <3>1
    <3> QED
      BY <1>3, <3>1, <3>2
  <2> QED
    BY <2>1, <2>2
<1>7. L = Cardinality(groups)
  <2>1. PICK g : g = [i \in W |-> RowsOf(files[i])]
    OBVIOUS
  <2>2. PICK G : G = groups
    OBVIOUS
  <2>3. g \in [W -> G] /\ \A i, j \in W : g[i] = g[j] => i = j
    BY <1>3, <2>1, <2>2
  <2>4. \A t \in G : \E i \in W : g[i] = t
    BY <2>1, <2>2
  <2>5. g \in Bijection(W, G)
    BY <2>3, <2>4 DEF Bijection, Injection, IsInjective, Surjection
  <2>6. IsFiniteSet(W) /\ Cardinality(W) = L
    <3>1. PICK lo, hi \in Int : lo = 1 /\ hi = L
      OBVIOUS
    <3>2. IsFiniteSet(lo..hi) /\ Cardinality(lo..hi) = IF lo > hi THEN 0 ELSE hi - lo + 1
      BY FS_Interval
    <3>3. lo..hi = W /\ (IF lo > hi THEN 0 ELSE hi - lo + 1) = L
      BY <1>2, <3>1
    <3> QED
      BY <3>2, <3>3
  <2>7. ExistsBijection(W, G)
    BY <2>5 DEF ExistsBijection
  <2>8. Cardinality(G) = Cardinality(W)
    BY <2>6, <2>7, FS_Bijection
  <2> QED
    BY <2>2, <2>6, <2>8
<1>8. /\ \A i \in W : RowsOf(files[i]) \in groups
      /\ \A g \in groups : \E i \in W : g = RowsOf(files[i])
  OBVIOUS
<1> HIDE DEF groups
<1> QED
  BY <1>1, <1>2, <1>6, <1>7, <1>8

\* What the export has done with each row.
IsReading(f, in) ==
  f = [n \in 0..Len(in.rows) |-> IF n = 0 THEN Content!Start ELSE Content!Row(in, f[n - 1], n)]

\* The export begins with no file, no folder and no name.
LEMMA StartIsSound ==
  ASSUME NEW N
  PROVE  /\ Content!Start \in Written(N) /\ Content!Start.files = <<>> /\ Content!Start.group = <<>>
<1>1. PICK u : u = Content!Nothing
  OBVIOUS
<1>2. IsUsed(u) /\ DOMAIN u = {} /\ \A S, V : u \in Maps(S, V)
  BY <1>1, NothingIsUsed
<1>3. PICK files : files = <<>> /\ files \in Seq(ZipFiles) /\ files \in Seq(1..N) /\ Len(files) = 0
  <2>1. \A Z : <<>> \in Seq(Z)
    OBVIOUS
  <2>2. Len(<<>>) = 0
    OBVIOUS
  <2> QED
    BY <2>1, <2>2
<1>4. IsSound(files, u, u, u)
  BY <1>2, <1>3 DEF IsSound
<1>5. PICK s : s = [files |-> files, group |-> files, folders |-> u, names |-> u, used |-> u]
  OBVIOUS
<1>6. u \in Maps({1, 2}, SafeNames) /\ u \in Maps({1, 2}, NumberMaps) /\ u \in NumberMaps
  BY <1>2 DEF NumberMaps
<1>7. s \in Written(N)
  BY <1>3, <1>4, <1>5, <1>6 DEF Written
<1>8. s = Content!Start
  BY <1>1, <1>3, <1>5 DEF Content!Start
<1> QED
  BY <1>3, <1>5, <1>7, <1>8

\* A row joins the group of those of its activity, or begins one when they have their file.
LEMMA RowAdds ==
  ASSUME NEW in \in Content!Inputs, NEW N, N = Len(in.rows), NEW s \in Written(N), NEW i \in 1..N
  PROVE  /\ Content!Row(in, s, i) \in Written(N)
         /\ s.group = <<>> \/ in.rows[s.group[1]] = in.rows[i] =>
              Content!Row(in, s, i).files = s.files /\ Content!Row(in, s, i).group = Append(s.group, i)
         /\ ~(s.group = <<>> \/ in.rows[s.group[1]] = in.rows[i]) =>
              /\ Content!Row(in, s, i).group = <<i>>
              /\ \E p : Content!Row(in, s, i).files = Append(s.files, [path |-> p, rows |-> s.group])
<1>1. PICK t : t = IF s.group # <<>> /\ ~Content!SameGroup(in, s.group[1], i) THEN Content!Flushed(in, s) ELSE s
  OBVIOUS
<1>2. t \in Written(N)
  BY <1>1, FlushAdds
<1>3. Content!Row(in, s, i) = [t EXCEPT !.group = Append(t.group, i)]
  BY <1>1, Zenon DEF Content!Row
<1>4. t.group \in Seq(1..N)
  BY <1>2 DEF Written
<1>5. PICK g \in Seq(1..N) : g = Append(t.group, i)
  <2>1. \A Z : \A z \in Seq(Z) : \A x \in Z : Append(z, x) \in Seq(Z)
    OBVIOUS
  <2> QED
    BY <1>4, <2>1
<1>6. PICK r : /\ r = [t EXCEPT !.group = g] /\ r \in Written(N)
               /\ r.files = t.files /\ r.group = g
  <2>1. [t EXCEPT !.group = g] \in Written(N)
    BY <1>2 DEF Written
  <2>2. [t EXCEPT !.group = g].files = t.files /\ [t EXCEPT !.group = g].group = g
    BY <1>2 DEF Written
  <2> QED
    BY <2>1, <2>2
<1>7. Content!Row(in, s, i) = r
  BY <1>3, <1>5, <1>6
<1>8. CASE s.group = <<>> \/ in.rows[s.group[1]] = in.rows[i]
  <2>1. t = s
    BY <1>1, <1>8 DEF Content!SameGroup
  <2> QED
    BY <1>5, <1>6, <1>7, <1>8, <2>1
<1>9. CASE ~(s.group = <<>> \/ in.rows[s.group[1]] = in.rows[i])
  <2>1. t = Content!Flushed(in, s)
    BY <1>1, <1>9 DEF Content!SameGroup
  <2>2. s.group # <<>>
    BY <1>9
  <2>3. t.group = <<>> /\ \E p : t.files = Append(s.files, [path |-> p, rows |-> s.group])
    BY <2>1, <2>2, FlushAdds
  <2>4. g = <<i>>
    BY <1>5, <2>3
  <2> QED
    BY <1>6, <1>7, <1>9, <2>3, <2>4
<1> QED
  BY <1>8, <1>9

\* The rows can be read one after the other.
LEMMA ReadingExists ==
  ASSUME NEW in \in Content!Inputs
  PROVE  \E f : IsReading(f, in)
<1>1. PICK N \in Nat : N = Len(in.rows)
  BY RowsInOrder
<1>2. PICK V : V = Written(N)
  OBVIOUS
<1>3. PICK g : g = [p \in (1..N) \X V |-> Content!Row(in, p[2], p[1])]
  OBVIOUS
<1>4. IsRound(g, N, V)
  <2>1. ASSUME NEW i \in 1..N, NEW s \in V PROVE Content!Row(in, s, i) \in V
    BY <1>1, <1>2, RowAdds
  <2>2. \A p \in (1..N) \X V : Content!Row(in, p[2], p[1]) \in V
    BY <2>1
  <2> QED
    BY <1>3, <2>2 DEF IsRound
<1>5. PICK b \in V : b = Content!Start
  BY <1>2, StartIsSound
<1>6. PICK f : IsLoop(f, N, V, b, g)
  BY <1>4, Loop
<1>7. f \in [0..N -> V] /\ f[0] = b
  BY <1>6 DEF IsLoop
<1>8. ASSUME NEW n \in 1..N PROVE f[n] = Content!Row(in, f[n - 1], n)
  <2>1. f[n] = g[<<n, f[n - 1]>>]
    BY <1>6 DEF IsLoop
  <2>2. f[n - 1] \in V
    BY <1>7
  <2> QED
    BY <1>3, <2>1, <2>2
<1>9. \A n \in 0..N : n = 0 \/ n \in 1..N
  OBVIOUS
<1>10. \A n \in 0..N : f[n] = IF n = 0 THEN Content!Start ELSE Content!Row(in, f[n - 1], n)
  BY <1>5, <1>7, <1>8, <1>9, Zenon
<1>11. f = [n \in 0..N |-> IF n = 0 THEN Content!Start ELSE Content!Row(in, f[n - 1], n)]
  BY <1>7, <1>10
<1> QED
  BY <1>1, <1>11 DEF IsReading

\* What is read is sound after each row.
LEMMA ReadingSteps ==
  ASSUME NEW in \in Content!Inputs, NEW f, IsReading(f, in), NEW N, N = Len(in.rows)
  PROVE  /\ f[0] = Content!Start
         /\ \A n \in 1..N : f[n] = Content!Row(in, f[n - 1], n)
         /\ \A n \in 0..N : f[n] \in Written(N)
<1>1. N \in Nat
  BY RowsInOrder
<1>2. \A n \in 0..N : f[n] = IF n = 0 THEN Content!Start ELSE Content!Row(in, f[n - 1], n)
  BY Zenon DEF IsReading
<1>3. 0 \in 0..N /\ \A n \in 1..N : n # 0 /\ n \in 0..N
  BY <1>1
<1>4. f[0] = Content!Start /\ \A n \in 1..N : f[n] = Content!Row(in, f[n - 1], n)
  BY <1>2, <1>3, Zenon
<1> DEFINE I == {n \in 0..N : f[n] \in Written(N)}
<1>5. 0 \in I
  BY <1>3, <1>4, StartIsSound
<1>6. ASSUME NEW n \in 1..N, n - 1 \in I PROVE n \in I
  <2>1. Content!Row(in, f[n - 1], n) \in Written(N)
    BY <1>6, RowAdds
  <2> QED
    BY <1>3, <1>4, <2>1
<1>7. I = 0..N
  <2>1. I \in SUBSET (0..N)
    OBVIOUS
  <2> HIDE DEF I
  <2> QED
    BY <1>1, <1>5, <1>6, <2>1, LoopKeeps
<1> QED
  BY <1>4, <1>7

\* What goes into the files is what the export has read.
LEMMA FilesAreRead ==
  ASSUME NEW in \in Content!Inputs
  PROVE  \E f : /\ IsReading(f, in)
                /\ Content!featureFiles(in) =
                     IF f[Len(in.rows)].group = <<>> THEN f[Len(in.rows)].files
                     ELSE Content!Flushed(in, f[Len(in.rows)]).files
<1> DEFINE F == CHOOSE f : IsReading(f, in)
<1>1. IsReading(F, in)
  BY ReadingExists
<1>2. Content!featureFiles(in) =
        IF F[Len(in.rows)].group = <<>> THEN F[Len(in.rows)].files ELSE Content!Flushed(in, F[Len(in.rows)]).files
  BY Zenon DEF Content!featureFiles, Content!Closed, IsReading
<1> HIDE DEF F
<1> QED
  BY <1>1, <1>2

\* A list with a member more has that member too.
LEMMA RangeOfAppend ==
  ASSUME NEW T, NEW g \in Seq(T), NEW x \in T
  PROVE  Content!Range(Append(g, x)) = Content!Range(g) \cup {x} /\ Append(g, x) # <<>>
<1>1. PICK l \in Nat : l = Len(g) /\ DOMAIN g = 1..l
  OBVIOUS
<1>2. PICK h : h = Append(g, x)
  OBVIOUS
<1>3. DOMAIN h = 1..l + 1 /\ h[l + 1] = x /\ \A i \in 1..l : h[i] = g[i]
  BY <1>1, <1>2
<1>4. \A i \in 1..l + 1 : i = l + 1 \/ i \in 1..l
  OBVIOUS
<1>5. Content!Range(h) = Content!Range(g) \cup {x}
  BY <1>1, <1>3, <1>4 DEF Content!Range
<1>6. h # <<>>
  BY <1>1, <1>3
<1> QED
  BY <1>2, <1>5, <1>6

\* The rows of one activity come one after the other, so each has its group and its file.
LEMMA RowsAreGrouped ==
  ASSUME NEW in \in Content!Inputs, NEW f, IsReading(f, in), NEW N, N = Len(in.rows), NEW rows, rows = in.rows
  PROVE  \A n \in 1..N : /\ IsGrouped(f[n].files, rows, rows[n], n)
                         /\ f[n].group # <<>> /\ Content!Range(f[n].group) = At(rows, rows[n], n)
                         /\ \A j \in 1..n : rows[j] <= rows[n]
<1>1. N \in Nat /\ rows \in Seq(1..4) /\ \A i \in 1..N - 1 : rows[i] <= rows[i + 1]
  BY RowsInOrder
<1>2. /\ f[0] = Content!Start
      /\ \A n \in 1..N : f[n] = Content!Row(in, f[n - 1], n)
      /\ \A n \in 0..N : f[n] \in Written(N)
  BY ReadingSteps
<1> DEFINE Good(n) == /\ IsGrouped(f[n].files, rows, rows[n], n)
                      /\ f[n].group # <<>> /\ Content!Range(f[n].group) = At(rows, rows[n], n)
                      /\ \A j \in 1..n : rows[j] <= rows[n]
           I == {n \in 0..N : n # 0 => Good(n)}
<1>3. 0 \in I
  BY <1>1
<1>4. ASSUME NEW n \in 1..N, n - 1 \in I PROVE n \in I
  <2>1. PICK m \in 0..N : m = n - 1 /\ n = m + 1 /\ (m # 0 => Good(m))
    BY <1>1, <1>4
  <2>2. PICK s \in Written(N) : s = f[m] /\ f[n] = Content!Row(in, s, n)
    BY <1>2, <2>1
  <2>3. PICK files, g : files = s.files /\ g = s.group /\ files \in Seq(ZipFiles) /\ g \in Seq(1..N)
    BY DEF Written
  <2>4. PICK a \in 1..4 : a = rows[n]
    BY <1>1
  <2>same. g = <<>> \/ rows[g[1]] = rows[n] => f[n].files = files /\ f[n].group = Append(g, n)
    <3>1. s.group = <<>> \/ in.rows[s.group[1]] = in.rows[n] =>
            Content!Row(in, s, n).files = s.files /\ Content!Row(in, s, n).group = Append(s.group, n)
      BY RowAdds
    <3> QED
      BY <2>2, <2>3, <3>1
  <2>other. ~(g = <<>> \/ rows[g[1]] = rows[n]) =>
              f[n].group = <<n>> /\ \E p : f[n].files = Append(files, [path |-> p, rows |-> g])
    <3> SUFFICES ASSUME ~(g = <<>> \/ rows[g[1]] = rows[n])
                 PROVE  f[n].group = <<n>> /\ \E p : f[n].files = Append(files, [path |-> p, rows |-> g])
      OBVIOUS
    <3>1. ~(s.group = <<>> \/ in.rows[s.group[1]] = in.rows[n])
      BY <2>3
    <3>2. Content!Row(in, s, n).group = <<n>>
      BY <3>1, RowAdds
    <3>3. \E p : Content!Row(in, s, n).files = Append(s.files, [path |-> p, rows |-> s.group])
      BY <3>1, RowAdds
    <3> QED
      BY <2>2, <2>3, <3>2, <3>3
  <2>5. CASE m = 0
    <3>1. files = <<>> /\ g = <<>>
      BY <1>2, <2>2, <2>3, <2>5, StartIsSound
    <3>2. f[n].files = <<>> /\ f[n].group = <<n>> /\ n = 1
      <4>1. f[n].files = files /\ f[n].group = Append(g, n)
        BY <2>same, <3>1
      <4> QED
        BY <2>1, <2>5, <3>1, <4>1
    <3>3. Content!Range(f[n].group) = {n}
      BY <3>2 DEF Content!Range
    <3>4. At(rows, rows[n], n) = {n}
      BY <3>2 DEF At
    <3>5. \A b \in 1..4 : b < rows[n] => At(rows, b, n) = {}
      BY <2>4, <3>2 DEF At
    <3>6. IsGrouped(f[n].files, rows, rows[n], n)
      BY <3>2, <3>5 DEF IsGrouped
    <3>7. \A j \in 1..n : rows[j] <= rows[n]
      BY <2>4, <3>2
    <3>8. f[n].group # <<>>
      BY <3>2
    <3>9. Good(n)
      BY <3>3, <3>4, <3>6, <3>7, <3>8
    <3> QED
      BY <3>9
  <2>6. CASE m # 0
    <3>1. m \in 1..N /\ m \in 1..Len(rows)
      BY <1>1, <2>1, <2>6
    <3>2. PICK c \in 1..4 : c = rows[m]
      BY <1>1, <3>1
    <3>3. /\ IsGrouped(files, rows, c, m) /\ g # <<>> /\ Content!Range(g) = At(rows, c, m)
          /\ \A j \in 1..m : rows[j] \in 1..4 /\ rows[j] <= c
      <4>1. /\ IsGrouped(f[m].files, rows, rows[m], m) /\ f[m].group # <<>>
            /\ Content!Range(f[m].group) = At(rows, rows[m], m) /\ \A j \in 1..m : rows[j] <= rows[m]
        BY <2>1, <2>6
      <4>2. \A j \in 1..m : rows[j] \in 1..4
        BY <1>1, <2>1
      <4>3. f[m].files = files /\ f[m].group = g
        BY <2>2, <2>3
      <4>4. IsGrouped(files, rows, c, m) /\ g # <<>> /\ Content!Range(g) = At(rows, c, m)
        BY <3>2, <4>1, <4>3
      <4>5. \A j \in 1..m : rows[j] <= c
        BY <3>2, <4>1
      <4> QED
        BY <4>2, <4>4, <4>5
    <3>4. rows[g[1]] = c
      <4>1. g[1] \in Content!Range(g)
        BY <2>3, <3>3 DEF Content!Range
      <4> QED
        BY <3>3, <4>1 DEF At
    <3>5. c <= a /\ \A j \in 1..n : j = n \/ j \in 1..m
      <4>1. m \in 1..N - 1
        BY <2>1, <3>1
      <4> QED
        BY <1>1, <2>1, <2>4, <3>2, <4>1
    <3>6. \A j \in 1..n : rows[j] <= rows[n]
      BY <2>4, <3>3, <3>5
    <3>7. n \in 1..Len(rows) /\ m + 1 \in 1..Len(rows) /\ m \in Nat
      BY <1>1, <2>1
    <3>8. CASE c = a
      <4>1. f[n].files = files /\ f[n].group = Append(g, n)
        BY <2>4, <2>same, <3>4, <3>8
      <4>2. Content!Range(Append(g, n)) = Content!Range(g) \cup {n} /\ Append(g, n) # <<>>
        BY <2>3, RangeOfAppend
      <4>3. At(rows, a, n) = At(rows, a, m) \cup {n}
        BY <2>1, <2>4, <3>5 DEF At
      <4>4. IsGrouped(files, rows, a, n)
        <5>1. \A j \in 1..m : rows[j] < rows[m + 1] => rows[j] < c
          BY <2>1, <2>4, <3>8
        <5>2. c <= rows[m + 1] /\ c \in Int
          BY <2>1, <2>4, <3>5
        <5>3. IsGrouped(files, rows, rows[m + 1], m + 1)
          BY <1>1, <3>3, <3>7, <5>1, <5>2, GroupedOn
        <5> QED
          BY <2>1, <2>4, <5>3
      <4>5. Good(n)
        BY <2>4, <3>3, <3>6, <3>8, <4>1, <4>2, <4>3, <4>4
      <4> QED
        BY <4>5
    <3>9. CASE c # a
      <4>1. c + 1 <= a
        BY <3>5, <3>9
      <4>2. PICK p : f[n].group = <<n>> /\ f[n].files = Append(files, [path |-> p, rows |-> g])
        BY <2>4, <2>other, <3>3, <3>4, <3>9
      <4>3. PICK file : file = [path |-> p, rows |-> g] /\ file \in ZipFiles /\ RowsOf(file) = At(rows, c, m)
        <5>1. PICK F \in Seq(ZipFiles) : F = Append(files, [path |-> p, rows |-> g])
          <6>1. n \in 0..N
            BY <1>1
          <6>2. f[n].files \in Seq(ZipFiles)
            BY <1>2, <6>1, Zenon DEF Written
          <6> QED
            BY <4>2, <6>2
        <5>2. Len(F) = Len(files) + 1 /\ F[Len(files) + 1] = [path |-> p, rows |-> g] /\ Len(files) \in Nat
          BY <2>3, <5>1
        <5>3. [path |-> p, rows |-> g] \in ZipFiles
          BY <5>2
        <5>4. RowsOf([path |-> p, rows |-> g]) = At(rows, c, m)
          BY <3>3 DEF RowsOf
        <5> QED
          BY <5>3, <5>4
      <4>4. IsGrouped(Append(files, file), rows, c + 1, m)
        BY <1>1, <2>3, <3>1, <3>2, <3>3, <4>3, GroupedMore
      <4>5. IsGrouped(Append(files, file), rows, a, n)
        <5>1. \A j \in 1..m : rows[j] < rows[m + 1] => rows[j] < c + 1
          BY <3>3
        <5>2. c + 1 <= rows[m + 1] /\ c + 1 \in Int
          BY <2>1, <2>4, <4>1
        <5>3. IsGrouped(Append(files, file), rows, rows[m + 1], m + 1)
          BY <1>1, <3>7, <4>4, <5>1, <5>2, GroupedOn
        <5> QED
          BY <2>1, <2>4, <5>3
      <4>6. At(rows, a, n) = {n}
        BY <2>4, <3>3, <3>5, <4>1 DEF At
      <4>7. Content!Range(f[n].group) = {n} /\ f[n].group # <<>>
        BY <4>2 DEF Content!Range
      <4>8. Good(n)
        BY <2>4, <3>6, <4>2, <4>3, <4>5, <4>6, <4>7
      <4> QED
        BY <4>8
    <3> QED
      BY <3>8, <3>9
  <2> QED
    BY <2>5, <2>6
<1>5. I = 0..N
  <2>1. I \in SUBSET (0..N)
    OBVIOUS
  <2> HIDE DEF I
  <2> QED
    BY <1>1, <1>3, <1>4, <2>1, LoopKeeps
<1>6. \A n \in 1..N : n \in 0..N /\ n # 0
  BY <1>1
<1> QED
  BY <1>5, <1>6

\* The set of the requirements of each activity, as the property names them.
LEMMA PathsHold == ASSUME x1 \in Content!Inputs PROVE Content!PathsDiffer
<1>1. PICK in \in Content!Inputs : in = x1
  OBVIOUS
<1>2. PICK N \in Nat : N = Len(in.rows)
  BY RowsInOrder
<1>3. PICK f : /\ IsReading(f, in)
               /\ Content!featureFiles(in) =
                    IF f[N].group = <<>> THEN f[N].files ELSE Content!Flushed(in, f[N]).files
  BY <1>2, FilesAreRead
<1>4. PICK s \in Written(N) : s = f[N]
  BY <1>2, <1>3, ReadingSteps
<1>5. PICK files : files = Content!featureFiles(in)
  OBVIOUS
<1>6. \A t \in Written(N) : \A i, j \in 1..Len(t.files) : i # j => t.files[i].path # t.files[j].path
  BY DEF Written, IsSound
<1>7. \A i, j \in 1..Len(files) : i # j => files[i].path # files[j].path
  <2>1. CASE s.group = <<>>
    BY <1>3, <1>4, <1>5, <1>6, <2>1
  <2>2. CASE s.group # <<>>
    <3>1. Content!Flushed(in, s) \in Written(N)
      BY <1>2, <2>2, FlushAdds
    <3>2. files = Content!Flushed(in, s).files
      BY <1>3, <1>4, <1>5, <2>2
    <3> QED
      BY <1>6, <3>1, <3>2
  <2> QED
    BY <2>1, <2>2
<1>8. PICK zip : zip = IF files = <<>> THEN <<[path |-> Content!README_NAME, rows |-> <<>>]>> ELSE files
  OBVIOUS
<1>9. \A i, j \in 1..Len(zip) : i # j => zip[i].path # zip[j].path
  <2>1. CASE files = <<>>
    <3>1. Len(zip) = 1
      BY <1>8, <2>1
    <3>2. \A i, j \in 1..1 : i = j
      OBVIOUS
    <3> QED
      BY <3>1, <3>2
  <2>2. CASE files # <<>>
    BY <1>7, <1>8, <2>2
  <2> QED
    BY <2>1, <2>2
<1>10. Content!gherkinZip(x1) = zip
  BY <1>1, <1>5, <1>8, Zenon DEF Content!gherkinZip
<1> QED
  BY <1>9, <1>10, Zenon DEF Content!PathsDiffer

\* The files are those of the activities, one for each.
LEMMA FilesOf ==
  ASSUME NEW in \in Content!Inputs, NEW N, N = Len(in.rows)
  PROVE  LET files == Content!featureFiles(in)
         IN  \E G : /\ \A i \in 1..Len(files) : RowsOf(files[i]) \in G
                    /\ \A g \in G : \E i \in 1..Len(files) : g = RowsOf(files[i])
                    /\ \A j \in 1..N : At(in.rows, in.rows[j], N) \in G
                    /\ \A g \in G : \E j \in 1..N : g = At(in.rows, in.rows[j], N)
                    /\ Len(files) = Cardinality(G)
<1>1. PICK rows \in Seq(1..4) : rows = in.rows
  BY RowsInOrder
<1>2. N \in Nat /\ N = Len(rows)
  BY <1>1
<1>3. PICK f : /\ IsReading(f, in)
               /\ Content!featureFiles(in) =
                    IF f[N].group = <<>> THEN f[N].files ELSE Content!Flushed(in, f[N]).files
  BY <1>2, FilesAreRead
<1>4. PICK s \in Written(N) : s = f[N]
  <2>1. f[N] \in Written(N)
    BY <1>1, <1>2, <1>3, ReadingSteps
  <2> QED
    BY <2>1
<1>5. PICK files : files = Content!featureFiles(in)
  OBVIOUS
<1>6. PICK c \in Int : /\ files \in Seq(ZipFiles) /\ IsGrouped(files, rows, c, N) /\ \A j \in 1..N : rows[j] < c
  <2>1. CASE N = 0
    <3>1. s.files = <<>> /\ s.group = <<>>
      BY <1>2, <1>3, <1>4, <2>1, ReadingSteps, StartIsSound
    <3>2. files = <<>> /\ files \in Seq(ZipFiles)
      BY <1>3, <1>4, <1>5, <3>1
    <3>3. \A b : At(rows, b, N) = {}
      BY <2>1 DEF At
    <3>4. IsGrouped(files, rows, 1, N)
      BY <3>2, <3>3 DEF IsGrouped
    <3>5. \A j \in 1..N : rows[j] < 1
      BY <2>1
    <3> QED
      BY <3>2, <3>4, <3>5
  <2>2. CASE N # 0
    <3>1. N \in 1..N /\ N \in 1..Len(rows)
      BY <1>2, <2>2
    <3>2. PICK e \in 1..4 : e = rows[N]
      BY <3>1
    <3>3. \A n \in 1..N : /\ IsGrouped(f[n].files, rows, rows[n], n)
                          /\ f[n].group # <<>> /\ Content!Range(f[n].group) = At(rows, rows[n], n)
                          /\ \A j \in 1..n : rows[j] <= rows[n]
      BY <1>1, <1>2, <1>3, RowsAreGrouped
    <3>4. /\ IsGrouped(s.files, rows, rows[N], N) /\ s.group # <<>>
          /\ Content!Range(s.group) = At(rows, rows[N], N) /\ \A j \in 1..N : rows[j] <= e
      BY <1>4, <3>1, <3>2, <3>3
    <3>5. files = Content!Flushed(in, s).files
      BY <1>3, <1>4, <1>5, <3>4
    <3>6. s.group # <<>>
      BY <3>4
    <3>7. Content!Flushed(in, s) \in Written(N) /\ \E p : files = Append(s.files, [path |-> p, rows |-> s.group])
      BY <3>5, <3>6, FlushAdds
    <3>8. PICK p : files = Append(s.files, [path |-> p, rows |-> s.group])
      BY <3>7
    <3>9. PICK g \in Seq(ZipFiles) : g = s.files /\ files \in Seq(ZipFiles)
      BY <3>5, <3>7 DEF Written
    <3>10. PICK file : file = [path |-> p, rows |-> s.group]
      OBVIOUS
    <3>11. Len(files) = Len(g) + 1 /\ files[Len(g) + 1] = file /\ Len(g) \in Nat
      BY <3>8, <3>9, <3>10
    <3>12. file \in ZipFiles
      BY <3>9, <3>11
    <3>13. RowsOf(file) = At(rows, rows[N], N)
      BY <3>4, <3>10 DEF RowsOf
    <3>14. IsGrouped(g, rows, rows[N], N)
      BY <3>4, <3>9
    <3>15. IsGrouped(Append(g, file), rows, rows[N] + 1, N)
      BY <3>1, <3>12, <3>13, <3>14, GroupedMore
    <3>16. IsGrouped(files, rows, e + 1, N)
      BY <3>2, <3>8, <3>9, <3>10, <3>15
    <3>17. \A j \in 1..N : rows[j] \in Int /\ rows[j] < e + 1
      BY <1>2, <3>4
    <3> QED
      BY <3>9, <3>16, <3>17
  <2> QED
    BY <2>1, <2>2
<1>7. files \in Seq(ZipFiles)
  BY <1>6
<1>8. IsGrouped(files, rows, c, N)
  BY <1>6
<1>9. \A j \in 1..N : rows[j] < c
  BY <1>6
<1>10. N = Len(rows)
  BY <1>2
<1>11. \E G : /\ \A i \in 1..Len(files) : RowsOf(files[i]) \in G
              /\ \A g \in G : \E i \in 1..Len(files) : g = RowsOf(files[i])
              /\ \A j \in 1..N : At(rows, rows[j], N) \in G
              /\ \A g \in G : \E j \in 1..N : g = At(rows, rows[j], N)
              /\ Len(files) = Cardinality(G)
  BY <1>7, <1>8, <1>9, <1>10, GroupsAreAll
<1> QED
  BY <1>1, <1>5, <1>11

\* Every requirement is in the file of its activity, and in no other.
LEMMA FilesHold == ASSUME x1 \in Content!Inputs PROVE Content!FilesAreActivities
<1>1. PICK N \in Nat : N = Len(x1.rows)
  BY RowsInOrder
<1>2. PICK G : /\ \A i \in 1..Len(Content!featureFiles(x1)) : RowsOf(Content!featureFiles(x1)[i]) \in G
               /\ \A g \in G : \E i \in 1..Len(Content!featureFiles(x1)) : g = RowsOf(Content!featureFiles(x1)[i])
               /\ \A j \in 1..N : At(x1.rows, x1.rows[j], N) \in G
               /\ \A g \in G : \E j \in 1..N : g = At(x1.rows, x1.rows[j], N)
               /\ Len(Content!featureFiles(x1)) = Cardinality(G)
  BY <1>1, FilesOf
<1>3. G = {Content!Range(Content!featureFiles(x1)[i].rows) : i \in 1..Len(Content!featureFiles(x1))}
  BY <1>2 DEF RowsOf
<1>4. G = {{i \in 1..Len(x1.rows) : x1.rows[i] = a} : a \in Content!Range(x1.rows)}
  <2>1. \A j \in 1..N : At(x1.rows, x1.rows[j], N) = {i \in 1..Len(x1.rows) : x1.rows[i] = x1.rows[j]}
    BY <1>1 DEF At
  <2>2. \A a : a \in Content!Range(x1.rows) <=> \E j \in 1..N : a = x1.rows[j]
    BY <1>1, RowsInOrder DEF Content!Range
  <2>3. ASSUME NEW a \in Content!Range(x1.rows) PROVE {i \in 1..Len(x1.rows) : x1.rows[i] = a} \in G
    <3>1. PICK j \in 1..N : a = x1.rows[j]
      BY <2>2
    <3>2. At(x1.rows, a, N) \in G
      BY <1>2, <3>1
    <3> QED
      BY <1>1, <3>2 DEF At
  <2>4. ASSUME NEW g \in G PROVE \E a \in Content!Range(x1.rows) : g = {i \in 1..Len(x1.rows) : x1.rows[i] = a}
    <3>1. PICK j \in 1..N : g = At(x1.rows, x1.rows[j], N)
      BY <1>2
    <3>2. x1.rows[j] \in Content!Range(x1.rows)
      BY <2>2
    <3>3. g = {i \in 1..Len(x1.rows) : x1.rows[i] = x1.rows[j]}
      BY <1>1, <3>1 DEF At
    <3> QED
      BY <3>2, <3>3
  <2> QED
    BY <2>3, <2>4
<1>5. Content!Cardinality(G) = Cardinality(G)
  BY Zenon DEF Content!Cardinality, Cardinality
<1>6. Len(Content!featureFiles(x1)) = Content!Cardinality(G)
  BY <1>2, <1>5
<1> QED
  BY <1>3, <1>4, <1>6, Zenon DEF Content!FilesAreActivities
=============================================================================
