----------------------------- MODULE ExportContent -----------------------------
(***************************************************************************)
(* What the Gherkin export writes (exports/query.ts, gherkin.ts,           *)
(* sanitize.ts): the rows come ordered by diagram and activity, the rows   *)
(* of one activity go into one file, and names made safe for a file system *)
(* are told apart by a number when they collide.  One state per input.     *)
(***************************************************************************)
EXTENDS Naturals, Sequences, FiniteSets, FiniteSetsExt, Functions

CONSTANTS Words,    \* what a safe name is made of; a number is a word too
          ORPHAN,   \* the safe name of ORPHAN_ACTIVITY
          MaxRows   \* bound: requirements exported

VARIABLE input
vars == <<input>>

\* A safe name is a sequence of at most MAX_NAME words; a number appended to
\* a full name takes the place of its last word.
MAX_NAME == 2
Suffixed(name, n) == Append(SubSeq(name, 1, Min({Len(name), MAX_NAME - 1})), n)

\* Three activities of one diagram and one of another.
Diagrams == {1, 2}
Activities == 1..4
DiagramOf(activity) == IF activity = 4 THEN 2 ELSE 1
NoLabel == <<>>

\* Rows come ordered by diagram, activity and date.
Rows == {rows \in UNION {[1..n -> Activities] : n \in 0..MaxRows} :
           \A i \in 1..Len(rows) - 1 : rows[i] <= rows[i + 1]}
Short == {<<w>> : w \in Words} \cup {<<w, 2>> : w \in Words}
Inputs == {in \in [rows : Rows, folder : [Diagrams -> Short],
                  label : [Activities -> Short \cup {NoLabel}]] :
             in.folder[1] = in.label[4] /\ in.folder[1] \in {<<w>> : w \in Words}}

-----------------------------------------------------------------------------
\* uniqueNames: `used` counts the numbers given to each name.  The slip
\* numbers the second use of a name without looking whether that is taken.
NumberedBlindly(used, name) == IF name \in DOMAIN used THEN Suffixed(name, used[name] + 1) ELSE name
Free(used, name) ==
  IF name \notin DOMAIN used THEN name
  ELSE LET n == CHOOSE k \in used[name] + 1..used[name] + Cardinality(DOMAIN used) + 1 :
                  /\ Suffixed(name, k) \notin DOMAIN used
                  /\ \A j \in used[name] + 1..k - 1 : Suffixed(name, j) \in DOMAIN used
       IN  Suffixed(name, n)

\* A function with one more value.
With(f, x, v) == [y \in DOMAIN f \cup {x} |-> IF y = x THEN v ELSE f[y]]

\* The number a name got is remembered with it.
Taken(used, name) ==
  LET new == Free(used, name)
      last == IF new = name THEN 1 ELSE new[Len(new)]
  IN  With(With(used, new, 1), name, last)

\* featureFiles: the files so far, the rows of the current activity, the
\* folders and the names used in each.
Nothing == [x \in {} |-> 0]
Start == [files |-> <<>>, group |-> <<>>, folders |-> Nothing, names |-> Nothing, used |-> Nothing]

Folder(in, s, diagram) ==
  IF diagram \in DOMAIN s.folders THEN s
  ELSE [s EXCEPT !.folders = With(s.folders, diagram, Free(s.used, in.folder[diagram])),
                 !.names = With(s.names, diagram, Nothing),
                 !.used = Taken(s.used, in.folder[diagram])]

Label(in, activity) == IF in.label[activity] = NoLabel THEN <<ORPHAN>> ELSE in.label[activity]

Filed(in, t, rows, activity) ==
  LET diagram == DiagramOf(activity)
      used == t.names[diagram]
      name == Label(in, activity)
  IN  [t EXCEPT !.files = Append(t.files, [path |-> <<t.folders[diagram], Free(used, name)>>,
                                           rows |-> rows]),
                !.names = With(t.names, diagram, Taken(used, name)),
                !.group = <<>>]
Flushed(in, s) ==
  LET activity == in.rows[s.group[1]]
  IN  Filed(in, Folder(in, s, DiagramOf(activity)), s.group, activity)

\* The slip takes two activities of one name for the same.
SameLabel(in, i, j) == DiagramOf(in.rows[i]) = DiagramOf(in.rows[j])
                       /\ Label(in, in.rows[i]) = Label(in, in.rows[j])
SameGroup(in, i, j) == in.rows[i] = in.rows[j]

Row(in, s, i) ==
  LET t == IF s.group # <<>> /\ ~SameGroup(in, s.group[1], i) THEN Flushed(in, s) ELSE s
  IN  [t EXCEPT !.group = Append(t.group, i)]

Closed(in, s) == IF s.group = <<>> THEN s.files ELSE Flushed(in, s).files
featureFiles(in) ==
  LET upto[n \in 0..Len(in.rows)] == IF n = 0 THEN Start ELSE Row(in, upto[n - 1], n)
  IN  Closed(in, upto[Len(in.rows)])

\* gherkinZip: without a file, a note that says so.
README_NAME == <<"LEEME.txt">>
gherkinZip(in) == LET files == featureFiles(in)
                  IN  IF files = <<>> THEN <<[path |-> README_NAME, rows |-> <<>>]>> ELSE files

-----------------------------------------------------------------------------
Init == input \in Inputs
Next == UNCHANGED input

\* Two files of the archive never have the same path, though two diagrams or
\* two activities may have the same name, a name may already end in the
\* number another would be given, and a long name loses its end to it.
PathsDiffer ==
  LET files == gherkinZip(input)
  IN  \A i, j \in 1..Len(files) : i # j => files[i].path # files[j].path

\* Every requirement is in exactly one file, and a file holds the
\* requirements of one activity and all of them, those of an activity that
\* was removed from the version included.
FilesAreActivities ==
  LET files == featureFiles(input)
      groups == {Range(files[i].rows) : i \in 1..Len(files)}
  IN  /\ groups = {{i \in 1..Len(input.rows) : input.rows[i] = a} : a \in Range(input.rows)}
      /\ Len(files) = Cardinality(groups)
=============================================================================
