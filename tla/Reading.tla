-------------------------------- MODULE Reading --------------------------------
(***************************************************************************)
(* The pure part of reading a diagram (apps/analytics detection): the      *)
(* rounding of a box to the image (pipeline.py), which holes and discs     *)
(* become shapes (shapes.py), which lines become arrows (arrows.py) and    *)
(* what the corrections of the model change (llm_refine.py), up to the     *)
(* contract the API checks the result with (shared/detection.ts).  Images  *)
(* have one dimension here; one initial state per input.                   *)
(***************************************************************************)
EXTENDS Integers, Sequences, FiniteSets, FiniteSetsExt

CONSTANTS Precision, \* units a normalised coordinate is rounded to
          Pixels,    \* bound: widest image, no wider than Precision
          Zones      \* most holes, discs or zones of an image

VARIABLE input
vars == <<input>>

\* A box from lo to hi; its centre is doubled to stay an integer.
Boxes == {b \in [lo : 0..3, hi : 1..4] : b.lo < b.hi}
center2(b) == b.lo + b.hi
contains(b, p2) == 2 * b.lo <= p2 /\ p2 <= 2 * b.hi
Lists(S, n) == UNION {[1..k -> S] : k \in 0..n}

\* Inputs: a box in an image of some width; the holes, by what their outline
\* looks like, and the discs; a line with its ends; a result and its review.
BoxInputs == {b \in [kind : {"box"}, width : 1..Pixels, x : 0..Pixels, w : 1..Pixels] : b.x + b.w <= b.width}
Holes == [box : Boxes, looks : {"ring", "decision", "action"}]
ShapeInputs == [kind : {"shapes"}, holes : Lists(Holes, Zones), discs : Lists({b \in Boxes : b.hi - b.lo < 3}, Zones)]
Heads == [at : 0..5, score : 1..2]
LineInputs == {in \in [kind : {"line"}, touched : {{1, 2}, {1, 2, 3}}, heads : Lists(Heads, 2)] :
                 \A i, j \in 1..Len(in.heads) : i # j => in.heads[i].at # in.heads[j].at}
Labels == {"", "text", "other"}
Kinds == {"action", "decision"}
ReviewInputs ==
  [kind : {"review"},
   read : {z \in [1..2 -> [type : Kinds, label : Labels]] : TRUE},
   fixes : Lists([id : 1..4, label : Labels, type : Kinds, same : BOOLEAN], 1),
   added : Lists([label : Labels, type : Kinds], Zones)]

-----------------------------------------------------------------------------
\* Python rounds a tie to the even neighbour; the slip, as usual in other
\* languages, rounds it up.
HalfUp(n, d) == (2 * n + d) \div (2 * d)
Rounded(n, d) == IF (2 * n) % d = 0 /\ ((2 * n) \div d) % 2 = 1
                   THEN LET down == n \div d IN IF down % 2 = 0 THEN down ELSE down + 1
                   ELSE HalfUp(n, d)

bbox(width, x, w) ==
  [x |-> Rounded(x * Precision, width), w |-> Rounded(Min({w, width - x}) * Precision, width)]

-----------------------------------------------------------------------------
\* The size of a disc against the ring around it.
Fits(disc, ring) == LET d == disc.hi - disc.lo  r == ring.hi - ring.lo
                    IN  10 * d >= 3 * r /\ 20 * d <= 17 * r

\* The first free disc centred in the ring; the slip takes one twice.
AnyDisc(discs, used, ring) ==
  {i \in 1..Len(discs) : contains(ring, center2(discs[i])) /\ Fits(discs[i], ring)}
DiscsOf(discs, used, ring) ==
  {i \in 1..Len(discs) : i \notin used /\ contains(ring, center2(discs[i])) /\ Fits(discs[i], ring)}

FromHole(in, s, hole) ==
  IF hole.looks # "ring"
    THEN [s EXCEPT !.shapes = Append(@, [type |-> hole.looks, box |-> hole.box, disc |-> 0])]
    ELSE LET own == DiscsOf(in.discs, s.used, hole.box)
         IN  IF own = {} THEN s
             ELSE [used |-> s.used \cup {Min(own)},
                   shapes |-> Append(s.shapes, [type |-> "end", box |-> hole.box, disc |-> Min(own)])]

\* A disc inside another shape is no start.
FromDisc(in, s, i) ==
  IF i \in s.used \/ \E k \in 1..Len(s.shapes) : contains(s.shapes[k].box, center2(in.discs[i])) THEN s
  ELSE [s EXCEPT !.shapes = Append(@, [type |-> "start", box |-> in.discs[i], disc |-> i])]

\* The shapes of the holes, then those of the discs.
FromHoles(in) ==
  LET upto[n \in 0..Len(in.holes)] ==
        IF n = 0 THEN [used |-> {}, shapes |-> <<>>] ELSE FromHole(in, upto[n - 1], in.holes[n])
  IN  upto[Len(in.holes)]

\* The code also sorts them by place, which no property tells apart.
detect_shapes(in) ==
  LET upto[n \in 0..Len(in.discs)] == IF n = 0 THEN FromHoles(in) ELSE FromDisc(in, upto[n - 1], n)
  IN  upto[Len(in.discs)].shapes

-----------------------------------------------------------------------------
\* Shape i of a line is at 3 * (i - 1); a head further than REACH from every
\* shape is a stain.
REACH == 1
away(at, i) == LET d == at - 3 * (i - 1) IN IF d < 0 THEN -d ELSE d
gap(at, touched) == Min({away(at, i) : i \in touched})
Score(head, touched) == 10 * head.score - gap(head.at, touched)

\* A line between two shapes is one arrow: its best head; the slip keeps
\* every head.
EveryHead(in) == 1..Len(in.heads)
Best(in) ==
  IF Cardinality(in.touched) = 2 /\ in.heads # <<>>
    THEN {CHOOSE i \in 1..Len(in.heads) :
            \A j \in 1..Len(in.heads) :
              LET mine == Score(in.heads[i], in.touched)  other == Score(in.heads[j], in.touched)
              IN  mine > other \/ (mine = other /\ i <= j)}
    ELSE 1..Len(in.heads)

\* The nearest of some shapes, and the farthest; the first of two alike.
nearest(at, S) == CHOOSE t \in S : \A u \in S : away(at, t) < away(at, u) \/ (away(at, t) = away(at, u) /\ t <= u)
farthest(at, S) == CHOOSE t \in S : \A u \in S : away(at, t) > away(at, u) \/ (away(at, t) = away(at, u) /\ t <= u)
target(in, i) == nearest(in.heads[i].at, in.touched)
source(in, i) == farthest(in.heads[i].at, in.touched \ {target(in, i)})
arrows(in) == {<<source(in, i), target(in, i)>> :
                 i \in {h \in Best(in) : away(in.heads[h].at, target(in, h)) <= REACH}}

-----------------------------------------------------------------------------
\* The flags of a zone the pipeline read; zones are numbered from 1.
Read(zone) == [type |-> zone.type, label |-> zone.label,
               flags |-> IF zone.type = "action" /\ zone.label = "" THEN {"empty_label"} ELSE {}]

\* A correction names a zone that was read, is about the same place, has a
\* name, and a similar one if the zone had one.
Similar(a, b) == a = b
Valid(zone, fix) == fix.label # "" /\ fix.same /\ (zone.label = "" \/ Similar(zone.label, fix.label))

\* The slip leaves the flag of the reading.
KeepFlags(zone) == zone.flags \cup {"llm_corrected"}
Corrected(zone) == (zone.flags \ {"empty_label"}) \cup {"llm_corrected"}

Fixed(in, i) ==
  LET zone == Read(in.read[i])
      fixes == {k \in 1..Len(in.fixes) : in.fixes[k].id = i}
  IN  IF fixes # {} /\ Valid(zone, in.fixes[Max(fixes)])
        THEN [type |-> in.fixes[Max(fixes)].type, label |-> in.fixes[Max(fixes)].label,
              flags |-> Corrected(zone)]
        ELSE zone

\* The members of a list that are in S, in their order.
Where(list, S) ==
  LET upto[n \in 0..Len(list)] ==
        IF n = 0 THEN <<>> ELSE IF list[n] \in S THEN Append(upto[n - 1], list[n]) ELSE upto[n - 1]
  IN  upto[Len(list)]

Kept(in) == Where(in.added, {zone \in [label : Labels, type : Kinds] : ~(zone.label = "" /\ zone.type = "action")})
apply(in) ==
  [i \in DOMAIN in.read |-> Fixed(in, i)]
    \o [k \in DOMAIN Kept(in) |-> [type |-> Kept(in)[k].type, label |-> Kept(in)[k].label, flags |-> {"llm_added"}]]

-----------------------------------------------------------------------------
Init == input \in BoxInputs \cup ShapeInputs \cup LineInputs \cup ReviewInputs
Next == UNCHANGED input

\* The box of a shape at the edge of the image is still inside after both
\* its coordinates are rounded: the contract allows 1e-9, less than a unit,
\* and a box outside makes the API refuse the whole result.
BoxInside == input.kind = "box" =>
  LET b == bbox(input.width, input.x, input.w) IN b.x + b.w <= Precision /\ b.w > 0

\* A disc is of one shape, the ring that surrounds it or a start, and a
\* start is not drawn inside an action, a decision, an end or another start.
DiscsAreOne == input.kind = "shapes" =>
  LET shapes == detect_shapes(input)
  IN  \A i, j \in 1..Len(shapes) : i < j =>
        /\ shapes[i].disc # 0 => shapes[i].disc # shapes[j].disc
        /\ shapes[j].type = "start" => ~contains(shapes[i].box, center2(shapes[j].box))

\* A line between two shapes is proposed in at most one direction, whatever
\* stains of the scan look like heads near its other end.
OneDirection == input.kind = "line" /\ Cardinality(input.touched) = 2 =>
  Cardinality(arrows(input)) <= 1

\* After the review of the model the administrator is warned of an action
\* without a name exactly when it has none, in the order in which the zones
\* were read, and the zones that were read keep their number, which arrows
\* refer to.
WarnedOfNameless == input.kind = "review" =>
  LET zones == apply(input)
  IN  /\ \A i \in 1..Len(zones) :
           ("empty_label" \in zones[i].flags) <=> (zones[i].type = "action" /\ zones[i].label = "")
      /\ \A i \in DOMAIN input.read :
           zones[i].label # input.read[i].label => input.read[i].label = ""
=============================================================================
