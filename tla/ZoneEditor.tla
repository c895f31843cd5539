--------------------------------- MODULE ZoneEditor ---------------------------------
(***************************************************************************)
(* The zone editor of the workspace (web diagrams/editor geometry.ts and   *)
(* EditorLayer.tsx), along one axis.  The pointer is captured while it     *)
(* drags, so it may leave the image; the arrow keys and the changes of     *)
(* others arrive at any moment.                                            *)
(***************************************************************************)
EXTENDS Integers, FiniteSets

CONSTANTS Width,  \* pixels of the image
          MinSide \* MIN_SIDE_PX

VARIABLES
  box,    \* the zone, as the cache shows it
  narrow, \* a zone narrower than MinSide came from the server
  drag    \* what the pointer is doing

vars == <<box, narrow, drag>>

\* A zone keeps its edges; BBoxSchema accepts those inside the image.
Edges == {b \in [lo : -Width..Width, hi : 0..2 * Width] : b.lo < b.hi}
BBoxSchema == {b \in Edges : 0 <= b.lo /\ b.hi <= Width}
Points == -1..Width + 1
Still == [kind |-> "none", box |-> [lo |-> 0, hi |-> 1], start |-> 0]

clamp(v, min, max) == LET low == IF v > min THEN v ELSE min IN IF low < max THEN low ELSE max
width(b) == b.hi - b.lo

TypeOK ==
  /\ box \in Edges /\ narrow \in BOOLEAN
  /\ drag.kind \in {"none", "move", "left", "right", "draw"} /\ drag.start \in Points

Init ==
  /\ box \in BBoxSchema /\ narrow = (width(box) < MinSide) /\ drag = Still

-----------------------------------------------------------------------------
\* The slip clamps the left edge to the whole image.
MovedFreely(b, delta) == LET left == clamp(b.lo + delta, 0, Width) IN [lo |-> left, hi |-> left + width(b)]
moveBox(b, delta) == LET left == clamp(b.lo + delta, 0, Width - width(b))
                     IN  [lo |-> left, hi |-> left + width(b)]

resizeBox(b, handle, p) ==
  IF handle = "left" THEN [b EXCEPT !.lo = clamp(p, 0, b.hi - MinSide)]
                     ELSE [b EXCEPT !.hi = clamp(p, b.lo + MinSide, Width)]

boxFromDrag(start, end) ==
  [lo |-> clamp(IF start < end THEN start ELSE end, 0, Width),
   hi |-> clamp(IF start < end THEN end ELSE start, 0, Width)]

-----------------------------------------------------------------------------
\* Pointer down: on a handle of the zone, on the zone, or beside it.
Down(p) ==
  /\ drag.kind = "none" /\ p \in 0..Width
  /\ drag' \in {[kind |-> kind, box |-> box, start |-> p] :
                  kind \in (IF p = box.lo THEN {"left"} ELSE {})
                           \cup (IF p = box.hi THEN {"right"} ELSE {})
                           \cup (IF p \notin {box.lo, box.hi}
                                   THEN IF box.lo <= p /\ p <= box.hi THEN {"move"} ELSE {"draw"}
                                   ELSE {})}
  /\ UNCHANGED <<box, narrow>>

\* The zone follows the pointer from where it was when the drag began,
\* whatever else changed it meanwhile.
Move(p) ==
  /\ drag.kind \in {"move", "left", "right"}
  /\ box' = IF drag.kind = "move" THEN moveBox(drag.box, p - drag.start)
                                  ELSE resizeBox(drag.box, drag.kind, p)
  /\ UNCHANGED <<narrow, drag>>

\* A drag beside the zone makes another when it is not too short; it is the
\* one selected then.
Up(p) ==
  /\ drag.kind # "none" /\ drag' = Still
  /\ LET new == boxFromDrag(drag.start, p)
     IN  IF drag.kind = "draw" /\ width(new) >= MinSide
           THEN box' = new
           ELSE UNCHANGED box
  /\ UNCHANGED narrow

\* Arrow keys: one pixel, or more with Shift.
Nudge(delta) ==
  /\ box' = moveBox(box, delta)
  /\ UNCHANGED <<narrow, drag>>

\* The zone is read again, or another administrator changed it.
Refetch(b) ==
  /\ box' = b /\ narrow' = (narrow \/ width(b) < MinSide)
  /\ UNCHANGED drag

Next ==
  \/ \E p \in Points : Down(p) \/ Move(p) \/ Up(p)
  \/ \E delta \in {-2, -1, 1, 2} : Nudge(delta)
  \/ \E b \in BBoxSchema : Refetch(b)

-----------------------------------------------------------------------------
\* The zone that a save would send is always inside the image, through any
\* sequence of drags, keys and changes of others in the middle of a drag: the
\* API refuses the others.  A zone that came narrower than the least side is
\* left out: its left edge leaves the image when it is pulled (geometry.ts:65).
ZoneIsInside == ~narrow => box \in BBoxSchema

=============================================================================
