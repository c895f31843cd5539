--------------------------------- MODULE Camera ---------------------------------
(***************************************************************************)
(* The camera of the workspace (web workspace/camera/zoom.ts), along one   *)
(* axis and in whole units: the wheel zooms at the pointer, the keyboard   *)
(* and the minimap move it, and neither loses the image.                   *)
(***************************************************************************)
EXTENDS Integers, FiniteSets

CONSTANTS Width,   \* pixels of the image
          VIEWPORT \* pixels of the screen

VARIABLES
  zoom,   \* screen pixels per image pixel, in eighths
  center  \* of the camera, in units of an eighth of a pixel

vars == <<zoom, center>>

\* The limits of the zoom: half the one that fits and four times it.
UNIT == 8
Zooms == {4, 8, 16, 32}

TypeOK == zoom \in Zooms /\ center \in 0..UNIT * Width

Init == zoom = UNIT /\ center = (UNIT * Width) \div 2

-----------------------------------------------------------------------------
clamp(v, min, max) == LET low == IF v > min THEN v ELSE min IN IF low < max THEN low ELSE max
clampZoom(z) == clamp(z, 4, 32)
\* The slip lets the camera go as far as the zoom takes it.
NoPan(c) == c
clampPan(c) == clamp(c, 0, UNIT * Width)

\* The point of the image at a distance d from the middle of the screen.
screenToImage(c, z, d) == c + (UNIT * UNIT * d) \div z

\* The anchor stays put; the slip forgets the limits of the zoom when it
\* places the center.
Unlimited(c, z, num, den, d) ==
  screenToImage(c, z, d) - (UNIT * UNIT * d) \div ((z * num) \div den)
CenterAt(c, z, num, den, d) ==
  screenToImage(c, z, d) - (UNIT * UNIT * d) \div clampZoom((z * num) \div den)

Offsets == {-(VIEWPORT \div 2), 0, VIEWPORT \div 2}
zoomAt(num, den, d) ==
  /\ zoom' = clampZoom((zoom * num) \div den)
  /\ center' = clampPan(CenterAt(center, zoom, num, den, d))

\* A point given by the keyboard in screen pixels, or by the minimap.
pan(d) ==
  /\ center' = clampPan(center + (UNIT * UNIT * d) \div zoom)
  /\ UNCHANGED zoom

fitCamera ==
  /\ zoom' = UNIT /\ center' = (UNIT * Width) \div 2

centerOn(p) == center' = clampPan(UNIT * p) /\ UNCHANGED zoom

Next ==
  \/ \E f \in {<<2, 1>>, <<1, 2>>}, d \in Offsets : zoomAt(f[1], f[2], d)
  \/ \E d \in Offsets : pan(d)
  \/ \E p \in -1..Width + 1 : centerOn(p)
  \/ fitCamera

-----------------------------------------------------------------------------
\* Some of the image is on the screen after any sequence of zooms and moves,
\* and the rectangle of the minimap is not empty.
SomethingShows ==
  LET half == VIEWPORT \div 2
  IN  /\ clamp(screenToImage(center, zoom, -half), 0, UNIT * Width)
           < clamp(screenToImage(center, zoom, half), 0, UNIT * Width)

\* What is under the pointer stays under it while the wheel turns, at the
\* limits of the zoom too, unless the image would leave the screen.
AnchorStays ==
  \A d \in Offsets, f \in {<<2, 1>>, <<1, 2>>} :
    zoomAt(f[1], f[2], d) /\ center' \in 1..UNIT * Width - 1 =>
      screenToImage(center', zoom', d) = screenToImage(center, zoom, d)
=============================================================================
