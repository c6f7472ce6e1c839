----------------------------- MODULE MCDAFFGrid -----------------------------
(***************************************************************************)
(* Small grids for DAFFGrid.  A unit is 1/2000 degree, so that the         *)
(* rounding to 1/1000 degree shows; ranges and questions are given in      *)
(* degrees, questions also next to a boundary.                             *)
(***************************************************************************)
EXTENDS DAFFGrid

MCDegree == 2000

Header(alphaPoints, alphaStart, alphaEnd, betaPoints, betaStart, betaEnd) ==
  [alphaPoints |-> alphaPoints,
   alphaStart |-> alphaStart * MCDegree, alphaEnd |-> alphaEnd * MCDegree,
   betaPoints |-> betaPoints,
   betaStart |-> betaStart * MCDegree, betaEnd |-> betaEnd * MCDegree]

FullSpheres == {Header(4, 0, 360, 3, 0, 180), Header(3, 0, 360, 4, 0, 180)}

\* With and without poles, partial ranges, one ring, one point per ring, wrapped.
MCHeaders ==
  FullSpheres \cup
  {Header(4, 0, 360, 2, 60, 120),
   Header(3, 0, 360, 2, 0, 90),
   Header(3, 0, 360, 2, 90, 180),
   Header(3, 30, 150, 3, 45, 135),
   Header(3, 240, 360, 2, 0, 180),
   Header(4, 0, 360, 1, 90, 90),
   Header(3, 30, 90, 1, 90, 90),
   Header(1, 0, 360, 3, 0, 180),
   Header(3, 330, 30, 2, 60, 120)}

\* Grid points, middles of cells, boundaries, their neighbours, and angles out
\* of the circle.
MCAlphas ==
  {n * MCDegree : n \in {-30, 0, 30, 45, 60, 90, 135, 150, 180, 240, 270, 300, 330, 375}}
  \cup {45 * MCDegree - 1, 300 * MCDegree - 1, 360 * MCDegree - 1}
MCBetas ==
  {n * MCDegree : n \in {-30, 0, 30, 45, 60, 75, 90, 120, 135, 180, 190}}
  \cup {1, 45 * MCDegree - 1, 180 * MCDegree - 1}

===============================================================================
