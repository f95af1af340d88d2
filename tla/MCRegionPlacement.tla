-------------------------- MODULE MCRegionPlacement -------------------------
(* Boxes, pages and spans on a grid that reaches every case of the code:   *)
(* off the page on either side, inside the unit square, half a unit thin,  *)
(* and at, and just past, the twentieth the code tolerates, which a cut at *)
(* the edge of the narrowest page just keeps to.  With sixteen parts to a  *)
(* unit and a grid of half units, no division leaves a rest.               *)
EXTENDS RegionPlacement

Halves(S) == {8 * n : n \in S}
GridX == Halves({-4, 0, 1, 2, 4, 18, 20, 40, 80, 84, 86})
GridY == Halves({-4, 0, 1, 2, 20, 40, 42, 44})

GridBoxes ==
    {b \in [x1 : GridX, y1 : GridY, x2 : GridX, y2 : GridY] :
        b.x1 <= b.x2 /\ b.y1 <= b.y2}

GridSizes == {[w |-> 40, h |-> 20], [w |-> 20, h |-> 20], [w |-> 10, h |-> 20]}
GridApiSizes == {NoSize, [w |-> 40, h |-> 20], [w |-> 80, h |-> 40]}
HalfSpans == {[from |-> 0, to |-> 1], [from |-> 1, to |-> 2], [from |-> 0, to |-> 2]}

=============================================================================
