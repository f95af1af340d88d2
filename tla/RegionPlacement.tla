---------------------------- MODULE RegionPlacement -------------------------
(***************************************************************************)
(* From a box the endpoint reports around a field to the black rectangles  *)
(* on the document: cutting the box at the characters to hide, telling the *)
(* units of its coordinates, scaling, clipping and widening                *)
(* (buildSubRegionsFromBBox, placeRegion and the rectangles MaskImageFile  *)
(* and maskPDFFileInternal draw).                                          *)
(*                                                                         *)
(* Coordinates are counted in parts of a unit, Unit parts each, and what   *)
(* the code divides is rounded down to a part, if it leaves a rest; the    *)
(* slack of 1e-6 and the two decimals of the stamp's offset are far below  *)
(* one part.                                                               *)
(***************************************************************************)
EXTENDS Integers, FiniteSets

CONSTANTS
    Unit,       \* parts of a unit, a multiple of four
    Boxes,      \* what the endpoint reports, in parts: [x1, y1, x2, y2]
    Sizes,      \* page sizes in whole units: [w, h]
    ApiSizes,   \* reported page sizes in whole units, NoSize for none
    Length,     \* characters of the field
    Spans       \* runs of characters to hide: [from, to], counted from 0

NoSize == [w |-> 0, h |-> 0]

ASSUME PlacementAssumption ==
    /\ Unit \in Nat \ {0} /\ Unit % 4 = 0
    /\ Boxes \subseteq [x1 : Int, y1 : Int, x2 : Int, y2 : Int]
    /\ \A b \in Boxes : b.x1 <= b.x2 /\ b.y1 <= b.y2
    /\ Sizes \subseteq [w : Nat \ {0}, h : Nat \ {0}]
    /\ ApiSizes \subseteq [w : Nat \ {0}, h : Nat \ {0}] \cup {NoSize}
    /\ Length \in Nat
    /\ Spans \subseteq [from : Nat, to : Nat]
    /\ \A s \in Spans : s.from < s.to /\ s.to <= Length

VARIABLES
    box,        \* the one box of the field (polygonBounds of its polygon)
    page,       \* the size of the page it is on
    api,        \* the size the endpoint says that page has
    span,       \* the characters to hide
    region,     \* the region cut out for them
    placed,     \* that region in the page's own parts
    drawn,      \* the pixels or points that come out black
    stage

vars == <<box, page, api, span, region, placed, drawn, stage>>

Least(a, b) == IF a <= b THEN a ELSE b
Most(a, b) == IF a >= b THEN a ELSE b

\* math.Floor and math.Ceil, to whole units.
Floor(c) == (c \div Unit) * Unit
Ceil(c) == -Floor(-c)

NoBox == [x1 |-> 0, y1 |-> 0, x2 |-> 0, y2 |-> 0]

\* isNormalizedBox: every coordinate in the unit square.
IsNormalizedBox(b) ==
    /\ b.x1 >= 0 /\ b.y1 >= 0 /\ b.x2 <= Unit /\ b.y2 <= Unit
    /\ b.x2 > 0 \/ b.y2 > 0

-----------------------------------------------------------------------------
(* Cutting.                                                                *)

\* Where in the box the character boundary n falls.
Boundary(b, n) == b.x1 + ((b.x2 - b.x1) * n) \div Length

\* Wrong on purpose: a thin cut is widened whatever its units.
CutWidened(b, s) ==
    LET from == Boundary(b, s.from)
        to == Boundary(b, s.to)
    IN  [b EXCEPT !.x1 = from, !.x2 = Most(to, from + Unit)]

\* buildSubRegionsFromBBox, for one span: thin cuts are widened to a unit,
\* but not where a unit is the whole page.
Cut(b, s) ==
    LET from == Boundary(b, s.from)
        to == Boundary(b, s.to)
    IN  [b EXCEPT !.x1 = from,
                  !.x2 = IF ~IsNormalizedBox(b) THEN Most(to, from + Unit)
                         ELSE to]

-----------------------------------------------------------------------------
(* Placing.                                                                *)

Units(b) ==
    IF IsNormalizedBox(b) THEN "normalized"
    ELSE IF api # NoSize THEN "api"
    ELSE "page"

\* A box in the given units, in parts of the page.
Scaled(b, units) ==
    CASE units = "normalized" ->
            [x1 |-> b.x1 * page.w, y1 |-> b.y1 * page.h,
             x2 |-> b.x2 * page.w, y2 |-> b.y2 * page.h]
      [] units = "api" ->
            [x1 |-> (b.x1 * page.w) \div api.w, y1 |-> (b.y1 * page.h) \div api.h,
             x2 |-> (b.x2 * page.w) \div api.w, y2 |-> (b.y2 * page.h) \div api.h]
      [] units = "page" -> b

\* Coordinates that leave the page by more than overflowTolerance, a
\* twentieth, were not page units.
Overflows(b) ==
    /\ Units(b) = "page"
    /\ \/ 20 * b.x2 > 21 * page.w * Unit
       \/ 20 * b.y2 > 21 * page.h * Unit

\* Wrong on purpose: only the right and bottom edges are clipped.
ClippedBelow(b) ==
    [x1 |-> b.x1, y1 |-> b.y1,
     x2 |-> Least(b.x2, page.w * Unit), y2 |-> Least(b.y2, page.h * Unit)]

Clipped(b) ==
    [x1 |-> Most(b.x1, 0), y1 |-> Most(b.y1, 0),
     x2 |-> Least(b.x2, page.w * Unit), y2 |-> Least(b.y2, page.h * Unit)]

\* Wrong on purpose: what would have been widened is refused.
TooThinForOne(b) == b.x2 - b.x1 < Unit \/ b.y2 - b.y1 < Unit

\* minPlacedSize is half a unit.
TooThin(b) == b.x2 - b.x1 < Unit \div 2 \/ b.y2 - b.y1 < Unit \div 2

\* A hairline keeps at least one unit, inside the far edge of the page.
Widened(b) ==
    LET right == IF b.x2 - b.x1 < Unit THEN Least(b.x1 + Unit, page.w * Unit)
                 ELSE b.x2
        bottom == IF b.y2 - b.y1 < Unit THEN Least(b.y1 + Unit, page.h * Unit)
                  ELSE b.y2
    IN  [x1 |-> IF b.x2 - b.x1 < Unit THEN right - Unit ELSE b.x1,
         y1 |-> IF b.y2 - b.y1 < Unit THEN bottom - Unit ELSE b.y1,
         x2 |-> right, y2 |-> bottom]

\* Wrong on purpose: a box that overflows is clipped like a loose one.
RefusedIfThin(b) == TooThin(Clipped(Scaled(b, Units(b))))

\* placeRegion returns an error.
Refused(b) == Overflows(b) \/ TooThin(Clipped(Scaled(b, Units(b))))

-----------------------------------------------------------------------------
(* Drawing.                                                                *)

\* MaskImageFile: whole pixels, outward.
Pixels(b) ==
    [x1 |-> Floor(b.x1), y1 |-> Floor(b.y1), x2 |-> Ceil(b.x2), y2 |-> Ceil(b.y2)]

\* maskPDFFileInternal: a stamp of whole points hung from the top left corner.
Stamp(b) ==
    [x1 |-> b.x1, y1 |-> b.y1,
     x2 |-> b.x1 + Ceil(b.x2 - b.x1), y2 |-> b.y1 + Ceil(b.y2 - b.y1)]

-----------------------------------------------------------------------------

Stage == {"cut", "place", "draw", "drawn", "refused"}

Init ==
    /\ box \in Boxes
    /\ page \in Sizes
    /\ api \in ApiSizes
    /\ span \in Spans
    /\ region = NoBox
    /\ placed = NoBox
    /\ drawn = NoBox
    /\ stage = "cut"

\* One box: the cut is what is covered.
CutOne ==
    /\ stage = "cut"
    /\ region' = Cut(box, span)
    /\ stage' = "place"
    /\ UNCHANGED <<box, page, api, span, placed, drawn>>

\* One of several boxes, or nothing to cut by: the box as it is.
CoverWhole ==
    /\ stage = "cut"
    /\ region' = box
    /\ stage' = "place"
    /\ UNCHANGED <<box, page, api, span, placed, drawn>>

PlaceFails ==
    /\ stage = "place"
    /\ Refused(region)
    /\ stage' = "refused"
    /\ UNCHANGED <<box, page, api, span, region, placed, drawn>>

Place ==
    /\ stage = "place"
    /\ ~Refused(region)
    /\ placed' = Widened(Clipped(Scaled(region, Units(region))))
    /\ stage' = "draw"
    /\ UNCHANGED <<box, page, api, span, region, drawn>>

DrawImage ==
    /\ stage = "draw"
    /\ drawn' = Pixels(placed)
    /\ stage' = "drawn"
    /\ UNCHANGED <<box, page, api, span, region, placed>>

DrawPDF ==
    /\ stage = "draw"
    /\ drawn' = Stamp(placed)
    /\ stage' = "drawn"
    /\ UNCHANGED <<box, page, api, span, region, placed>>

Next == CutOne \/ CoverWhole \/ PlaceFails \/ Place \/ DrawImage \/ DrawPDF

Spec == Init /\ [][Next]_vars

-----------------------------------------------------------------------------
(* Properties.                                                             *)

Covers(outer, inner) ==
    /\ outer.x1 <= inner.x1 /\ outer.y1 <= inner.y1
    /\ inner.x2 <= outer.x2 /\ inner.y2 <= outer.y2

\* The part of the box under the characters to hide.
Hidden ==
    [box EXCEPT !.x1 = Boundary(box, span.from), !.x2 = Boundary(box, span.to)]

KeepsUnits == Units(region) = Units(box)

OnPage(b) ==
    Covers([x1 |-> 0, y1 |-> 0, x2 |-> page.w * Unit, y2 |-> page.h * Unit], b)

\* Every rectangle runs from its top left to its bottom right corner, in
\* parts, at every stage (polygonBounds, placedRegion, image.Rect).
TypeOK ==
    /\ stage \in Stage
    /\ page \in Sizes /\ api \in ApiSizes /\ span \in Spans
    /\ \A b \in {box, region, placed, drawn} :
          /\ b \in [x1 : Int, y1 : Int, x2 : Int, y2 : Int]
          /\ b.x1 <= b.x2 /\ b.y1 <= b.y2

\* What comes out black covers what had to be hidden, as far as it is on the
\* page, in the units of the box the endpoint reported: no cut, scale, clip
\* or rounding uncovers a character.  Left out are the boxes in page units
\* whose first characters lie within one unit of the page's corner: cut down
\* into the unit square, they are read as normalized and land elsewhere.
HiddenIsCovered ==
    stage = "drawn" /\ (KeepsUnits \/ IsNormalizedBox(box))
        => Covers(drawn, Clipped(Scaled(Hidden, Units(box))))

\* A rectangle that is drawn shows: it is on the page and at least one unit
\* wide and high.
DrawnShows ==
    stage = "drawn" =>
        /\ 0 <= drawn.x1 /\ drawn.x1 + Unit <= drawn.x2 /\ drawn.x1 < page.w * Unit
        /\ 0 <= drawn.y1 /\ drawn.y1 + Unit <= drawn.y2 /\ drawn.y1 < page.h * Unit

\* Failing closed is no excuse for failing always: a box on the page whose
\* hidden part is at least half a unit wide and high, both in the box's own
\* units, is not refused, whatever the cut did to it in between.  On a page
\* narrower than ten units a cut at the far edge, widened to one, can reach
\* further past the edge than a twentieth of the page.
UsableBoxIsDrawn ==
    stage = "refused" /\ KeepsUnits /\ page.w >= 10 =>
        \/ ~OnPage(Scaled(box, Units(box)))
        \/ LET b == Scaled(Hidden, Units(box))
           IN  2 * (b.x2 - b.x1) < Unit \/ 2 * (b.y2 - b.y1) < Unit

\* Coordinates that cannot be page units are never drawn as if they were:
\* nothing is clipped by more than a twentieth of the page.
LittleIsClipped ==
    stage = "drawn" /\ Units(region) = "page" =>
        /\ 20 * (region.x2 - page.w * Unit) <= page.w * Unit
        /\ 20 * (region.y2 - page.h * Unit) <= page.h * Unit

=============================================================================
