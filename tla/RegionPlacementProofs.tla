----------------------- MODULE RegionPlacementProofs -----------------------
(***************************************************************************)
(* Theorems about RegionPlacement for any boxes, any sizes of the page and *)
(* of the endpoint's rendering of it, any length of the field and any      *)
(* characters to hide, however fine the parts a unit is counted in.        *)
(***************************************************************************)
EXTENDS RegionPlacement, TLAPS

-----------------------------------------------------------------------------
(* Numbers.                                                                *)

(* What a division that rounds down leaves.                                *)
LEMMA DivBounds ==
  ASSUME NEW a \in Int, NEW d \in Nat \ {0}
  PROVE  /\ a \div d \in Int
         /\ (a \div d) * d <= a
         /\ a < (a \div d) * d + d
  BY SMTT(10)

LEMMA TimesMonotone ==
  ASSUME NEW a \in Int, NEW b \in Int, a <= b, NEW k \in Nat
  PROVE  a * k \in Int /\ b * k \in Int /\ a * k <= b * k
  BY SMTT(10)

LEMMA DivMonotone ==
  ASSUME NEW a \in Int, NEW b \in Int, a <= b, NEW d \in Nat \ {0}
  PROVE  a \div d \in Int /\ b \div d \in Int /\ a \div d <= b \div d
<1> DEFINE p == a \div d
           q == b \div d
<1>1. p \in Int /\ q \in Int /\ p * d <= a /\ b < q * d + d
  BY DivBounds
<1> HIDE DEF p, q
<1>2. ASSUME q + 1 <= p PROVE FALSE
  <2>1. (q + 1) * d <= p * d
    BY <1>1, <1>2, TimesMonotone
  <2>2. QED
    BY <1>1, <2>1
<1>3. p <= q
  BY <1>1, <1>2
<1>4. QED
  BY <1>1, <1>3 DEF p, q

(* Rounding to whole units goes outward.                                   *)
LEMMA FloorBelow ==
  ASSUME NEW c \in Int
  PROVE  /\ Floor(c) \in Int /\ Floor(c) <= c
         /\ 0 <= c => 0 <= Floor(c)
<1>1. /\ c \div Unit \in Int /\ (c \div Unit) * Unit <= c
  BY DivBounds, PlacementAssumption
<1>2. 0 <= c => 0 <= c \div Unit
  <2>1. 0 \div Unit = 0
    BY PlacementAssumption, SMTT(10)
  <2>2. QED
    BY <2>1, DivMonotone, PlacementAssumption
<1>3. 0 <= c \div Unit => 0 <= (c \div Unit) * Unit
  BY <1>1, PlacementAssumption, SMTT(10)
<1>4. QED
  BY <1>1, <1>2, <1>3, PlacementAssumption DEF Floor

LEMMA CeilAbove ==
  ASSUME NEW c \in Int
  PROVE  Ceil(c) \in Int /\ c <= Ceil(c)
<1>1. -c \in Int
  OBVIOUS
<1>2. Floor(-c) \in Int /\ Floor(-c) <= -c
  BY <1>1, FloorBelow
<1>3. QED
  BY <1>2 DEF Ceil

-----------------------------------------------------------------------------
(* Rectangles.                                                             *)

\* From its top left to its bottom right corner.
Rect(b) ==
    /\ b \in [x1 : Int, y1 : Int, x2 : Int, y2 : Int]
    /\ b.x1 <= b.x2 /\ b.y1 <= b.y2

Sized == page \in Sizes /\ api \in ApiSizes /\ span \in Spans

LEMMA PageIsSized ==
  ASSUME Sized
  PROVE  /\ page.w \in Nat \ {0} /\ page.h \in Nat \ {0}
         /\ page.w * Unit \in Nat /\ page.h * Unit \in Nat
         /\ Unit <= page.w * Unit /\ Unit <= page.h * Unit
         /\ Unit \in Nat \ {0}
<1>1. /\ page.w \in Nat \ {0} /\ page.h \in Nat \ {0} /\ Unit \in Nat \ {0}
  BY PlacementAssumption DEF Sized
<1>2. 1 * Unit <= page.w * Unit /\ 1 * Unit <= page.h * Unit
  BY <1>1, TimesMonotone
<1>3. page.w * Unit \in Int /\ page.h * Unit \in Int
  BY <1>1
<1>4. QED
  BY <1>1, <1>2, <1>3

(* A character boundary lies in its box, the later the further right.      *)
LEMMA BoundaryInBox ==
  ASSUME NEW b, Rect(b), NEW n \in Nat, NEW m \in Nat, n <= m, m <= Length,
         Length \in Nat \ {0}
  PROVE  /\ Boundary(b, n) \in Int /\ Boundary(b, m) \in Int
         /\ b.x1 <= Boundary(b, n) /\ Boundary(b, n) <= Boundary(b, m)
         /\ Boundary(b, m) <= b.x2
<1> DEFINE w == b.x2 - b.x1
<1>1. w \in Nat /\ b.x1 \in Int /\ b.x2 \in Int
  BY DEF Rect
<1>2. b.x2 = b.x1 + w
  BY <1>1
<1> HIDE DEF w
<1>3. /\ 0 <= n * w /\ n * w <= m * w /\ m * w <= Length * w
      /\ n * w \in Int /\ m * w \in Int /\ Length * w \in Int
  <2>1. 0 * w <= n * w
    BY <1>1, TimesMonotone
  <2>2. /\ n * w <= m * w /\ m * w <= Length * w
        /\ n * w \in Int /\ m * w \in Int /\ Length * w \in Int
    BY <1>1, TimesMonotone
  <2>3. QED
    BY <1>1, <2>1, <2>2
<1>4. w * n = n * w /\ w * m = m * w /\ w * Length = Length * w
  BY <1>1
<1>5. /\ 0 \div Length <= (w * n) \div Length
      /\ (w * n) \div Length <= (w * m) \div Length
      /\ (w * m) \div Length <= (w * Length) \div Length
      /\ (w * n) \div Length \in Int /\ (w * m) \div Length \in Int
  BY <1>3, <1>4, DivMonotone
<1>6. 0 \div Length = 0 /\ (w * Length) \div Length = w
  <2>1. 0 \div Length = 0
    BY SMTT(10)
  <2>2. (w * Length) \div Length = w
    BY <1>1, SMTT(10)
  <2>3. QED
    BY <2>1, <2>2
<1>7. /\ Boundary(b, n) = b.x1 + (w * n) \div Length
      /\ Boundary(b, m) = b.x1 + (w * m) \div Length
  BY DEF Boundary, w
<1>8. QED
  BY <1>1, <1>2, <1>5, <1>6, <1>7

(* A cut is a rectangle that holds what is to be hidden, and no more of a  *)
(* box in the unit square than the box has.                                *)
LEMMA CutHolds ==
  ASSUME NEW b, Rect(b), span \in Spans
  PROVE  LET h == [b EXCEPT !.x1 = Boundary(b, span.from),
                            !.x2 = Boundary(b, span.to)]
             c == Cut(b, span)
         IN  /\ Rect(h) /\ Rect(c) /\ Covers(b, h) /\ Covers(c, h)
             /\ b.x1 <= c.x1 /\ c.y1 = b.y1 /\ c.y2 = b.y2
             /\ IsNormalizedBox(b) => c = h
             /\ c.x2 <= h.x2 \/ c.x2 <= h.x1 + Unit
<1> DEFINE f == Boundary(b, span.from)
           t == Boundary(b, span.to)
<1>1. /\ span.from \in Nat /\ span.to \in Nat /\ span.from <= span.to
      /\ span.to <= Length /\ Length \in Nat \ {0} /\ Unit \in Nat \ {0}
  BY PlacementAssumption
<1>2. /\ f \in Int /\ t \in Int /\ b.x1 <= f /\ f <= t /\ t <= b.x2
  BY <1>1, BoundaryInBox
<1> HIDE DEF f, t
<1> DEFINE h == [b EXCEPT !.x1 = f, !.x2 = t]
           x == IF ~IsNormalizedBox(b) THEN Most(t, f + Unit) ELSE t
           c == [b EXCEPT !.x1 = f, !.x2 = x]
<1>3. /\ x \in Int /\ t <= x /\ (x = t \/ x = f + Unit)
      /\ IsNormalizedBox(b) => x = t
  BY <1>1, <1>2 DEF Most
<1> HIDE DEF x
<1>4. /\ h.x1 = f /\ h.x2 = t /\ h.y1 = b.y1 /\ h.y2 = b.y2
      /\ c.x1 = f /\ c.x2 = x /\ c.y1 = b.y1 /\ c.y2 = b.y2
      /\ h \in [x1 : Int, y1 : Int, x2 : Int, y2 : Int]
      /\ c \in [x1 : Int, y1 : Int, x2 : Int, y2 : Int]
      /\ x = t => c = h
  BY <1>2, <1>3 DEF Rect
<1>5. c = Cut(b, span)
  BY DEF Cut, f, t, x
<1> HIDE DEF h, c
<1>6. /\ Rect(h) /\ Rect(c) /\ Covers(b, h) /\ Covers(c, h)
      /\ b.x1 <= c.x1 /\ c.y1 = b.y1 /\ c.y2 = b.y2
      /\ IsNormalizedBox(b) => c = h
      /\ c.x2 <= h.x2 \/ c.x2 <= h.x1 + Unit
  BY <1>1, <1>2, <1>3, <1>4 DEF Rect, Covers
<1>7. QED
  BY <1>5, <1>6 DEF h, f, t

(* Scaling keeps a rectangle one, and what is in it.                       *)
LEMMA ScaledKeeps ==
  ASSUME Sized, NEW b, Rect(b), NEW i, Rect(i), Covers(b, i),
         NEW u \in {"normalized", "api", "page"}, u = "api" => api # NoSize
  PROVE  /\ Rect(Scaled(b, u)) /\ Rect(Scaled(i, u))
         /\ Covers(Scaled(b, u), Scaled(i, u))
<1>1. /\ page.w \in Nat \ {0} /\ page.h \in Nat \ {0}
      /\ api # NoSize => api.w \in Nat \ {0} /\ api.h \in Nat \ {0}
  BY PlacementAssumption DEF Sized
<1>2. /\ b.x1 \in Int /\ b.y1 \in Int /\ b.x2 \in Int /\ b.y2 \in Int
      /\ i.x1 \in Int /\ i.y1 \in Int /\ i.x2 \in Int /\ i.y2 \in Int
      /\ b.x1 <= i.x1 /\ i.x1 <= i.x2 /\ i.x2 <= b.x2 /\ b.x1 <= b.x2
      /\ b.y1 <= i.y1 /\ i.y1 <= i.y2 /\ i.y2 <= b.y2 /\ b.y1 <= b.y2
  BY DEF Rect, Covers
<1>3. /\ b.x1 * page.w \in Int /\ i.x1 * page.w \in Int
      /\ b.x2 * page.w \in Int /\ i.x2 * page.w \in Int
      /\ b.x1 * page.w <= i.x1 * page.w /\ i.x1 * page.w <= i.x2 * page.w
      /\ i.x2 * page.w <= b.x2 * page.w /\ b.x1 * page.w <= b.x2 * page.w
  BY <1>1, <1>2, TimesMonotone
<1>4. /\ b.y1 * page.h \in Int /\ i.y1 * page.h \in Int
      /\ b.y2 * page.h \in Int /\ i.y2 * page.h \in Int
      /\ b.y1 * page.h <= i.y1 * page.h /\ i.y1 * page.h <= i.y2 * page.h
      /\ i.y2 * page.h <= b.y2 * page.h /\ b.y1 * page.h <= b.y2 * page.h
  BY <1>1, <1>2, TimesMonotone
<1>5. CASE u = "normalized"
  BY <1>3, <1>4, <1>5 DEF Scaled, Rect, Covers
<1>6. CASE u = "api"
  <2>1. api.w \in Nat \ {0} /\ api.h \in Nat \ {0}
    BY <1>1, <1>6
  <2>2. /\ (b.x1 * page.w) \div api.w \in Int /\ (i.x1 * page.w) \div api.w \in Int
        /\ (b.x2 * page.w) \div api.w \in Int /\ (i.x2 * page.w) \div api.w \in Int
        /\ (b.x1 * page.w) \div api.w <= (i.x1 * page.w) \div api.w
        /\ (i.x1 * page.w) \div api.w <= (i.x2 * page.w) \div api.w
        /\ (i.x2 * page.w) \div api.w <= (b.x2 * page.w) \div api.w
        /\ (b.x1 * page.w) \div api.w <= (b.x2 * page.w) \div api.w
    BY <1>3, <2>1, DivMonotone
  <2>3. /\ (b.y1 * page.h) \div api.h \in Int /\ (i.y1 * page.h) \div api.h \in Int
        /\ (b.y2 * page.h) \div api.h \in Int /\ (i.y2 * page.h) \div api.h \in Int
        /\ (b.y1 * page.h) \div api.h <= (i.y1 * page.h) \div api.h
        /\ (i.y1 * page.h) \div api.h <= (i.y2 * page.h) \div api.h
        /\ (i.y2 * page.h) \div api.h <= (b.y2 * page.h) \div api.h
        /\ (b.y1 * page.h) \div api.h <= (b.y2 * page.h) \div api.h
    BY <1>4, <2>1, DivMonotone
  <2>4. QED
    BY <1>6, <2>2, <2>3 DEF Scaled, Rect, Covers
<1>7. CASE u = "page"
  BY <1>7 DEF Scaled
<1>8. QED
  BY <1>5, <1>6, <1>7

(* Clipping keeps what is in a rectangle in it, and all of it on the page. *)
LEMMA ClippedKeeps ==
  ASSUME Sized, NEW b, Rect(b), NEW i, Rect(i), Covers(b, i)
  PROVE  /\ Covers(Clipped(b), Clipped(i))
         /\ Clipped(b) \in [x1 : Int, y1 : Int, x2 : Int, y2 : Int]
         /\ 0 <= Clipped(b).x1 /\ Clipped(b).x2 <= page.w * Unit
         /\ 0 <= Clipped(b).y1 /\ Clipped(b).y2 <= page.h * Unit
<1>1. page.w * Unit \in Nat /\ page.h * Unit \in Nat
  BY PageIsSized
<1> DEFINE W == page.w * Unit
           H == page.h * Unit
<1>2. W \in Nat /\ H \in Nat
  BY <1>1
<1>3. Clipped(b) = [x1 |-> Most(b.x1, 0), y1 |-> Most(b.y1, 0),
                    x2 |-> Least(b.x2, W), y2 |-> Least(b.y2, H)]
  BY DEF Clipped
<1>4. Clipped(i) = [x1 |-> Most(i.x1, 0), y1 |-> Most(i.y1, 0),
                    x2 |-> Least(i.x2, W), y2 |-> Least(i.y2, H)]
  BY DEF Clipped
<1> HIDE DEF W, H
<1>5. /\ Covers(Clipped(b), Clipped(i))
      /\ Clipped(b) \in [x1 : Int, y1 : Int, x2 : Int, y2 : Int]
      /\ 0 <= Clipped(b).x1 /\ Clipped(b).x2 <= W
      /\ 0 <= Clipped(b).y1 /\ Clipped(b).y2 <= H
  BY <1>2, <1>3, <1>4 DEF Rect, Covers, Most, Least
<1>6. QED
  BY <1>5 DEF W, H

(* What is not too thin is ordered.                                        *)
LEMMA ThickEnough ==
  ASSUME NEW b \in [x1 : Int, y1 : Int, x2 : Int, y2 : Int], ~TooThin(b)
  PROVE  Rect(b) /\ 2 * (b.x2 - b.x1) >= Unit /\ 2 * (b.y2 - b.y1) >= Unit
<1>1. Unit \div 2 \in Nat /\ 2 * (Unit \div 2) = Unit
  BY PlacementAssumption, SMTT(10)
<1>2. /\ b.x1 \in Int /\ b.y1 \in Int /\ b.x2 \in Int /\ b.y2 \in Int
      /\ ~(b.x2 - b.x1 < Unit \div 2) /\ ~(b.y2 - b.y1 < Unit \div 2)
  BY DEF TooThin
<1> DEFINE h == Unit \div 2
<1>3. /\ h \in Nat /\ 2 * h = Unit /\ Unit \in Nat
      /\ ~(b.x2 - b.x1 < h) /\ ~(b.y2 - b.y1 < h)
  BY <1>1, <1>2, PlacementAssumption
<1> HIDE DEF h
<1>4. QED
  BY <1>2, <1>3 DEF Rect

(* Widening takes nothing away, stays on the page and makes it show.       *)
LEMMA WidenedKeeps ==
  ASSUME Sized, NEW b, Rect(b), 0 <= b.x1, 0 <= b.y1,
         b.x2 <= page.w * Unit, b.y2 <= page.h * Unit
  PROVE  LET p == Widened(b)
         IN  /\ Rect(p) /\ Covers(p, b) /\ 0 <= p.x1 /\ 0 <= p.y1
             /\ p.x2 <= page.w * Unit /\ p.y2 <= page.h * Unit
             /\ p.x1 + Unit <= p.x2 /\ p.y1 + Unit <= p.y2
<1> DEFINE W == page.w * Unit
           H == page.h * Unit
<1>1. /\ W \in Nat /\ H \in Nat /\ Unit <= W /\ Unit <= H
      /\ Unit \in Nat \ {0} /\ b.x2 <= W /\ b.y2 <= H
  BY PageIsSized
<1> DEFINE right == IF b.x2 - b.x1 < Unit THEN Least(b.x1 + Unit, W) ELSE b.x2
           bottom == IF b.y2 - b.y1 < Unit THEN Least(b.y1 + Unit, H) ELSE b.y2
           left == IF b.x2 - b.x1 < Unit THEN right - Unit ELSE b.x1
           top == IF b.y2 - b.y1 < Unit THEN bottom - Unit ELSE b.y1
<1>2. Widened(b) = [x1 |-> left, y1 |-> top, x2 |-> right, y2 |-> bottom]
  BY DEF Widened
<1> HIDE DEF W, H
<1>3. /\ b.x1 \in Int /\ b.y1 \in Int /\ b.x2 \in Int /\ b.y2 \in Int
      /\ b.x1 <= b.x2 /\ b.y1 <= b.y2
  BY DEF Rect
<1>4. /\ left \in Int /\ right \in Int /\ left <= b.x1 /\ b.x2 <= right
      /\ 0 <= left /\ right <= W /\ left + Unit <= right
  BY <1>1, <1>3 DEF Least
<1>5. /\ top \in Int /\ bottom \in Int /\ top <= b.y1 /\ b.y2 <= bottom
      /\ 0 <= top /\ bottom <= H /\ top + Unit <= bottom
  BY <1>1, <1>3 DEF Least
<1> HIDE DEF left, right, top, bottom
<1>6. LET p == Widened(b)
      IN  /\ Rect(p) /\ Covers(p, b) /\ 0 <= p.x1 /\ 0 <= p.y1
          /\ p.x2 <= W /\ p.y2 <= H
          /\ p.x1 + Unit <= p.x2 /\ p.y1 + Unit <= p.y2
  BY <1>1, <1>2, <1>3, <1>4, <1>5 DEF Rect, Covers
<1>7. QED
  BY <1>6 DEF W, H

(* Drawing goes outward, to the right and to the bottom at least.          *)
LEMMA DrawnKeeps ==
  ASSUME NEW b, Rect(b), 0 <= b.x1, 0 <= b.y1,
         NEW d \in {Pixels(b), Stamp(b)}
  PROVE  Rect(d) /\ Covers(d, b) /\ 0 <= d.x1 /\ 0 <= d.y1
<1>1. /\ b.x1 \in Int /\ b.y1 \in Int /\ b.x2 \in Int /\ b.y2 \in Int
      /\ b.x2 - b.x1 \in Int /\ b.y2 - b.y1 \in Int
      /\ b.x1 <= b.x2 /\ b.y1 <= b.y2
  BY DEF Rect
<1>2. CASE d = Pixels(b)
  <2>1. /\ Floor(b.x1) \in Int /\ Floor(b.x1) <= b.x1 /\ 0 <= Floor(b.x1)
        /\ Floor(b.y1) \in Int /\ Floor(b.y1) <= b.y1 /\ 0 <= Floor(b.y1)
    BY <1>1, FloorBelow
  <2>2. /\ Ceil(b.x2) \in Int /\ b.x2 <= Ceil(b.x2)
        /\ Ceil(b.y2) \in Int /\ b.y2 <= Ceil(b.y2)
    BY <1>1, CeilAbove
  <2>3. QED
    BY <1>1, <1>2, <2>1, <2>2 DEF Pixels, Rect, Covers
<1>3. CASE d = Stamp(b)
  <2>1. /\ Ceil(b.x2 - b.x1) \in Int /\ b.x2 - b.x1 <= Ceil(b.x2 - b.x1)
        /\ Ceil(b.y2 - b.y1) \in Int /\ b.y2 - b.y1 <= Ceil(b.y2 - b.y1)
    BY <1>1, CeilAbove
  <2>2. QED
    BY <1>1, <1>3, <2>1 DEF Stamp, Rect, Covers
<1>4. QED
  BY <1>2, <1>3

-----------------------------------------------------------------------------
(* The inductive invariant.                                                *)

\* At every stage: what the next one will read is what the stage before it
\* left, and nothing refused is placed.
Staged ==
    /\ stage # "cut" => region \in {box, Cut(box, span)}
    /\ stage \in {"draw", "drawn"} =>
          /\ ~Refused(region)
          /\ placed = Widened(Clipped(Scaled(region, Units(region))))
    /\ stage = "drawn" => drawn \in {Pixels(placed), Stamp(placed)}
    /\ stage = "refused" => Refused(region)

PlacementInv == TypeOK /\ Staged

LEMMA UnitsOfBox ==
  ASSUME NEW b
  PROVE  /\ Units(b) \in {"normalized", "api", "page"}
         /\ Units(b) = "api" => api # NoSize
  BY DEF Units

(* What has been clipped and not refused is a rectangle on the page, and   *)
(* so is what is placed, which covers it and shows.                        *)
LEMMA PlacedShows ==
  ASSUME Sized, Rect(region), ~Refused(region)
  PROVE  LET c == Clipped(Scaled(region, Units(region)))
             p == Widened(c)
         IN  /\ Rect(p) /\ Covers(p, c) /\ 0 <= p.x1 /\ 0 <= p.y1
             /\ p.x2 <= page.w * Unit /\ p.y2 <= page.h * Unit
             /\ p.x1 + Unit <= p.x2 /\ p.y1 + Unit <= p.y2
<1> DEFINE b == Scaled(region, Units(region))
           c == Clipped(b)
<1>1. Rect(b) /\ Covers(b, b)
  <2>1. Covers(region, region)
    BY DEF Rect, Covers
  <2>2. QED
    BY <2>1, ScaledKeeps, UnitsOfBox
<1>2. ~TooThin(c)
  BY DEF Refused
<1> HIDE DEF b
<1>3. /\ c \in [x1 : Int, y1 : Int, x2 : Int, y2 : Int]
      /\ 0 <= c.x1 /\ c.x2 <= page.w * Unit
      /\ 0 <= c.y1 /\ c.y2 <= page.h * Unit
  BY <1>1, ClippedKeeps
<1> HIDE DEF c
<1>4. Rect(c)
  BY <1>2, <1>3, ThickEnough
<1>5. LET p == Widened(c)
      IN  /\ Rect(p) /\ Covers(p, c) /\ 0 <= p.x1 /\ 0 <= p.y1
          /\ p.x2 <= page.w * Unit /\ p.y2 <= page.h * Unit
          /\ p.x1 + Unit <= p.x2 /\ p.y1 + Unit <= p.y2
  BY <1>3, <1>4, WidenedKeeps
<1>6. QED
  BY <1>5 DEF b, c

(* The types, with the name the lemmas give them. *)
LEMMA Typed ==
  TypeOK <=> /\ stage \in Stage /\ Sized
             /\ Rect(box) /\ Rect(region) /\ Rect(placed) /\ Rect(drawn)
  BY DEF TypeOK, Sized, Rect

LEMMA PlacementInit == Init => PlacementInv
<1> SUFFICES ASSUME Init PROVE PlacementInv
  OBVIOUS
<1>1. Rect(NoBox)
  BY DEF Rect, NoBox
<1>2. Rect(box)
  BY PlacementAssumption DEF Init, Rect
<1>3. TypeOK
  BY <1>1, <1>2, Typed DEF Init, Sized, Stage
<1>4. QED
  BY <1>3 DEF Init, Staged, PlacementInv

LEMMA PlacementStep == PlacementInv /\ [Next]_vars => PlacementInv'
<1> SUFFICES ASSUME PlacementInv, [Next]_vars PROVE PlacementInv'
  OBVIOUS
<1>1. /\ stage \in Stage /\ Sized /\ Rect(box) /\ Rect(region)
      /\ Rect(placed) /\ Rect(drawn)
  BY Typed DEF PlacementInv
<1>2. CASE CutOne
  <2>1. Rect(Cut(box, span))
    BY <1>1, CutHolds DEF Sized
  <2>2. TypeOK'
    BY <1>1, <1>2, <2>1 DEF CutOne, TypeOK, Sized, Rect, Stage
  <2>3. QED
    BY <1>2, <2>2 DEF CutOne, PlacementInv, Staged
<1>3. CASE CoverWhole
  <2>1. TypeOK'
    BY <1>1, <1>3 DEF CoverWhole, TypeOK, Sized, Rect, Stage
  <2>2. QED
    BY <1>3, <2>1 DEF CoverWhole, PlacementInv, Staged
<1>4. CASE PlaceFails
  <2>1. TypeOK'
    BY <1>1, <1>4 DEF PlaceFails, TypeOK, Sized, Rect, Stage
  <2>2. Refused(region)' = Refused(region)
    BY <1>4 DEF PlaceFails, Refused, Overflows, TooThin, Clipped, Scaled, Units
  <2>3. QED
    BY <1>4, <2>1, <2>2 DEF PlaceFails, PlacementInv, Staged
<1>5. CASE Place
  <2>1. Rect(placed')
    BY <1>1, <1>5, PlacedShows DEF Place
  <2>2. TypeOK'
    BY <1>1, <1>5, <2>1 DEF Place, TypeOK, Sized, Rect, Stage
  <2>3. /\ ~Refused(region)'
        /\ placed' = Widened(Clipped(Scaled(region, Units(region))))'
    BY <1>5
       DEF Place, Refused, Overflows, TooThin, Widened, Clipped, Scaled, Units
  <2>4. QED
    BY <1>5, <2>2, <2>3 DEF Place, PlacementInv, Staged
<1>6. CASE DrawImage \/ DrawPDF
  <2>1. /\ stage = "draw" /\ stage' = "drawn"
        /\ UNCHANGED <<box, page, api, span, region, placed>>
        /\ drawn' \in {Pixels(placed), Stamp(placed)}
    BY <1>6 DEF DrawImage, DrawPDF
  <2>2. 0 <= placed.x1 /\ 0 <= placed.y1
    BY <1>1, <2>1, PlacedShows DEF PlacementInv, Staged
  <2>3. Rect(drawn')
    BY <1>1, <2>1, <2>2, DrawnKeeps
  <2>4. TypeOK'
    BY <1>1, <2>1, <2>3 DEF TypeOK, Sized, Rect, Stage
  <2>5. /\ Refused(region)' = Refused(region)
        /\ Widened(Clipped(Scaled(region, Units(region))))'
             = Widened(Clipped(Scaled(region, Units(region))))
    BY <2>1
       DEF Refused, Overflows, TooThin, Widened, Clipped, Scaled, Units
  <2>6. drawn' \in {Pixels(placed), Stamp(placed)}'
    BY <2>1 DEF Pixels, Stamp
  <2>7. QED
    BY <2>1, <2>4, <2>5, <2>6 DEF PlacementInv, Staged
<1>7. CASE UNCHANGED vars
  BY <1>7
     DEF vars, PlacementInv, TypeOK, Staged, Refused, Overflows, TooThin,
         Widened, Clipped, Scaled, Units, Pixels, Stamp
<1>8. QED
  BY <1>2, <1>3, <1>4, <1>5, <1>6, <1>7 DEF Next

LEMMA PlacementHolds == Spec => []PlacementInv
  BY PlacementInit, PlacementStep, PTL DEF Spec

\* Every rectangle runs from its top left to its bottom right corner at every
\* stage: no cut, scale, clip or rounding turns one inside out (placeRegion).
THEOREM RectanglesStayOrdered == Spec => []TypeOK
  BY PlacementHolds, PTL DEF PlacementInv

-----------------------------------------------------------------------------
(* What is drawn.                                                          *)

(* A mask that is drawn can be seen: placeRegion refuses what is off the   *)
(* page and widens a hairline (minPlacedSize, MaskImageFile, the stamp).   *)
THEOREM MasksShow == Spec => []DrawnShows
<1>1. PlacementInv => DrawnShows
  <2> SUFFICES ASSUME PlacementInv, stage = "drawn"
               PROVE  /\ 0 <= drawn.x1 /\ drawn.x1 + Unit <= drawn.x2
                      /\ drawn.x1 < page.w * Unit
                      /\ 0 <= drawn.y1 /\ drawn.y1 + Unit <= drawn.y2
                      /\ drawn.y1 < page.h * Unit
    BY DEF DrawnShows
  <2>1. /\ Sized /\ Rect(region) /\ Rect(placed) /\ ~Refused(region)
        /\ placed = Widened(Clipped(Scaled(region, Units(region))))
        /\ drawn \in {Pixels(placed), Stamp(placed)}
    BY Typed DEF PlacementInv, Staged
  <2>2. /\ 0 <= placed.x1 /\ 0 <= placed.y1
        /\ placed.x2 <= page.w * Unit /\ placed.y2 <= page.h * Unit
        /\ placed.x1 + Unit <= placed.x2 /\ placed.y1 + Unit <= placed.y2
    BY <2>1, PlacedShows
  <2>3. Rect(drawn) /\ Covers(drawn, placed) /\ 0 <= drawn.x1 /\ 0 <= drawn.y1
    BY <2>1, <2>2, DrawnKeeps
  <2>4. /\ page.w * Unit \in Nat /\ page.h * Unit \in Nat /\ Unit \in Nat \ {0}
    BY <2>1, PageIsSized
  <2>5. QED
    BY <2>1, <2>2, <2>3, <2>4 DEF Rect, Covers
<1>2. QED
  BY <1>1, PlacementHolds, PTL

(* Coordinates that cannot be units of the page are never drawn as if they *)
(* were, whatever the size of the page (overflowTolerance).                *)
THEOREM LooseBoxesOnly == Spec => []LittleIsClipped
<1>1. PlacementInv => LittleIsClipped
  <2> SUFFICES ASSUME PlacementInv, stage = "drawn", Units(region) = "page"
               PROVE  /\ 20 * (region.x2 - page.w * Unit) <= page.w * Unit
                      /\ 20 * (region.y2 - page.h * Unit) <= page.h * Unit
    BY DEF LittleIsClipped
  <2>1. /\ Sized /\ Rect(region) /\ ~Overflows(region)
    BY Typed DEF PlacementInv, Staged, Refused
  <2>2. /\ page.w \in Nat /\ page.h \in Nat /\ Unit \in Nat
        /\ page.w * Unit \in Nat /\ page.h * Unit \in Nat
        /\ region.x2 \in Int /\ region.y2 \in Int
    BY <2>1, PageIsSized DEF Rect
  <2>3. /\ ~(20 * region.x2 > 21 * page.w * Unit)
        /\ ~(20 * region.y2 > 21 * page.h * Unit)
    BY <2>1 DEF Overflows
  <2>4. /\ 21 * page.w * Unit = 21 * (page.w * Unit)
        /\ 21 * page.h * Unit = 21 * (page.h * Unit)
    BY <2>2
  <2>5. QED
    BY <2>2, <2>3, <2>4
<1>2. QED
  BY <1>1, PlacementHolds, PTL

(* The region that was cut holds what is to be hidden, and a cut leaves the *)
(* unit square only where nothing is left of the box to be drawn.          *)
LEMMA RegionHolds ==
  ASSUME PlacementInv, stage # "cut"
  PROVE  /\ Rect(Hidden) /\ Covers(box, Hidden) /\ Covers(region, Hidden)
         /\ region.x2 <= box.x2 \/ region.x2 <= Hidden.x1 + Unit
         /\ region.y1 = box.y1 /\ region.y2 = box.y2
         /\ IsNormalizedBox(box) => region = box \/ region = Hidden
<1>1. Rect(box) /\ span \in Spans /\ region \in {box, Cut(box, span)}
  BY Typed DEF PlacementInv, Sized, Staged
<1> DEFINE c == Cut(box, span)
<1>2. /\ Rect(Hidden) /\ Rect(c) /\ Covers(box, Hidden) /\ Covers(c, Hidden)
      /\ c.y1 = box.y1 /\ c.y2 = box.y2
      /\ IsNormalizedBox(box) => c = Hidden
      /\ c.x2 <= Hidden.x2 \/ c.x2 <= Hidden.x1 + Unit
  BY <1>1, CutHolds DEF Hidden
<1> HIDE DEF c
<1>3. c.x2 <= box.x2 \/ c.x2 <= Hidden.x1 + Unit
  BY <1>1, <1>2 DEF Rect, Covers
<1>4. CASE region = box
  BY <1>1, <1>2, <1>4 DEF Rect
<1>5. CASE region = c
  BY <1>2, <1>3, <1>5
<1>6. QED
  BY <1>1, <1>4, <1>5 DEF c

LEMMA NormalizedKeepsUnits ==
  ASSUME PlacementInv, stage = "drawn", IsNormalizedBox(box)
  PROVE  KeepsUnits
<1> SUFFICES ASSUME ~KeepsUnits PROVE FALSE
  OBVIOUS
<1>1. /\ Sized /\ Rect(box) /\ Rect(region) /\ ~Refused(region)
  BY Typed DEF PlacementInv, Staged
<1>2. /\ Rect(Hidden) /\ Covers(box, Hidden)
      /\ region = box \/ region = Hidden
      /\ region.y1 = box.y1 /\ region.y2 = box.y2
  BY RegionHolds
<1>3. ~IsNormalizedBox(region)
  BY DEF KeepsUnits, Units
<1>4. region.y1 = 0 /\ region.y2 = 0
  BY <1>1, <1>2, <1>3, PlacementAssumption DEF IsNormalizedBox, Rect, Covers
<1> DEFINE b == Scaled(region, Units(region))
           c == Clipped(b)
<1>5. b.y1 = b.y2
  <2>1. Units(region) \in {"api", "page"}
    BY <1>3 DEF Units
  <2>2. QED
    BY <1>4, <2>1 DEF Scaled
<1>6. Rect(b) /\ Covers(b, b)
  <2>1. Covers(region, region)
    BY <1>1 DEF Rect, Covers
  <2>2. QED
    BY <1>1, <2>1, ScaledKeeps, UnitsOfBox
<1>7. ~TooThin(c)
  BY <1>1 DEF Refused
<1> HIDE DEF b
<1>8. /\ c \in [x1 : Int, y1 : Int, x2 : Int, y2 : Int]
      /\ c.y1 = Most(b.y1, 0) /\ c.y2 = Least(b.y2, page.h * Unit)
  BY <1>1, <1>6, ClippedKeeps DEF Clipped
<1> HIDE DEF c
<1>9. /\ 2 * (c.y2 - c.y1) >= Unit /\ Unit \in Nat \ {0}
      /\ page.h * Unit \in Nat /\ c.y1 \in Int /\ c.y2 \in Int
      /\ b.y1 \in Int /\ b.y2 \in Int
  BY <1>1, <1>6, <1>7, <1>8, ThickEnough, PageIsSized DEF Rect
<1>10. QED
  BY <1>5, <1>8, <1>9 DEF Most, Least

(* What had to be hidden is under what comes out black, in whatever units  *)
(* the endpoint answered (buildSubRegionsFromBBox, placeRegion and the two *)
(* ways to draw).                                                          *)
THEOREM HiddenPartsAreCovered == Spec => []HiddenIsCovered
<1>1. PlacementInv => HiddenIsCovered
  <2> SUFFICES ASSUME PlacementInv, stage = "drawn",
                      KeepsUnits \/ IsNormalizedBox(box)
               PROVE  Covers(drawn, Clipped(Scaled(Hidden, Units(box))))
    BY DEF HiddenIsCovered
  <2> DEFINE u == Units(box)
             b == Scaled(region, u)
             i == Scaled(Hidden, u)
  <2>1. Units(region) = u
    BY NormalizedKeepsUnits DEF KeepsUnits
  <2>2. /\ Sized /\ Rect(region) /\ ~Refused(region)
        /\ placed = Widened(Clipped(b))
        /\ drawn \in {Pixels(placed), Stamp(placed)}
    BY <2>1, Typed DEF PlacementInv, Staged
  <2>3. Rect(Hidden) /\ Covers(region, Hidden)
    BY RegionHolds
  <2>4. /\ u \in {"normalized", "api", "page"}
        /\ u = "api" => api # NoSize
    BY UnitsOfBox
  <2>5. Rect(placed) /\ Covers(placed, Clipped(b)) /\ 0 <= placed.x1 /\ 0 <= placed.y1
    BY <2>1, <2>2, PlacedShows
  <2> HIDE DEF u
  <2>6. Rect(b) /\ Rect(i) /\ Covers(b, i) /\ Covers(i, i)
    <3>1. Rect(b) /\ Rect(i) /\ Covers(b, i)
      BY <2>2, <2>3, <2>4, ScaledKeeps
    <3> HIDE DEF b, i
    <3>2. QED
      BY <3>1 DEF Rect, Covers
  <2> HIDE DEF b, i
  <2>7. /\ Covers(Clipped(b), Clipped(i))
        /\ Clipped(b) \in [x1 : Int, y1 : Int, x2 : Int, y2 : Int]
        /\ Clipped(i) \in [x1 : Int, y1 : Int, x2 : Int, y2 : Int]
    BY <2>2, <2>6, ClippedKeeps
  <2>8. Rect(drawn) /\ Covers(drawn, placed)
    BY <2>2, <2>5, DrawnKeeps
  <2>9. Covers(drawn, Clipped(i))
    BY <2>5, <2>7, <2>8 DEF Rect, Covers
  <2>10. QED
    BY <2>9 DEF i, u
<1>2. QED
  BY <1>1, PlacementHolds, PTL

(* Failing closed never refuses a box that is on the page and thick enough *)
(* to see, on any page of ten units or more (placeRegion).                 *)
THEOREM UsableBoxesAreDrawn == Spec => []UsableBoxIsDrawn
<1>1. PlacementInv => UsableBoxIsDrawn
  <2> DEFINE u == Units(box)
             o == Scaled(box, u)
             s == Scaled(region, u)
             i == Scaled(Hidden, u)
  <2> SUFFICES ASSUME PlacementInv, stage = "refused", KeepsUnits, page.w >= 10,
                      OnPage(o), ~(2 * (i.x2 - i.x1) < Unit),
                      ~(2 * (i.y2 - i.y1) < Unit)
               PROVE  FALSE
    BY DEF UsableBoxIsDrawn
  <2>1. /\ Sized /\ Rect(box) /\ Rect(region) /\ Units(region) = u
        /\ Overflows(region) \/ TooThin(Clipped(s))
    BY Typed DEF PlacementInv, Staged, Refused, KeepsUnits
  <2>2. /\ Rect(Hidden) /\ Covers(box, Hidden) /\ Covers(region, Hidden)
        /\ region.x2 <= box.x2 \/ region.x2 <= Hidden.x1 + Unit
        /\ region.y2 = box.y2
    BY RegionHolds
  <2>3. /\ page.w * Unit \in Nat /\ page.h * Unit \in Nat
        /\ Unit \in Nat \ {0} /\ page.w \in Nat /\ page.h \in Nat
    BY <2>1, PageIsSized
  <2>4. ~Overflows(region)
    <3> SUFFICES ASSUME Overflows(region) PROVE FALSE
      OBVIOUS
    <3>1. u = "page"
      BY <2>1 DEF Overflows
    <3>2. /\ box.x2 <= page.w * Unit /\ box.y2 <= page.h * Unit
          /\ ~(2 * (Hidden.x2 - Hidden.x1) < Unit)
      BY <3>1 DEF Scaled, OnPage, Covers
    <3>3. 10 * Unit <= page.w * Unit
      BY <2>3, TimesMonotone
    <3>4. /\ 21 * page.w * Unit = 21 * (page.w * Unit)
          /\ 21 * page.h * Unit = 21 * (page.h * Unit)
      BY <2>3
    <3>5. \/ 20 * region.x2 > 21 * (page.w * Unit)
          \/ 20 * region.y2 > 21 * (page.h * Unit)
      BY <3>4 DEF Overflows
    <3> DEFINE W == page.w * Unit
               H == page.h * Unit
    <3>6. /\ W \in Nat /\ H \in Nat /\ box.x2 <= W /\ box.y2 <= H /\ 10 * Unit <= W
          /\ 20 * region.x2 > 21 * W \/ 20 * region.y2 > 21 * H
      BY <2>3, <3>2, <3>3, <3>5
    <3> HIDE DEF W, H
    <3>7. QED
      BY <2>1, <2>2, <2>3, <3>2, <3>6 DEF Rect, Covers
  <2>5. /\ u \in {"normalized", "api", "page"}
        /\ u = "api" => api # NoSize
    BY UnitsOfBox
  <2> HIDE DEF u
  <2>6. /\ Rect(o) /\ Rect(s) /\ Rect(i) /\ Covers(o, i) /\ Covers(s, i)
    BY <2>1, <2>2, <2>5, ScaledKeeps
  <2> HIDE DEF o, s, i
  <2>7. /\ Clipped(s).x1 = Most(s.x1, 0) /\ Clipped(s).y1 = Most(s.y1, 0)
        /\ Clipped(s).x2 = Least(s.x2, page.w * Unit)
        /\ Clipped(s).y2 = Least(s.y2, page.h * Unit)
    BY DEF Clipped
  <2>8. /\ 0 <= o.x1 /\ 0 <= o.y1
        /\ o.x2 <= page.w * Unit /\ o.y2 <= page.h * Unit
    BY DEF OnPage, Covers
  <2>9. /\ Clipped(s).x1 <= i.x1 /\ i.x2 <= Clipped(s).x2
        /\ Clipped(s).y1 <= i.y1 /\ i.y2 <= Clipped(s).y2
        /\ Clipped(s).x1 \in Int /\ Clipped(s).x2 \in Int
        /\ Clipped(s).y1 \in Int /\ Clipped(s).y2 \in Int
    BY <2>3, <2>6, <2>7, <2>8 DEF Rect, Covers, Most, Least
  <2>10. Unit \div 2 \in Nat /\ 2 * (Unit \div 2) = Unit
    BY PlacementAssumption, SMTT(10)
  <2> DEFINE h == Unit \div 2
  <2>11. /\ h \in Nat /\ 2 * h = Unit
         /\ \/ Clipped(s).x2 - Clipped(s).x1 < h
            \/ Clipped(s).y2 - Clipped(s).y1 < h
    BY <2>1, <2>4, <2>10 DEF TooThin
  <2> HIDE DEF h
  <2>12. QED
    BY <2>3, <2>6, <2>9, <2>11 DEF Rect
<1>2. QED
  BY <1>1, PlacementHolds, PTL

=============================================================================
