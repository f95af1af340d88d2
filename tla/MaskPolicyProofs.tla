-------------------------- MODULE MaskPolicyProofs --------------------------
(* Proofs about MaskPolicy for values of any length: the scan finds what   *)
(* is hidden, every rule hides characters without moving any, and none     *)
(* leaves more to be read than it promises.                                *)
EXTENDS MaskPolicy, FiniteSetTheorems, TLAPS

(* What one more run adds to what is covered.                              *)
LEMMA CoveredAppend ==
  ASSUME NEW runs \in Seq([from : Int, to : Int]), NEW a \in Int, NEW b \in Int
  PROVE  Covered(Append(runs, [from |-> a, to |-> b]))
            = Covered(runs) \cup (a .. b - 1)
<1> DEFINE more == Append(runs, [from |-> a, to |-> b])
           n == Len(runs)
<1>1. /\ n \in Nat /\ DOMAIN runs = 1 .. n /\ DOMAIN more = 1 .. n + 1
      /\ \A k \in 1 .. n : more[k] = runs[k]
      /\ more[n + 1] = [from |-> a, to |-> b]
  OBVIOUS
<1> HIDE DEF more, n
<1>2. ASSUME NEW x
      PROVE  x \in Covered(more) <=> x \in Covered(runs) \/ x \in a .. b - 1
  <2>1. x \in Covered(more) <=>
           \E k \in 1 .. n + 1 : x \in more[k].from .. more[k].to - 1
    BY <1>1 DEF Covered
  <2>2. x \in Covered(runs) <=>
           \E k \in 1 .. n : x \in runs[k].from .. runs[k].to - 1
    BY <1>1 DEF Covered
  <2>3. 1 .. n + 1 = (1 .. n) \cup {n + 1}
    BY <1>1
  <2>4. QED
    BY <1>1, <2>1, <2>2, <2>3
<1>3. QED
  BY <1>2 DEF more

-----------------------------------------------------------------------------
(* The induction.                                                          *)

\* The runs found lie in order before this position, with a gap after each.
Edge == IF start = -1 THEN index ELSE start

InOrder(runs, edge) ==
    /\ runs \in Seq([from : Int, to : Int])
    /\ \A k \in DOMAIN runs : runs[k].from < runs[k].to /\ runs[k].to < edge
    /\ \A k \in 2 .. Len(runs) : runs[k - 1].to < runs[k].from

\* The runs found and the run the scan is in are the hidden positions it has
\* passed.
ScanInv ==
    /\ index \in 0 .. Len(Value)
    /\ start = -1 \/ start \in 0 .. index - 1
    /\ InOrder(spans, Edge)
    /\ Covered(spans) \cup (Edge .. index - 1)
          = {n \in 0 .. index - 1 : Hidden(n)}

IInv ==
    /\ Len(Value) \in Nat
    /\ stage \in Stage
    /\ stage = "mask" => index = 0 /\ start = -1 /\ spans = <<>>
    /\ stage = "scan" => ScanInv
    /\ SpansAreTheHidden

(* The ends of a run are numbers.                                          *)
LEMMA RunEnds ==
  ASSUME NEW runs \in Seq([from : Int, to : Int]), NEW k \in DOMAIN runs
  PROVE  runs[k].from \in Int /\ runs[k].to \in Int
<1>1. ASSUME NEW S, runs \in Seq(S) PROVE runs[k] \in S
  BY <1>1
<1>2. QED
  BY <1>1

(* A run that is closed before the edge moves past it.                     *)
LEMMA OneMoreRun ==
  ASSUME NEW runs, NEW a \in Int, NEW b \in Int, NEW edge \in Int,
         InOrder(runs, a), a < b, b < edge
  PROVE  InOrder(Append(runs, [from |-> a, to |-> b]), edge)
<1> DEFINE more == Append(runs, [from |-> a, to |-> b])
           n == Len(runs)
<1>0. runs \in Seq([from : Int, to : Int])
  BY DEF InOrder
<1>1. /\ n \in Nat /\ DOMAIN runs = 1 .. n
      /\ more \in Seq([from : Int, to : Int])
      /\ DOMAIN more = 1 .. n + 1 /\ Len(more) = n + 1
      /\ \A k \in 1 .. n : more[k] = runs[k]
      /\ more[n + 1] = [from |-> a, to |-> b]
  BY <1>0
<1>2. \A k \in 1 .. n : runs[k].from \in Int /\ runs[k].to \in Int
  BY <1>0, <1>1, RunEnds
<1> HIDE DEF more, n
<1>3. ASSUME NEW k \in DOMAIN more
      PROVE  more[k].from < more[k].to /\ more[k].to < edge
  <2>1. CASE k \in 1 .. n
    BY <1>1, <1>2, <2>1 DEF InOrder
  <2>2. CASE k = n + 1
    BY <1>1, <2>2
  <2>3. QED
    BY <1>1, <2>1, <2>2
<1>4. ASSUME NEW k \in 2 .. Len(more)
      PROVE  more[k - 1].to < more[k].from
  <2>1. k - 1 \in 1 .. n /\ more[k - 1] = runs[k - 1]
    BY <1>1
  <2>2. CASE k \in 2 .. n
    <3>1. more[k] = runs[k]
      BY <1>1, <2>2
    <3>2. QED
      BY <2>1, <2>2, <3>1 DEF InOrder, n
  <2>3. CASE k = n + 1
    BY <1>1, <2>1, <2>3 DEF InOrder
  <2>4. QED
    BY <1>1, <2>2, <2>3
<1>5. QED
  BY <1>1, <1>3, <1>4 DEF InOrder, more

LEMMA InitInv == Init => IInv
<1> SUFFICES ASSUME Init PROVE IInv
  OBVIOUS
<1>1. input.value \in Seq(Rune)
  BY PolicyAssumption DEF Init
<1>2. QED
  BY <1>1 DEF Init, IInv, Value, Stage, SpansAreTheHidden

LEMMA MaskInv == IInv /\ Mask => IInv'
<1> SUFFICES ASSUME IInv, Mask PROVE IInv'
  OBVIOUS
<1>1. /\ stage' = "scan" /\ index' = 0 /\ start' = -1 /\ spans' = <<>>
      /\ Value' = Value /\ Len(Value) \in Nat
  BY DEF IInv, Mask, Value
<1>2. Covered(<<>>) = {}
  BY DEF Covered
<1>3. InOrder(<<>>, 0)
  BY DEF InOrder
<1>4. Edge' = 0
  BY <1>1 DEF Edge
<1>5. ScanInv'
  BY <1>1, <1>2, <1>3, <1>4 DEF ScanInv
<1>6. QED
  BY <1>1, <1>5 DEF IInv, Stage, SpansAreTheHidden

LEMMA ScanRuneInv == IInv /\ ScanRune => IInv'
<1> SUFFICES ASSUME IInv, ScanRune PROVE IInv'
  OBVIOUS
<1>1. /\ stage = "scan" /\ stage' = stage /\ ScanInv
      /\ Value' = Value /\ Len(Value) \in Nat /\ masked' = masked
      /\ index \in 0 .. Len(Value) - 1 /\ index' = index + 1
  BY DEF IInv, ScanRune, Value, ScanInv
<1>2. \A n : Hidden(n)' <=> Hidden(n)
  BY <1>1 DEF Hidden
<1> DEFINE seen == {n \in 0 .. index - 1 : Hidden(n)}
<1>3. {n \in 0 .. index' - 1 : Hidden(n)'}
         = IF Hidden(index) THEN seen \cup {index} ELSE seen
  BY <1>1, <1>2
<1>4. InOrder(spans, Edge) /\ Covered(spans) \cup (Edge .. index - 1) = seen
  BY <1>1 DEF ScanInv
<1>5. start = -1 \/ start \in 0 .. index - 1
  BY <1>1 DEF ScanInv
<1> HIDE DEF seen
<1>6. CASE Hidden(index)
  <2>1. start' = (IF start = -1 THEN index ELSE start) /\ spans' = spans
    BY <1>6 DEF ScanRune
  <2>2. Edge' = Edge /\ Edge \in 0 .. index
    <3>1. index \in Nat /\ start' # -1
      BY <1>1, <1>5, <2>1
    <3>2. QED
      BY <1>5, <2>1, <3>1 DEF Edge
  <2>3. Edge .. index' - 1 = (Edge .. index - 1) \cup {index}
    BY <1>1, <2>2
  <2>4. Covered(spans) \cup (Edge .. index' - 1) = seen \cup {index}
    BY <1>4, <2>3
  <2>5. start' \in 0 .. index' - 1
    BY <1>1, <1>5, <2>1
  <2>6. ScanInv'
    BY <1>1, <1>3, <1>4, <1>6, <2>1, <2>2, <2>4, <2>5 DEF ScanInv
  <2>7. QED
    BY <1>1, <2>6 DEF IInv, SpansAreTheHidden
<1>7. CASE ~Hidden(index) /\ start = -1
  <2>1. start' = -1 /\ spans' = spans /\ Edge = index /\ Edge' = index + 1
    BY <1>1, <1>7 DEF ScanRune, Edge
  <2>2. InOrder(spans, index + 1)
    <3>1. spans \in Seq([from : Int, to : Int])
      BY <1>4 DEF InOrder
    <3>2. \A k \in DOMAIN spans : spans[k].to \in Int
      BY <3>1, RunEnds
    <3>3. QED
      BY <1>1, <1>4, <2>1, <3>2 DEF InOrder
  <2>3. Edge .. index - 1 = {} /\ (index + 1) .. index = {}
    BY <1>1, <2>1
  <2>4. ScanInv'
    BY <1>1, <1>3, <1>4, <1>7, <2>1, <2>2, <2>3 DEF ScanInv
  <2>5. QED
    BY <1>1, <2>4 DEF IInv, SpansAreTheHidden
<1>8. CASE ~Hidden(index) /\ start # -1
  <2>1. /\ start' = -1 /\ Edge = start /\ Edge' = index + 1
        /\ spans' = Append(spans, [from |-> start, to |-> index])
    BY <1>1, <1>8 DEF ScanRune, Edge
  <2>2. start \in Int /\ index \in Int /\ start < index /\ index < index + 1
    BY <1>1, <1>5, <1>8
  <2>3. InOrder(spans', index + 1)
    BY <1>4, <2>1, <2>2, OneMoreRun
  <2>4. Covered(spans') = Covered(spans) \cup (start .. index - 1)
    BY <1>4, <2>1, <2>2, CoveredAppend DEF InOrder
  <2>5. (index + 1) .. index = {}
    BY <2>2
  <2>6. ScanInv'
    BY <1>1, <1>3, <1>4, <1>8, <2>1, <2>3, <2>4, <2>5 DEF ScanInv
  <2>7. QED
    BY <1>1, <2>6 DEF IInv, SpansAreTheHidden
<1>9. QED
  BY <1>6, <1>7, <1>8

LEMMA EndScanInv == IInv /\ EndScan => IInv'
<1> SUFFICES ASSUME IInv, EndScan PROVE IInv'
  OBVIOUS
<1>1. /\ stage = "scan" /\ stage' = "done" /\ ScanInv
      /\ Value' = Value /\ Len(Value) \in Nat /\ masked' = masked
      /\ index = Len(Value)
  BY DEF IInv, EndScan, Value
<1>2. {n \in 0 .. Len(Value)' - 1 : Hidden(n)'}
         = {n \in 0 .. index - 1 : Hidden(n)}
  BY <1>1 DEF Hidden
<1>3. /\ InOrder(spans, Edge)
      /\ Covered(spans) \cup (Edge .. index - 1)
            = {n \in 0 .. index - 1 : Hidden(n)}
      /\ start = -1 \/ start \in 0 .. index - 1
  BY <1>1 DEF ScanInv
<1>4. /\ InOrder(spans', index + 1)
      /\ Covered(spans') = Covered(spans) \cup (Edge .. index - 1)
  <2>1. CASE start = -1
    <3>1. spans' = spans /\ Edge = index /\ Edge .. index - 1 = {}
      BY <1>1, <2>1 DEF EndScan, Edge
    <3>2. \A k \in DOMAIN spans : spans[k].to \in Int
      <4>1. spans \in Seq([from : Int, to : Int])
        BY <1>3 DEF InOrder
      <4>2. QED
        BY <4>1, RunEnds
    <3>3. QED
      BY <1>1, <1>3, <3>1, <3>2 DEF InOrder
  <2>2. CASE start # -1
    <3>1. Edge = start /\ spans' = Append(spans, [from |-> start, to |-> index])
      BY <1>1, <2>2 DEF EndScan, Edge
    <3>2. start \in Int /\ index \in Int /\ start < index /\ index < index + 1
      BY <1>1, <1>3, <2>2
    <3>3. InOrder(spans', index + 1)
      BY <1>3, <3>1, <3>2, OneMoreRun
    <3>4. Covered(spans') = Covered(spans) \cup (start .. index - 1)
      BY <1>3, <3>1, <3>2, CoveredAppend DEF InOrder
    <3>5. QED
      BY <3>1, <3>3, <3>4
  <2>3. QED
    BY <2>1, <2>2
<1>5. SpansAreTheHidden'
  BY <1>1, <1>2, <1>3, <1>4 DEF SpansAreTheHidden, InOrder
<1>6. QED
  BY <1>1, <1>5 DEF IInv, Stage

LEMMA StepInv == IInv /\ [Next]_vars => IInv'
<1> SUFFICES ASSUME IInv, [Next]_vars PROVE IInv'
  OBVIOUS
<1>1. CASE Mask
  BY <1>1, MaskInv
<1>2. CASE ScanRune
  BY <1>2, ScanRuneInv
<1>3. CASE EndScan
  BY <1>3, EndScanInv
<1>4. CASE UNCHANGED vars
  BY <1>4 DEF vars, IInv, ScanInv, SpansAreTheHidden, Value, Hidden, Edge
<1>5. QED
  BY <1>1, <1>2, <1>3, <1>4 DEF Next

-----------------------------------------------------------------------------
(* What the rules make of a value.                                         *)

\* The value with some of its characters turned into asterisks.
Starred(v, w) ==
    /\ w \in Seq(Rune) /\ Len(w) = Len(v)
    /\ \A i \in 1 .. Len(v) : w[i] = v[i] \/ w[i] = "*"

LEMMA HideStars ==
  ASSUME NEW v \in Seq(Rune), NEW positions
  PROVE  Starred(v, Hide(v, positions))
<1>1. DOMAIN v = 1 .. Len(v) /\ Len(v) \in Nat /\ \A i \in 1 .. Len(v) : v[i] \in Rune
  OBVIOUS
<1>2. Hide(v, positions) \in [1 .. Len(v) -> Rune]
  BY <1>1 DEF Hide, Rune
<1>3. Hide(v, positions) \in Seq(Rune) /\ Len(Hide(v, positions)) = Len(v)
  BY <1>1, <1>2
<1>4. \A i \in 1 .. Len(v) :
         Hide(v, positions)[i] = v[i] \/ Hide(v, positions)[i] = "*"
  BY <1>1 DEF Hide
<1>5. QED
  BY <1>3, <1>4 DEF Starred

(* A value whose first characters are starred and whose others are kept.   *)
LEMMA PrefixStars ==
  ASSUME NEW v \in Seq(Rune), NEW n \in 0 .. Len(v),
         NEW w, Starred(SubSeq(v, 1, n), w)
  PROVE  Starred(v, w \o SubSeq(v, n + 1, Len(v)))
<1>1. /\ SubSeq(v, 1, n) \in Seq(Rune) /\ Len(SubSeq(v, 1, n)) = n
      /\ \A i \in 1 .. n : SubSeq(v, 1, n)[i] = v[i]
  OBVIOUS
<1>2. /\ w \in Seq(Rune) /\ Len(w) = n
      /\ \A i \in 1 .. n : w[i] = v[i] \/ w[i] = "*"
  BY <1>1 DEF Starred
<1> DEFINE rest == SubSeq(v, n + 1, Len(v))
<1>3. /\ rest \in Seq(Rune) /\ Len(rest) = Len(v) - n
      /\ \A i \in 1 .. Len(v) - n : rest[i] = v[n + i]
  OBVIOUS
<1> HIDE DEF rest
<1>4. w \o rest \in Seq(Rune) /\ Len(w \o rest) = Len(v)
  BY <1>2, <1>3
<1>5. ASSUME NEW i \in 1 .. Len(v)
      PROVE  (w \o rest)[i] = v[i] \/ (w \o rest)[i] = "*"
  <2>1. CASE i <= n
    BY <1>2, <1>3, <2>1
  <2>2. CASE i > n
    <3>1. i - n \in 1 .. Len(v) - n /\ n + (i - n) = i
      BY <2>2
    <3>2. (w \o rest)[i] = rest[i - n]
      BY <1>2, <1>3, <2>2
    <3>3. QED
      BY <1>3, <3>1, <3>2
  <2>3. i <= n \/ i > n
    OBVIOUS
  <2>4. QED
    BY <2>1, <2>2, <2>3
<1>6. QED
  BY <1>4, <1>5 DEF Starred, rest

(* Every set of positions has a first and a last.                          *)
LEMMA Least ==
  ASSUME NEW S, \A y \in S : y \in Nat, S # {}
  PROVE  Min(S) \in S /\ \A y \in S : Min(S) <= y
<1> DEFINE R == OpToRel(<, Nat)
<1>1. IsWellFoundedOn(R, Nat)
  BY NatLessThanWellFounded
<1>2. \A x, y \in Nat : y < x => <<y, x>> \in R
  BY DEF OpToRel
<1> HIDE DEF R
<1>3. PICK x \in S : \A y \in S : ~(<<y, x>> \in R)
  <2>1. S \subseteq Nat
    OBVIOUS
  <2>2. QED
    BY <1>1, <2>1, WFMin
<1>4. \A y \in S : x <= y
  <2>1. ASSUME NEW y \in S PROVE x <= y
    <3>1. x \in Nat /\ y \in Nat /\ ~(y < x)
      BY <1>2, <1>3
    <3>2. QED
      BY <3>1
  <2>2. QED
    BY <2>1
<1>5. QED
  BY <1>4 DEF Min

LEMMA Greatest ==
  ASSUME NEW n \in Nat, NEW S, \A y \in S : y \in 1 .. n, S # {}
  PROVE  Max(S) \in S /\ \A y \in S : y <= Max(S)
<1> DEFINE T == {n - y : y \in S}
<1>1. (\A t \in T : t \in Nat) /\ T # {}
  OBVIOUS
<1>2. Min(T) \in T /\ \A t \in T : Min(T) <= t
  <2> HIDE DEF T
  <2>1. QED
    BY <1>1, Least
<1>3. PICK x \in S : n - x = Min(T)
  BY <1>2
<1>4. \A y \in S : x >= y
  <2>1. ASSUME NEW y \in S PROVE x >= y
    <3>1. n - x <= n - y
      BY <1>2, <1>3
    <3>2. QED
      BY <3>1
  <2>2. QED
    BY <2>1
<1>5. PICK z \in S : z = Max(S) /\ \A y \in S : z >= y
  BY <1>4 DEF Max
<1>6. QED
  BY <1>5

LEMMA AccountStars ==
  ASSUME NEW v \in Seq(Rune) PROVE Starred(v, MaskAccountNumber(v))
<1> DEFINE separators == {i \in DOMAIN v : v[i] \in {"-", " "}}
           last == Max(separators)
<1>1. Starred(v, MaskKeepTrailingDigits(v, 4))
  BY HideStars DEF MaskKeepTrailingDigits, MaskAllDigits
<1>2. CASE separators # {}
  <2>1. /\ Len(v) \in Nat /\ \A y \in separators : y \in 1 .. Len(v)
    <3>1. DOMAIN v = 1 .. Len(v) /\ Len(v) \in Nat
      OBVIOUS
    <3>2. separators \subseteq DOMAIN v
      OBVIOUS
    <3> HIDE DEF separators
    <3>3. QED
      BY <3>1, <3>2
  <2>2. last \in separators
    <3> HIDE DEF separators
    <3>1. QED
      BY <1>2, <2>1, Greatest
  <2> HIDE DEF separators, last
  <2>3. last \in 0 .. Len(v)
    BY <2>1, <2>2
  <2>4. SubSeq(v, 1, last) \in Seq(Rune)
    BY <2>3
  <2>5. Starred(SubSeq(v, 1, last), MaskAllDigits(SubSeq(v, 1, last)))
    BY <2>4, HideStars DEF MaskAllDigits
  <2>6. Starred(v, MaskAllDigits(SubSeq(v, 1, last)) \o SubSeq(v, last + 1, Len(v)))
    BY <2>3, <2>5, PrefixStars
  <2>7. QED
    BY <1>1, <2>6 DEF MaskAccountNumber, separators, last
<1>3. CASE separators = {}
  BY <1>1, <1>3 DEF MaskAccountNumber
<1>4. QED
  BY <1>2, <1>3

LEMMA EmailStars ==
  ASSUME NEW v \in Seq(Rune) PROVE Starred(v, MaskEmail(v))
<1> DEFINE ats == {i \in DOMAIN v : v[i] = "@"}
           at == Min(ats)
           local == SubSeq(v, 1, at - 1)
           positions == {i \in DOMAIN local : Len(local) <= 4 \/ i > 3}
<1>1. Starred(v, MaskAllVisible(v))
  BY HideStars DEF MaskAllVisible
<1>2. CASE ats # {}
  <2>1. Len(v) \in Nat /\ \A y \in ats : y \in 1 .. Len(v) /\ y \in Nat
    OBVIOUS
  <2>2. at \in ats
    <3> HIDE DEF ats
    <3>1. QED
      BY <1>2, <2>1, Least
  <2>3. at \in 1 .. Len(v)
    BY <2>1, <2>2
  <2> HIDE DEF at
  <2>4. at - 1 \in 0 .. Len(v) /\ (at - 1) + 1 = at
    BY <2>1, <2>3
  <2>5. local \in Seq(Rune)
    BY <2>4
  <2> HIDE DEF local
  <2>6. Starred(local, Hide(local, positions))
    BY <2>5, HideStars
  <2>7. Starred(v, Hide(local, positions) \o SubSeq(v, at, Len(v)))
    <3> HIDE DEF positions
    <3>1. QED
      BY <2>4, <2>6, PrefixStars DEF local
  <2>8. QED
    BY <1>1, <2>7 DEF MaskEmail, at, local
<1>3. CASE ats = {}
  BY <1>1, <1>3 DEF MaskEmail
<1>4. QED
  BY <1>2, <1>3

(* Every rule stars characters and does nothing else.                      *)
LEMMA RuleStars ==
  ASSUME NEW v \in Seq(Rune), NEW rule \in Rule
  PROVE  Starred(v, MaskTrimmedValue(rule, v))
<1>1. Starred(v, MaskDigitsAfter(v, 6))
  BY HideStars DEF MaskDigitsAfter
<1>2. Starred(v, MaskDigitsRange(v, 4, 2))
  BY HideStars DEF MaskDigitsRange, MaskAllDigits
<1>3. Starred(v, MaskTrailingRunes(v, 4))
  BY HideStars DEF MaskTrailingRunes
<1>4. Starred(v, MaskLastDigits(v, 4))
  BY HideStars DEF MaskLastDigits, MaskAllDigits
<1>5. Starred(v, MaskKeepTrailingDigits(v, 4))
  BY HideStars DEF MaskKeepTrailingDigits, MaskAllDigits
<1>6. Starred(v, MaskEveryEvenRune(v))
  BY HideStars DEF MaskEveryEvenRune
<1>7. Starred(v, MaskAllVisible(v))
  BY HideStars DEF MaskAllVisible
<1>8. Starred(v, MaskIPAddress(v))
  BY <1>7, HideStars DEF MaskIPAddress
<1>9. Starred(v, MaskAddress(v))
  BY HideStars DEF MaskAddress
<1>10. QED
  BY <1>1, <1>2, <1>3, <1>4, <1>5, <1>6, <1>7, <1>8, <1>9,
     AccountStars, EmailStars
     DEF MaskTrimmedValue, Rule

(* Where the value without its surrounding space begins and ends, and what *)
(* is reported in its place.                                               *)
Lo(v) == Min(Solid(v))
Hi(v) == Max(Solid(v))
Place(v, i) == i - Lo(v) + 1

HiddenPart(rule, v) ==
    LET inner == MaskTrimmedValue(rule, Trimmed(v))
    IN  IF inner = Trimmed(v) THEN MaskAllVisible(Trimmed(v)) ELSE inner

LEMMA SolidEnds ==
  ASSUME NEW v \in Seq(Rune), Solid(v) # {}
  PROVE  /\ Lo(v) \in Solid(v) /\ Hi(v) \in Solid(v)
         /\ Lo(v) \in 1 .. Len(v) /\ Hi(v) \in 1 .. Len(v)
         /\ Lo(v) <= Hi(v)
         /\ \A i \in Solid(v) : i \in Lo(v) .. Hi(v)
<1>1. Len(v) \in Nat /\ \A i \in Solid(v) : i \in 1 .. Len(v) /\ i \in Nat
  BY DEF Solid
<1>2. /\ Lo(v) \in Solid(v) /\ Hi(v) \in Solid(v)
      /\ \A i \in Solid(v) : Lo(v) <= i /\ i <= Hi(v)
  BY <1>1, Least, Greatest DEF Lo, Hi
<1>3. QED
  BY <1>1, <1>2

LEMMA TrimmedIs ==
  ASSUME NEW v \in Seq(Rune), Solid(v) # {}
  PROVE  /\ Trimmed(v) \in Seq(Rune)
         /\ Len(Trimmed(v)) = Hi(v) - Lo(v) + 1
         /\ DOMAIN Trimmed(v) = 1 .. Hi(v) - Lo(v) + 1
         /\ \A i \in Lo(v) .. Hi(v) :
               /\ Place(v, i) \in DOMAIN Trimmed(v)
               /\ Trimmed(v)[Place(v, i)] = v[i]
<1>1. Lo(v) \in 1 .. Len(v) /\ Hi(v) \in 1 .. Len(v) /\ Lo(v) <= Hi(v)
  BY SolidEnds
<1>2. Trimmed(v) = SubSeq(v, Lo(v), Hi(v))
  BY DEF Trimmed, Lo, Hi
<1>3. /\ Trimmed(v) \in Seq(Rune)
      /\ Len(Trimmed(v)) = Hi(v) - Lo(v) + 1
      /\ DOMAIN Trimmed(v) = 1 .. Hi(v) - Lo(v) + 1
      /\ \A k \in 1 .. Hi(v) - Lo(v) + 1 :
            Trimmed(v)[k] = v[Lo(v) + k - 1]
  BY <1>1, <1>2
<1>4. ASSUME NEW i \in Lo(v) .. Hi(v)
      PROVE  /\ Place(v, i) \in DOMAIN Trimmed(v)
             /\ Trimmed(v)[Place(v, i)] = v[i]
  <2>1. /\ Place(v, i) \in 1 .. Hi(v) - Lo(v) + 1
        /\ Lo(v) + Place(v, i) - 1 = i
    BY <1>1 DEF Place
  <2>2. QED
    BY <1>3, <2>1
<1>5. QED
  BY <1>3, <1>4

(* The hidden part stands where the value without its space stood.         *)
LEMMA ValueIs ==
  ASSUME NEW v \in Seq(Rune), NEW rule \in Rule, Solid(v) # {}
  PROVE  /\ Starred(Trimmed(v), HiddenPart(rule, v))
         /\ MaskValue(rule, v) \in Seq(Rune)
         /\ Len(MaskValue(rule, v)) = Len(v)
         /\ \A i \in 1 .. Lo(v) - 1 : MaskValue(rule, v)[i] = v[i]
         /\ \A i \in Lo(v) .. Hi(v) :
               MaskValue(rule, v)[i] = HiddenPart(rule, v)[Place(v, i)]
         /\ \A i \in Hi(v) + 1 .. Len(v) : MaskValue(rule, v)[i] = v[i]
<1> DEFINE lo == Lo(v)
           hi == Hi(v)
           hidden == HiddenPart(rule, v)
           w == Leading(v) \o hidden \o Trailing(v)
           front == Leading(v) \o hidden
<1>1. /\ Len(v) \in Nat
      /\ lo \in 1 .. Len(v) /\ hi \in 1 .. Len(v) /\ lo <= hi
  BY SolidEnds
<1>2. /\ Trimmed(v) \in Seq(Rune) /\ Len(Trimmed(v)) = hi - lo + 1
      /\ Trimmed(v) # <<>>
  BY <1>1, TrimmedIs
<1>3. Starred(Trimmed(v), hidden)
  BY <1>2, RuleStars, HideStars DEF HiddenPart, MaskAllVisible
<1>4. hidden \in Seq(Rune) /\ Len(hidden) = hi - lo + 1
  BY <1>2, <1>3 DEF Starred
<1>5. MaskValue(rule, v) = w
  BY <1>2 DEF MaskValue, HiddenPart
<1>6. /\ Leading(v) \in Seq(Rune) /\ Len(Leading(v)) = lo - 1
      /\ \A i \in 1 .. lo - 1 : Leading(v)[i] = v[i]
  <2>1. Leading(v) = SubSeq(v, 1, lo - 1)
    BY DEF Leading, Lo
  <2> HIDE DEF lo
  <2>2. QED
    BY <1>1, <2>1
<1>7. /\ Trailing(v) \in Seq(Rune) /\ Len(Trailing(v)) = Len(v) - hi
      /\ \A i \in 1 .. Len(v) - hi : Trailing(v)[i] = v[hi + i]
  <2>1. Trailing(v) = SubSeq(v, hi + 1, Len(v))
    BY DEF Trailing, Hi
  <2> HIDE DEF hi
  <2>2. QED
    BY <1>1, <2>1
<1> HIDE DEF lo, hi, hidden
<1>8. front \in Seq(Rune) /\ Len(front) = hi
  BY <1>1, <1>4, <1>6
<1>9. w = front \o Trailing(v)
  OBVIOUS
<1>10. w \in Seq(Rune) /\ Len(w) = Len(v)
  <2> HIDE DEF front
  <2>1. QED
    BY <1>1, <1>7, <1>8, <1>9
<1>11. ASSUME NEW i \in 1 .. lo - 1 PROVE w[i] = v[i]
  <2>1. front[i] = v[i]
    BY <1>1, <1>4, <1>6
  <2> HIDE DEF front, w
  <2>2. QED
    BY <1>1, <1>7, <1>8, <1>9, <2>1
<1>12. ASSUME NEW i \in lo .. hi PROVE w[i] = hidden[Place(v, i)]
  <2>1. Place(v, i) = i - (lo - 1)
    BY <1>1 DEF Place, lo
  <2>2. front[i] = hidden[Place(v, i)]
    BY <1>1, <1>4, <1>6, <2>1
  <2> HIDE DEF front, w
  <2>3. QED
    BY <1>1, <1>7, <1>8, <1>9, <2>2
<1>13. ASSUME NEW i \in hi + 1 .. Len(v) PROVE w[i] = v[i]
  <2> HIDE DEF front, w
  <2>1. i - hi \in 1 .. Len(v) - hi /\ hi + (i - hi) = i
    BY <1>1
  <2>2. w[i] = Trailing(v)[i - hi]
    BY <1>1, <1>7, <1>8, <1>9
  <2>3. QED
    BY <1>7, <2>1, <2>2
<1> HIDE DEF w
<1>14. QED
  BY <1>3, <1>5, <1>10, <1>11, <1>12, <1>13 DEF lo, hi, hidden

(* The surrounding space is put back where it was, and a rule that hides   *)
(* nothing is not taken at its word.                                       *)
LEMMA ValueStars ==
  ASSUME NEW v \in Seq(Rune), NEW rule \in Rule
  PROVE  /\ Starred(v, MaskValue(rule, v))
         /\ (\E i \in Solid(v) : v[i] # "*") => MaskValue(rule, v) # v
<1> DEFINE t == Trimmed(v)
           w == MaskValue(rule, v)
           hidden == HiddenPart(rule, v)
<1>1. CASE Solid(v) = {}
  BY <1>1 DEF MaskValue, Trimmed, Starred
<1>2. CASE Solid(v) # {}
  <2>1. Lo(v) \in 1 .. Len(v) /\ Hi(v) \in 1 .. Len(v) /\ Len(v) \in Nat
    BY <1>2, SolidEnds
  <2>2. /\ \A i \in Lo(v) .. Hi(v) :
              /\ Place(v, i) \in 1 .. Len(t)
              /\ w[i] = hidden[Place(v, i)] /\ t[Place(v, i)] = v[i]
        /\ \A k \in 1 .. Len(t) : hidden[k] = t[k] \/ hidden[k] = "*"
    BY <1>2, TrimmedIs, ValueIs DEF Starred
  <2>3. Starred(v, w)
    <3>1. \A i \in Lo(v) .. Hi(v) : w[i] = v[i] \/ w[i] = "*"
      BY <2>2
    <3> HIDE DEF w
    <3>2. QED
      BY <1>2, <2>1, <3>1, ValueIs DEF Starred, w
  <2>4. ASSUME NEW i \in Solid(v), v[i] # "*" PROVE w # v
    <3>1. i \in Lo(v) .. Hi(v) /\ v[i] \notin {"*", " "}
      BY <1>2, <2>4, SolidEnds DEF Solid, IsSpace
    <3>2. CASE hidden = t
      <4>1. MaskAllVisible(t) = t
        BY <3>2 DEF HiddenPart
      <4>2. Place(v, i) \in Visible(t)
        BY <1>2, <3>1, TrimmedIs DEF Visible, IsWhitespaceRune
      <4>3. MaskAllVisible(t)[Place(v, i)] = "*"
        BY <4>2 DEF MaskAllVisible, Hide, Visible
      <4>4. QED
        BY <2>2, <3>1, <4>1, <4>3
    <3>3. CASE hidden # t
      <4>1. PICK k \in 1 .. Len(t) : hidden[k] # t[k]
        BY <1>2, <3>3, TrimmedIs, ValueIs DEF Starred
      <4>2. /\ Lo(v) + k - 1 \in Lo(v) .. Hi(v)
            /\ Place(v, Lo(v) + k - 1) = k
        <5>1. Len(t) = Hi(v) - Lo(v) + 1
          BY <1>2, TrimmedIs
        <5>2. QED
          BY <2>1, <4>1, <5>1 DEF Place
      <4>3. QED
        BY <2>2, <4>1, <4>2
    <3>4. QED
      BY <3>2, <3>3
  <2>5. QED
    BY <2>3, <2>4
<1>3. QED
  BY <1>1, <1>2

-----------------------------------------------------------------------------
(* Counting characters.                                                    *)

Followed(v, i) == Cardinality({j \in Digits(v) : j > i})

LEMMA PartFinite ==
  ASSUME NEW v \in Seq(Rune), NEW S, S \subseteq DOMAIN v
  PROVE  S \subseteq Int /\ IsFiniteSet(S) /\ Cardinality(S) \in Nat
<1>1. DOMAIN v = 1 .. Len(v) /\ Len(v) \in Nat
  OBVIOUS
<1>2. IsFiniteSet(1 .. Len(v))
  BY <1>1, FS_Interval
<1>3. IsFiniteSet(S)
  BY <1>1, <1>2, FS_Subset
<1>4. QED
  BY <1>1, <1>3, FS_CardinalityType

LEMMA DigitsCounted ==
  ASSUME NEW v \in Seq(Rune), NEW i
  PROVE  /\ CountDigits(v) \in Nat /\ SeenDigits(v, i) \in Nat
         /\ Followed(v, i) \in Nat
<1>1. Digits(v) \subseteq DOMAIN v
  BY DEF Digits
<1>2. /\ {j \in Digits(v) : j < i} \subseteq DOMAIN v
      /\ {j \in Digits(v) : j > i} \subseteq DOMAIN v
  BY <1>1
<1>3. QED
  BY <1>1, <1>2, PartFinite DEF CountDigits, SeenDigits, Followed

(* Of the digits, some come before any one of them and the others after.   *)
LEMMA DigitsAround ==
  ASSUME NEW v \in Seq(Rune), NEW i \in Digits(v)
  PROVE  CountDigits(v) = SeenDigits(v, i) + 1 + Followed(v, i)
<1> DEFINE B == {j \in Digits(v) : j < i}
           A == {j \in Digits(v) : j > i}
<1>1. Digits(v) \subseteq DOMAIN v
  BY DEF Digits
<1>2. /\ Digits(v) \subseteq Int
      /\ IsFiniteSet(A) /\ Cardinality(A) \in Nat
      /\ IsFiniteSet(B) /\ Cardinality(B) \in Nat
  <2>1. A \subseteq DOMAIN v /\ B \subseteq DOMAIN v
    BY <1>1
  <2> HIDE DEF A, B
  <2>2. QED
    BY <1>1, <2>1, PartFinite
<1>3. Digits(v) = (B \cup {i}) \cup A
  BY <1>2
<1>4. i \notin B /\ (B \cup {i}) \cap A = {}
  BY <1>2
<1> HIDE DEF A, B
<1>5. IsFiniteSet(B \cup {i}) /\ Cardinality(B \cup {i}) = Cardinality(B) + 1
  BY <1>2, <1>4, FS_AddElement
<1>6. Cardinality((B \cup {i}) \cup A)
        = Cardinality(B \cup {i}) + Cardinality(A) - Cardinality({})
  BY <1>2, <1>4, <1>5, FS_Union
<1>7. Cardinality(Digits(v)) = Cardinality(B) + 1 + Cardinality(A)
  BY <1>2, <1>3, <1>5, <1>6, FS_EmptySet
<1>8. QED
  BY <1>7 DEF CountDigits, SeenDigits, Followed, A, B

(* What is moved along is as many as before.                               *)
LEMMA Shifted ==
  ASSUME NEW S, NEW d \in Int, S \subseteq Int, IsFiniteSet(S),
         NEW T, T = {k - d : k \in S}
  PROVE  Cardinality(T) = Cardinality(S)
<1> DEFINE f == [k \in S |-> k - d]
<1>1. f \in [S -> T]
  OBVIOUS
<1>2. \A a, b \in S : f[a] = f[b] => a = b
  OBVIOUS
<1>3. \A t \in T : \E s \in S : f[s] = t
  OBVIOUS
<1> HIDE DEF f
<1>4. f \in Bijection(S, T)
  BY <1>1, <1>2, <1>3 DEF Bijection, Injection, Surjection, IsInjective
<1>5. ExistsBijection(S, T)
  BY <1>4 DEF ExistsBijection
<1>6. QED
  BY <1>5, FS_Bijection

(* Some of the characters of a value that are not white space, and the     *)
(* same ones of the value without its surrounding space.                   *)
LEMMA SameInside ==
  ASSUME NEW v \in Seq(Rune), Solid(v) # {},
         NEW S, S \subseteq Solid(v),
         NEW T, T \subseteq DOMAIN Trimmed(v),
         \A i \in Lo(v) .. Hi(v) : i \in S <=> Place(v, i) \in T
  PROVE  Cardinality(T) = Cardinality(S)
<1>1. /\ Lo(v) \in 1 .. Len(v) /\ Hi(v) \in 1 .. Len(v) /\ Len(v) \in Nat
      /\ \A i \in Solid(v) : i \in Lo(v) .. Hi(v)
  BY SolidEnds
<1>2. DOMAIN Trimmed(v) = 1 .. Hi(v) - Lo(v) + 1
  BY TrimmedIs
<1>3. S \subseteq Int /\ IsFiniteSet(S)
  <2>1. S \subseteq DOMAIN v
    BY DEF Solid
  <2>2. QED
    BY <2>1, PartFinite
<1>4. ASSUME NEW k \in T PROVE k \in {i - (Lo(v) - 1) : i \in S}
  <2>1. k \in 1 .. Hi(v) - Lo(v) + 1
    BY <1>2
  <2>2. /\ Lo(v) + k - 1 \in Lo(v) .. Hi(v)
        /\ Place(v, Lo(v) + k - 1) = k
        /\ (Lo(v) + k - 1) - (Lo(v) - 1) = k
    BY <1>1, <2>1 DEF Place
  <2>3. Lo(v) + k - 1 \in S
    BY <2>2
  <2>4. QED
    BY <2>2, <2>3
<1>5. ASSUME NEW i \in S PROVE i - (Lo(v) - 1) \in T
  <2>1. i \in Lo(v) .. Hi(v)
    BY <1>1
  <2>2. Place(v, i) = i - (Lo(v) - 1)
    BY <1>1, <2>1 DEF Place
  <2>3. QED
    BY <2>1, <2>2
<1>6. T = {i - (Lo(v) - 1) : i \in S}
  BY <1>4, <1>5
<1>7. Lo(v) - 1 \in Int
  BY <1>1
<1>8. QED
  BY <1>3, <1>6, <1>7, Shifted

LEMMA DigitsInside ==
  ASSUME NEW v \in Seq(Rune), NEW i \in Digits(v)
  PROVE  /\ Solid(v) # {} /\ i \in Lo(v) .. Hi(v)
         /\ Place(v, i) \in Digits(Trimmed(v))
         /\ SeenDigits(v, i) = SeenDigits(Trimmed(v), Place(v, i))
         /\ Followed(v, i) = Followed(Trimmed(v), Place(v, i))
<1> DEFINE t == Trimmed(v)
           k == Place(v, i)
<1>1. Digits(v) \subseteq Solid(v)
  BY DEF Digits, Solid, IsSpace
<1>2. Solid(v) # {} /\ i \in Lo(v) .. Hi(v)
  BY <1>1, SolidEnds
<1>3. \A j \in Lo(v) .. Hi(v) : Place(v, j) \in DOMAIN t /\ t[Place(v, j)] = v[j]
  BY <1>2, TrimmedIs
<1>4. /\ Lo(v) .. Hi(v) \subseteq DOMAIN v
      /\ Lo(v) \in Int /\ Hi(v) \in Int
  BY <1>2, SolidEnds
<1>5. \A j \in Lo(v) .. Hi(v) : j \in Digits(v) <=> Place(v, j) \in Digits(t)
  BY <1>3, <1>4 DEF Digits
<1>6. \A j \in Lo(v) .. Hi(v) :
         /\ j < i <=> Place(v, j) < k
         /\ j > i <=> Place(v, j) > k
  BY <1>2, <1>4 DEF Place
<1> HIDE DEF t, k
<1>7. Cardinality({m \in Digits(t) : m < k}) = Cardinality({j \in Digits(v) : j < i})
  <2> DEFINE S == {j \in Digits(v) : j < i}
             T == {m \in Digits(t) : m < k}
  <2>1. S \subseteq Solid(v) /\ T \subseteq DOMAIN t
    BY <1>1 DEF Digits
  <2>2. \A j \in Lo(v) .. Hi(v) : j \in S <=> Place(v, j) \in T
    BY <1>5, <1>6
  <2> HIDE DEF S, T
  <2>3. Cardinality(T) = Cardinality(S)
    BY <1>2, <2>1, <2>2, SameInside DEF t
  <2>4. QED
    BY <2>3 DEF S, T
<1>8. Cardinality({m \in Digits(t) : m > k}) = Cardinality({j \in Digits(v) : j > i})
  <2> DEFINE S == {j \in Digits(v) : j > i}
             T == {m \in Digits(t) : m > k}
  <2>1. S \subseteq Solid(v) /\ T \subseteq DOMAIN t
    BY <1>1 DEF Digits
  <2>2. \A j \in Lo(v) .. Hi(v) : j \in S <=> Place(v, j) \in T
    BY <1>5, <1>6
  <2> HIDE DEF S, T
  <2>3. Cardinality(T) = Cardinality(S)
    BY <1>2, <2>1, <2>2, SameInside DEF t
  <2>4. QED
    BY <2>3 DEF S, T
<1>9. QED
  BY <1>2, <1>5, <1>7, <1>8 DEF SeenDigits, Followed, t, k

-----------------------------------------------------------------------------
(* What each rule leaves readable.                                         *)

(* Where a character that is no white space can still be read, the rule's  *)
(* word was taken for the whole value.                                     *)
LEMMA RuleTaken ==
  ASSUME NEW v \in Seq(Rune), NEW rule \in Rule, NEW i \in Solid(v),
         MaskValue(rule, v)[i] # "*"
  PROVE  /\ Solid(v) # {} /\ i \in Lo(v) .. Hi(v)
         /\ Place(v, i) \in Visible(Trimmed(v))
         /\ \A j \in Lo(v) .. Hi(v) :
               MaskValue(rule, v)[j]
                 = MaskTrimmedValue(rule, Trimmed(v))[Place(v, j)]
<1>1. Solid(v) # {} /\ i \in Lo(v) .. Hi(v)
  BY SolidEnds
<1>2. /\ Place(v, i) \in DOMAIN Trimmed(v)
      /\ Trimmed(v)[Place(v, i)] = v[i]
  BY <1>1, TrimmedIs
<1>3. Place(v, i) \in Visible(Trimmed(v))
  BY <1>2 DEF Visible, Solid, IsSpace, IsWhitespaceRune
<1>4. MaskAllVisible(Trimmed(v))[Place(v, i)] = "*"
  BY <1>2, <1>3 DEF MaskAllVisible, Hide
<1>5. HiddenPart(rule, v)[Place(v, i)] # "*"
  BY <1>1, ValueIs
<1>6. HiddenPart(rule, v) = MaskTrimmedValue(rule, Trimmed(v))
  BY <1>4, <1>5 DEF HiddenPart
<1>7. QED
  BY <1>1, <1>3, <1>6, ValueIs

(* The same of a digit, with the digits around it.                         *)
LEMMA DigitTaken ==
  ASSUME NEW v \in Seq(Rune), NEW rule \in Rule, NEW i \in Digits(v),
         MaskValue(rule, v)[i] # "*",
         NEW t, t = Trimmed(v), NEW k, k = Place(v, i)
  PROVE  /\ t \in Seq(Rune) /\ k \in Digits(t)
         /\ MaskTrimmedValue(rule, t)[k] # "*"
         /\ SeenDigits(v, i) = SeenDigits(t, k)
         /\ Followed(v, i) = Followed(t, k)
         /\ CountDigits(t) \in Nat /\ SeenDigits(t, k) \in Nat
         /\ Followed(t, k) \in Nat
         /\ CountDigits(t) = SeenDigits(t, k) + 1 + Followed(t, k)
<1>1. i \in Solid(v)
  BY DEF Digits, Solid, IsSpace
<1>2. t \in Seq(Rune) /\ k \in Digits(t)
  BY <1>1, TrimmedIs, DigitsInside
<1>3. MaskTrimmedValue(rule, t)[k] # "*"
  BY <1>1, RuleTaken
<1>4. QED
  BY <1>2, <1>3, DigitsInside, DigitsCounted, DigitsAround

(* A registration number: the first six digits.                            *)
LEMMA RegistrationShows ==
  ASSUME NEW v \in Seq(Rune),
         NEW rule \in {"resident_registration_number", "alien_registration_number"},
         NEW i \in Digits(v), MaskValue(rule, v)[i] # "*"
  PROVE  SeenDigits(v, i) < 6
<1> DEFINE t == Trimmed(v)
           k == Place(v, i)
<1>1. /\ k \in Digits(t) /\ MaskTrimmedValue(rule, t)[k] # "*"
      /\ SeenDigits(v, i) = SeenDigits(t, k) /\ SeenDigits(t, k) \in Nat
  BY DigitTaken DEF Rule
<1> HIDE DEF t, k
<1>2. MaskTrimmedValue(rule, t) = MaskDigitsAfter(t, 6)
  BY DEF MaskTrimmedValue
<1>3. QED
  BY <1>1, <1>2 DEF MaskDigitsAfter, Hide, Digits

(* A driver license: the first four digits and the last two.               *)
LEMMA LicenseShows ==
  ASSUME NEW v \in Seq(Rune), NEW rule, rule = "driver_license_number",
         NEW i \in Digits(v), MaskValue(rule, v)[i] # "*"
  PROVE  SeenDigits(v, i) < 4 \/ Followed(v, i) < 2
<1> DEFINE t == Trimmed(v)
           k == Place(v, i)
<1>1. /\ k \in Digits(t) /\ MaskTrimmedValue(rule, t)[k] # "*"
      /\ SeenDigits(v, i) = SeenDigits(t, k) /\ SeenDigits(t, k) \in Nat
      /\ Followed(v, i) = Followed(t, k) /\ Followed(t, k) \in Nat
      /\ CountDigits(t) = SeenDigits(t, k) + 1 + Followed(t, k)
  BY DigitTaken DEF Rule
<1> HIDE DEF t, k
<1>2. MaskTrimmedValue(rule, t) = MaskDigitsRange(t, 4, 2)
  BY DEF MaskTrimmedValue
<1>3. k \in DOMAIN t
  BY <1>1 DEF Digits
<1>4. MaskAllDigits(t)[k] = "*"
  BY <1>1, <1>3 DEF MaskAllDigits, Hide
<1>5. ~(SeenDigits(t, k) >= 4 /\ SeenDigits(t, k) < CountDigits(t) - 2)
  BY <1>1, <1>2, <1>3, <1>4 DEF MaskDigitsRange, Hide
<1>6. QED
  BY <1>1, <1>5

(* A phone number: all but the last four digits.                           *)
LEMMA PhoneShows ==
  ASSUME NEW v \in Seq(Rune),
         NEW rule \in {"mobile_phone_number", "telephone_number"},
         NEW i \in Digits(v), MaskValue(rule, v)[i] # "*"
  PROVE  Followed(v, i) >= 4
<1> DEFINE t == Trimmed(v)
           k == Place(v, i)
<1>1. /\ k \in Digits(t) /\ MaskTrimmedValue(rule, t)[k] # "*"
      /\ SeenDigits(t, k) \in Nat
      /\ Followed(v, i) = Followed(t, k) /\ Followed(t, k) \in Nat
      /\ CountDigits(t) = SeenDigits(t, k) + 1 + Followed(t, k)
  BY DigitTaken DEF Rule
<1> HIDE DEF t, k
<1>2. MaskTrimmedValue(rule, t) = MaskLastDigits(t, 4)
  BY DEF MaskTrimmedValue
<1>3. k \in DOMAIN t
  BY <1>1 DEF Digits
<1>4. MaskAllDigits(t)[k] = "*"
  BY <1>1, <1>3 DEF MaskAllDigits, Hide
<1>5. ~(SeenDigits(t, k) >= CountDigits(t) - 4)
  BY <1>1, <1>2, <1>3, <1>4 DEF MaskLastDigits, Hide
<1>6. QED
  BY <1>1, <1>5

(* Four trailing digits, of a card and of an account without separators.   *)
LEMMA TrailingShows ==
  ASSUME NEW t \in Seq(Rune), NEW k \in Digits(t),
         MaskKeepTrailingDigits(t, 4)[k] # "*"
  PROVE  Followed(t, k) < 4
<1>1. /\ SeenDigits(t, k) \in Nat /\ Followed(t, k) \in Nat
      /\ CountDigits(t) = SeenDigits(t, k) + 1 + Followed(t, k)
  BY DigitsCounted, DigitsAround
<1>2. k \in DOMAIN t
  BY DEF Digits
<1>3. MaskAllDigits(t)[k] = "*"
  BY <1>2 DEF MaskAllDigits, Hide
<1>4. ~(SeenDigits(t, k) < CountDigits(t) - 4)
  BY <1>2, <1>3 DEF MaskKeepTrailingDigits, Hide
<1>5. QED
  BY <1>1, <1>4

LEMMA CardShows ==
  ASSUME NEW v \in Seq(Rune), NEW rule, rule = "credit_card_number",
         NEW i \in Digits(v), MaskValue(rule, v)[i] # "*"
  PROVE  Followed(v, i) < 4
<1> DEFINE t == Trimmed(v)
           k == Place(v, i)
<1>1. /\ t \in Seq(Rune) /\ k \in Digits(t)
      /\ MaskTrimmedValue(rule, t)[k] # "*" /\ Followed(v, i) = Followed(t, k)
  BY DigitTaken DEF Rule
<1> HIDE DEF t, k
<1>2. MaskTrimmedValue(rule, t) = MaskKeepTrailingDigits(t, 4)
  BY DEF MaskTrimmedValue
<1>3. QED
  BY <1>1, <1>2, TrailingShows

(* An account: what follows the last separator, or four digits.            *)
LEMMA AccountTail ==
  ASSUME NEW t \in Seq(Rune), NEW k \in Digits(t), MaskAccountNumber(t)[k] # "*"
  PROVE  \/ Followed(t, k) < 4
         \/ \A j \in k .. Len(t) : t[j] \notin {"-", " "}
<1> DEFINE separators == {j \in DOMAIN t : t[j] \in {"-", " "}}
           last == Max(separators)
<1>1. DOMAIN t = 1 .. Len(t) /\ Len(t) \in Nat /\ k \in 1 .. Len(t) /\ t[k] = "digit"
  BY DEF Digits
<1>2. \A j \in 1 .. Len(t) : j \in separators <=> t[j] \in {"-", " "}
  BY <1>1
<1>3. \A j \in separators : j \in 1 .. Len(t)
  BY <1>1
<1>4. MaskAccountNumber(t) =
        IF separators # {} /\ last < Len(t)
          THEN MaskAllDigits(SubSeq(t, 1, last)) \o SubSeq(t, last + 1, Len(t))
          ELSE MaskKeepTrailingDigits(t, 4)
  BY DEF MaskAccountNumber
<1> HIDE DEF separators
<1>5. CASE separators = {}
  <2>1. \A j \in k .. Len(t) : j \in 1 .. Len(t)
    BY <1>1
  <2>2. QED
    BY <1>2, <1>5, <2>1
<1>6. CASE separators # {}
  <2>1. last \in separators /\ \A j \in separators : j <= last
    BY <1>1, <1>3, <1>6, Greatest
  <2>2. last \in 1 .. Len(t)
    BY <1>3, <2>1
  <2> HIDE DEF last
  <2>3. CASE k > last
    <3>1. \A j \in k .. Len(t) : j \in 1 .. Len(t) /\ ~(j <= last)
      BY <1>1, <2>2, <2>3
    <3>2. QED
      BY <1>2, <2>1, <3>1
  <2>4. CASE k <= last /\ last < Len(t)
    <3> DEFINE head == SubSeq(t, 1, last)
               rest == SubSeq(t, last + 1, Len(t))
    <3>1. /\ head \in Seq(Rune) /\ Len(head) = last /\ DOMAIN head = 1 .. last
          /\ k \in 1 .. last /\ head[k] = "digit"
      BY <1>1, <2>2, <2>4
    <3>2. rest \in Seq(Rune)
      BY <2>2
    <3>3. MaskAccountNumber(t) = MaskAllDigits(head) \o rest
      BY <1>4, <1>6, <2>4
    <3> HIDE DEF head, rest
    <3>4. MaskAllDigits(head)[k] = "*"
      BY <3>1 DEF MaskAllDigits, Hide, Digits
    <3>5. MaskAllDigits(head) \in Seq(Rune) /\ Len(MaskAllDigits(head)) = last
      BY <3>1, HideStars DEF MaskAllDigits, Starred
    <3>6. (MaskAllDigits(head) \o rest)[k] = "*"
      BY <3>1, <3>2, <3>4, <3>5
    <3>7. QED
      BY <3>3, <3>6
  <2>5. CASE last = Len(t)
    <3>1. MaskAccountNumber(t) = MaskKeepTrailingDigits(t, 4)
      BY <1>1, <1>4, <2>5
    <3>2. QED
      BY <3>1, TrailingShows
  <2>6. k > last \/ (k <= last /\ last < Len(t)) \/ last = Len(t)
    <3>1. k \in Int /\ last \in Int /\ Len(t) \in Int /\ last <= Len(t)
      BY <1>1, <2>2
    <3>2. QED
      BY <3>1
  <2>7. QED
    BY <2>3, <2>4, <2>5, <2>6
<1>7. QED
  BY <1>5, <1>6

LEMMA AccountShows ==
  ASSUME NEW v \in Seq(Rune), NEW rule, rule = "bank_account_number",
         NEW i \in Digits(v), MaskValue(rule, v)[i] # "*"
  PROVE  \/ Followed(v, i) < 4
         \/ \A j \in i .. Hi(v) : v[j] \notin {"-", " "}
<1> DEFINE t == Trimmed(v)
           k == Place(v, i)
<1>1. /\ t \in Seq(Rune) /\ k \in Digits(t)
      /\ MaskTrimmedValue(rule, t)[k] # "*" /\ Followed(v, i) = Followed(t, k)
  BY DigitTaken DEF Rule
<1>2. MaskTrimmedValue(rule, t) = MaskAccountNumber(t)
  BY DEF MaskTrimmedValue
<1>3. Followed(t, k) < 4 \/ \A j \in k .. Len(t) : t[j] \notin {"-", " "}
  BY <1>1, <1>2, AccountTail
<1>4. ASSUME NEW j \in i .. Hi(v), \A m \in k .. Len(t) : t[m] \notin {"-", " "}
      PROVE  v[j] \notin {"-", " "}
  <2>1. /\ Solid(v) # {} /\ i \in Lo(v) .. Hi(v)
        /\ Lo(v) \in Int /\ Hi(v) \in Int
    BY DigitsInside, SolidEnds
  <2>2. j \in Lo(v) .. Hi(v)
    BY <2>1
  <2>3. t[Place(v, j)] = v[j] /\ Len(t) = Hi(v) - Lo(v) + 1
    BY <2>1, <2>2, TrimmedIs
  <2>4. Place(v, j) \in k .. Len(t)
    BY <2>1, <2>2, <2>3 DEF Place
  <2>5. QED
    BY <1>4, <2>3, <2>4
<1>5. QED
  BY <1>1, <1>3, <1>4

(* A passport: not the last four characters.                               *)
LEMMA PassportHides ==
  ASSUME NEW v \in Seq(Rune), NEW rule, rule = "passport_number",
         NEW i \in Solid(v), Hi(v) - i < 4
  PROVE  MaskValue(rule, v)[i] = "*"
<1> SUFFICES ASSUME MaskValue(rule, v)[i] # "*" PROVE FALSE
  OBVIOUS
<1> DEFINE t == Trimmed(v)
           k == Place(v, i)
<1>1. /\ Solid(v) # {} /\ i \in Lo(v) .. Hi(v) /\ k \in Visible(t)
      /\ MaskTrimmedValue(rule, t)[k] # "*"
  BY RuleTaken DEF Rule
<1>2. /\ Lo(v) \in Int /\ Hi(v) \in Int
      /\ Len(t) = Hi(v) - Lo(v) + 1 /\ DOMAIN t = 1 .. Len(t)
  BY <1>1, SolidEnds, TrimmedIs
<1>3. k > Len(t) - 4
  BY <1>1, <1>2 DEF Place
<1> HIDE DEF t, k
<1>4. MaskTrimmedValue(rule, t) = MaskTrailingRunes(t, 4)
  BY DEF MaskTrimmedValue
<1>5. MaskTrailingRunes(t, 4)[k] = "*"
  BY <1>1, <1>3 DEF MaskTrailingRunes, Hide, Visible
<1>6. QED
  BY <1>1, <1>4, <1>5

(* Of two characters with nothing visible between them one is even.        *)
LEMMA EvenOfTwo ==
  ASSUME NEW t \in Seq(Rune), NEW a \in Visible(t), NEW b \in Visible(t), a < b,
         \A m \in a + 1 .. b - 1 : m \notin Visible(t)
  PROVE  MaskEveryEvenRune(t)[a] = "*" \/ MaskEveryEvenRune(t)[b] = "*"
<1> DEFINE upTo(i) == {j \in Visible(t) : j <= i}
<1>1. Visible(t) \subseteq DOMAIN t /\ a \in Int /\ b \in Int
  BY DEF Visible
<1>2. Visible(t) \subseteq Int
  BY <1>1
<1>3. IsFiniteSet(upTo(a)) /\ Cardinality(upTo(a)) \in Nat
  <2>1. upTo(a) \subseteq DOMAIN t
    BY <1>1
  <2> HIDE DEF upTo
  <2>2. QED
    BY <2>1, PartFinite
<1>4. upTo(b) = upTo(a) \cup {b} /\ b \notin upTo(a)
  <2>1. ASSUME NEW j \in Visible(t), j <= b PROVE j <= a \/ j = b
    <3>1. j \in Int /\ j \notin a + 1 .. b - 1
      BY <1>2
    <3>2. QED
      BY <1>1, <2>1, <3>1
  <2>2. QED
    BY <1>1, <1>2, <2>1
<1>5. Cardinality(upTo(b)) = Cardinality(upTo(a)) + 1
  <2> HIDE DEF upTo
  <2>1. QED
    BY <1>3, <1>4, FS_AddElement
<1>6. Cardinality(upTo(a)) % 2 = 0 \/ Cardinality(upTo(b)) % 2 = 0
  <2> HIDE DEF upTo
  <2>1. QED
    BY <1>3, <1>5
<1>7. ASSUME NEW i \in Visible(t), Cardinality(upTo(i)) % 2 = 0
      PROVE  MaskEveryEvenRune(t)[i] = "*"
  <2>1. i \in DOMAIN t
    BY <1>1
  <2>2. i \in {x \in Visible(t) : Cardinality({j \in Visible(t) : j <= x}) % 2 = 0}
    BY <1>7
  <2>3. QED
    BY <2>1, <2>2 DEF MaskEveryEvenRune, Hide
<1> HIDE DEF upTo
<1>8. QED
  BY <1>6, <1>7

(* A name: of two characters that follow each other not both.              *)
LEMMA NameHides ==
  ASSUME NEW v \in Seq(Rune), NEW rule, rule = "name",
         NEW i \in Solid(v), NEW j \in Visible(v), i < j, j <= Hi(v),
         \A m \in i + 1 .. j - 1 : IsWhitespaceRune(v[m])
  PROVE  MaskValue(rule, v)[i] = "*" \/ MaskValue(rule, v)[j] = "*"
<1> SUFFICES ASSUME MaskValue(rule, v)[i] # "*"
             PROVE  MaskValue(rule, v)[j] = "*"
  OBVIOUS
<1> DEFINE t == Trimmed(v)
<1>1. /\ Solid(v) # {} /\ i \in Lo(v) .. Hi(v)
      /\ Place(v, i) \in Visible(t)
      /\ \A m \in Lo(v) .. Hi(v) :
            MaskValue(rule, v)[m] = MaskTrimmedValue(rule, t)[Place(v, m)]
  BY RuleTaken DEF Rule
<1>2. Lo(v) \in Int /\ Hi(v) \in Int /\ j \in Int
  BY <1>1, SolidEnds DEF Visible
<1>3. j \in Lo(v) .. Hi(v)
  BY <1>1, <1>2
<1>4. /\ t \in Seq(Rune)
      /\ DOMAIN t = 1 .. Hi(v) - Lo(v) + 1
      /\ \A m \in Lo(v) .. Hi(v) :
            Place(v, m) \in DOMAIN t /\ t[Place(v, m)] = v[m]
  BY <1>1, TrimmedIs
<1>5. Place(v, j) \in Visible(t)
  BY <1>3, <1>4 DEF Visible
<1>6. Place(v, i) < Place(v, j)
  BY <1>1, <1>2 DEF Place
<1>7. ASSUME NEW m \in Place(v, i) + 1 .. Place(v, j) - 1
      PROVE  m \notin Visible(t)
  <2>1. /\ Lo(v) + m - 1 \in i + 1 .. j - 1
        /\ Lo(v) + m - 1 \in Lo(v) .. Hi(v)
        /\ Place(v, Lo(v) + m - 1) = m
    BY <1>1, <1>2, <1>3 DEF Place
  <2>2. t[m] = v[Lo(v) + m - 1] /\ IsWhitespaceRune(v[Lo(v) + m - 1])
    BY <1>4, <2>1
  <2>3. QED
    BY <2>2 DEF Visible
<1>8. MaskTrimmedValue(rule, t) = MaskEveryEvenRune(t)
  BY DEF MaskTrimmedValue
<1> HIDE DEF t
<1>9. MaskEveryEvenRune(t)[Place(v, i)] = "*" \/ MaskEveryEvenRune(t)[Place(v, j)] = "*"
  BY <1>1, <1>4, <1>5, <1>6, <1>7, EvenOfTwo
<1>10. QED
  BY <1>1, <1>3, <1>8, <1>9

(* An address of the mail: three characters, and what follows the "@".     *)
LEMMA MailHead ==
  ASSUME NEW t \in Seq(Rune), NEW k \in Visible(t), MaskEmail(t)[k] # "*"
  PROVE  k <= 3 \/ \E m \in 1 .. k : t[m] = "@"
<1> DEFINE ats == {i \in DOMAIN t : t[i] = "@"}
           at == Min(ats)
           local == SubSeq(t, 1, at - 1)
           rest == SubSeq(t, at, Len(t))
           positions == {i \in DOMAIN local : Len(local) <= 4 \/ i > 3}
<1>1. DOMAIN t = 1 .. Len(t) /\ Len(t) \in Nat /\ k \in 1 .. Len(t)
  BY DEF Visible
<1>2. MaskAllVisible(t)[k] = "*"
  BY <1>1 DEF MaskAllVisible, Hide
<1>3. ats # {} /\ at # 1 /\ MaskEmail(t) = Hide(local, positions) \o rest
  BY <1>2 DEF MaskEmail
<1>4. at \in 1 .. Len(t) /\ t[at] = "@"
  <2>1. \A i \in ats : i \in Nat /\ i \in 1 .. Len(t) /\ t[i] = "@"
    BY <1>1
  <2> HIDE DEF ats
  <2>2. QED
    BY <1>3, <2>1, Least
<1> HIDE DEF ats, at
<1>5. CASE at <= k
  BY <1>1, <1>4, <1>5
<1>6. CASE k < at
  <2>1. /\ local \in Seq(Rune) /\ Len(local) = at - 1 /\ DOMAIN local = 1 .. at - 1
        /\ rest \in Seq(Rune) /\ k \in 1 .. at - 1
    BY <1>1, <1>4, <1>6
  <2> HIDE DEF local, rest
  <2>2. /\ Hide(local, positions) \in Seq(Rune)
        /\ Len(Hide(local, positions)) = at - 1
    BY <2>1, HideStars DEF Starred
  <2>3. Hide(local, positions)[k] # "*"
    <3> HIDE DEF positions
    <3>1. QED
      BY <1>3, <2>1, <2>2
  <2>4. k \notin positions
    BY <2>1, <2>3 DEF Hide
  <2>5. QED
    BY <2>1, <2>4
<1>7. QED
  BY <1>1, <1>4, <1>5, <1>6

LEMMA MailShows ==
  ASSUME NEW v \in Seq(Rune), NEW rule, rule = "email_address",
         NEW i \in Solid(v), MaskValue(rule, v)[i] # "*"
  PROVE  \/ Cardinality({j \in Solid(v) : j < i}) < 3
         \/ \E j \in 1 .. i : v[j] = "@"
<1> DEFINE t == Trimmed(v)
           k == Place(v, i)
<1>1. /\ Solid(v) # {} /\ i \in Lo(v) .. Hi(v) /\ k \in Visible(t)
      /\ MaskTrimmedValue(rule, t)[k] # "*"
  BY RuleTaken DEF Rule
<1>2. /\ Lo(v) \in 1 .. Len(v) /\ Hi(v) \in 1 .. Len(v) /\ Len(v) \in Nat
      /\ \A j \in Solid(v) : j \in Lo(v) .. Hi(v)
  BY <1>1, SolidEnds
<1>3. /\ t \in Seq(Rune)
      /\ \A j \in Lo(v) .. Hi(v) : t[Place(v, j)] = v[j]
  BY <1>1, TrimmedIs
<1>4. MaskTrimmedValue(rule, t) = MaskEmail(t)
  BY DEF MaskTrimmedValue
<1>5. k <= 3 \/ \E m \in 1 .. k : t[m] = "@"
  <2> HIDE DEF t, k
  <2>1. QED
    BY <1>1, <1>3, <1>4, MailHead
<1>6. CASE k <= 3
  <2> DEFINE B == {j \in Solid(v) : j < i}
  <2>1. Lo(v) \in Int /\ Hi(v) \in Int /\ i \in Int /\ i - Lo(v) < 3
    BY <1>1, <1>2, <1>6 DEF Place
  <2>2. B \subseteq Lo(v) .. i - 1
    <3>1. ASSUME NEW j \in Solid(v), j < i PROVE j \in Lo(v) .. i - 1
      BY <1>2, <2>1, <3>1
    <3>2. QED
      BY <3>1
  <2> HIDE DEF B
  <2>3. /\ IsFiniteSet(Lo(v) .. i - 1)
        /\ Cardinality(Lo(v) .. i - 1) < 3
    <3>1. i - 1 \in Int
      BY <2>1
    <3>2. /\ IsFiniteSet(Lo(v) .. i - 1)
          /\ Cardinality(Lo(v) .. i - 1)
               = IF Lo(v) > i - 1 THEN 0 ELSE (i - 1) - Lo(v) + 1
      BY <2>1, <3>1, FS_Interval
    <3>3. QED
      BY <2>1, <3>2
  <2>4. /\ Cardinality(B) <= Cardinality(Lo(v) .. i - 1)
        /\ Cardinality(B) \in Nat /\ Cardinality(Lo(v) .. i - 1) \in Nat
    BY <2>2, <2>3, FS_Subset, FS_CardinalityType
  <2>5. Cardinality(B) < 3
    BY <2>3, <2>4
  <2>6. QED
    BY <2>5 DEF B
<1>7. CASE \E m \in 1 .. k : t[m] = "@"
  <2>1. PICK m \in 1 .. k : t[m] = "@"
    BY <1>7
  <2>2. /\ Lo(v) + m - 1 \in Lo(v) .. Hi(v) /\ Lo(v) + m - 1 \in 1 .. i
        /\ Place(v, Lo(v) + m - 1) = m
    BY <1>1, <1>2 DEF Place
  <2>3. QED
    BY <1>3, <2>1, <2>2
<1>8. QED
  BY <1>5, <1>6, <1>7

Dots(v) == {j \in DOMAIN v : v[j] = "."}

(* An address of the network: nothing at all unless it has its three dots. *)
LEMMA NetworkShows ==
  ASSUME NEW v \in Seq(Rune), NEW rule, rule = "ip_address",
         NEW i \in Solid(v), MaskValue(rule, v)[i] # "*"
  PROVE  Cardinality(Dots(v)) = 3
<1> DEFINE t == Trimmed(v)
           k == Place(v, i)
<1>1. /\ Solid(v) # {} /\ k \in Visible(t) /\ MaskTrimmedValue(rule, t)[k] # "*"
  BY RuleTaken DEF Rule
<1>2. MaskTrimmedValue(rule, t) = MaskIPAddress(t)
  BY DEF MaskTrimmedValue
<1>3. Cardinality(Dots(t)) = 3
  <2> HIDE DEF t, k
  <2>1. MaskAllVisible(t)[k] = "*"
    BY <1>1 DEF MaskAllVisible, Hide, Visible
  <2>2. QED
    BY <1>1, <1>2, <2>1 DEF MaskIPAddress, Dots
<1>4. Dots(v) \subseteq Solid(v) /\ Dots(t) \subseteq DOMAIN t
  BY DEF Dots, Solid, IsSpace
<1>5. ASSUME NEW j \in Lo(v) .. Hi(v) PROVE j \in Dots(v) <=> Place(v, j) \in Dots(t)
  <2>1. Place(v, j) \in DOMAIN t /\ t[Place(v, j)] = v[j]
    BY <1>1, TrimmedIs
  <2>2. j \in DOMAIN v
    BY <1>1, SolidEnds
  <2>3. QED
    BY <2>1, <2>2 DEF Dots
<1>6. QED
  BY <1>1, <1>3, <1>4, <1>5, SameInside

(* An address: never its last word.                                        *)
LEMMA CutoffLeavesOut ==
  ASSUME NEW t \in Seq(Rune)
  PROVE  /\ AddressCutoff(t) \in Int
         /\ AddressCutoff(t) < Cardinality(TokenStarts(t))
<1> DEFINE tokens == Cardinality(TokenStarts(t))
           found == IF Boundaries(t) # {} THEN Min(Boundaries(t)) ELSE tokens
<1>1. tokens \in Nat
  <2>1. TokenStarts(t) \subseteq DOMAIN t
    BY DEF TokenStarts
  <2>2. QED
    BY <2>1, PartFinite
<1>2. \A b \in Boundaries(t) : b \in Nat
  <2>1. ASSUME NEW i PROVE TokenAt(t, i) \in Nat
    <3>1. {s \in TokenStarts(t) : s <= i} \subseteq DOMAIN t
      BY DEF TokenStarts
    <3>2. QED
      BY <3>1, PartFinite DEF TokenAt
  <2>2. QED
    BY <2>1 DEF Boundaries
<1>3. found \in Nat
  <2>1. CASE Boundaries(t) # {}
    <3>1. Min(Boundaries(t)) \in Boundaries(t)
      BY <1>2, <2>1, Least
    <3>2. QED
      BY <1>2, <2>1, <3>1
  <2>2. CASE Boundaries(t) = {}
    BY <1>1, <2>2
  <2>3. QED
    BY <2>1, <2>2
<1> HIDE DEF tokens, found
<1>4. AddressCutoff(t) =
        LET cutoff == IF found = tokens /\ tokens > 3 THEN 3 ELSE found
        IN  IF cutoff >= tokens THEN tokens - 1 ELSE cutoff
  BY DEF AddressCutoff, found, tokens
<1>5. AddressCutoff(t) \in Int /\ AddressCutoff(t) < tokens
  BY <1>1, <1>3, <1>4
<1>6. QED
  BY <1>5 DEF tokens

LEMMA WordFollows ==
  ASSUME NEW t \in Seq(Rune), NEW k \in DOMAIN t, ~IsSpace(t[k]),
         MaskAddress(t)[k] # "*"
  PROVE  \E s \in TokenStarts(t) : s > k
<1>1. TokenAt(t, k) <= AddressCutoff(t)
  <2>1. TokenStarts(t) \subseteq DOMAIN t
    BY DEF TokenStarts
  <2>2. TokenAt(t, k) \in Nat
    <3>1. {s \in TokenStarts(t) : s <= k} \subseteq DOMAIN t
      BY <2>1
    <3>2. QED
      BY <3>1, PartFinite DEF TokenAt
  <2>3. ~(TokenAt(t, k) > AddressCutoff(t))
    BY DEF MaskAddress, Hide
  <2>4. QED
    BY <2>2, <2>3, CutoffLeavesOut
<1>2. ASSUME \A s \in TokenStarts(t) : ~(s > k) PROVE FALSE
  <2>1. TokenStarts(t) \subseteq Int /\ k \in Int
    <3>1. DOMAIN t = 1 .. Len(t) /\ Len(t) \in Nat
      OBVIOUS
    <3>2. QED
      BY <3>1 DEF TokenStarts
  <2>2. {s \in TokenStarts(t) : s <= k} = TokenStarts(t)
    BY <1>2, <2>1
  <2>3. TokenAt(t, k) = Cardinality(TokenStarts(t))
    BY <2>2 DEF TokenAt
  <2>4. Cardinality(TokenStarts(t)) \in Nat
    <3>1. TokenStarts(t) \subseteq DOMAIN t
      BY DEF TokenStarts
    <3>2. QED
      BY <3>1, PartFinite
  <2>5. QED
    BY <1>1, <2>3, <2>4, CutoffLeavesOut
<1>3. QED
  BY <1>2

LEMMA AddressShows ==
  ASSUME NEW v \in Seq(Rune), NEW rule, rule = "address",
         NEW i \in Solid(v), MaskValue(rule, v)[i] # "*"
  PROVE  \E s \in TokenStarts(v) : s > i
<1> DEFINE t == Trimmed(v)
           k == Place(v, i)
<1>1. /\ Solid(v) # {} /\ i \in Lo(v) .. Hi(v) /\ k \in Visible(t)
      /\ MaskTrimmedValue(rule, t)[k] # "*"
  BY RuleTaken DEF Rule
<1>2. /\ Lo(v) \in 1 .. Len(v) /\ Hi(v) \in 1 .. Len(v) /\ Len(v) \in Nat
      /\ DOMAIN v = 1 .. Len(v) /\ Lo(v) \in Solid(v)
      /\ \A j \in Solid(v) : j \in Lo(v) .. Hi(v)
  BY <1>1, SolidEnds
<1>3. /\ t \in Seq(Rune) /\ DOMAIN t = 1 .. Hi(v) - Lo(v) + 1
      /\ \A j \in Lo(v) .. Hi(v) :
            Place(v, j) \in DOMAIN t /\ t[Place(v, j)] = v[j]
  BY <1>1, TrimmedIs
<1>4. MaskTrimmedValue(rule, t) = MaskAddress(t)
  BY DEF MaskTrimmedValue
<1>5. k \in DOMAIN t /\ ~IsSpace(t[k])
  BY <1>1, <1>3 DEF Solid
<1>6. PICK s \in TokenStarts(t) : s > k
  <2> HIDE DEF t, k
  <2>1. QED
    BY <1>1, <1>3, <1>4, <1>5, WordFollows
<1>7. s \in 1 .. Hi(v) - Lo(v) + 1 /\ ~IsSpace(t[s]) /\ (s = 1 \/ IsSpace(t[s - 1]))
  BY <1>3 DEF TokenStarts
<1> DEFINE j == Lo(v) + s - 1
<1>8. j \in Lo(v) .. Hi(v) /\ Place(v, j) = s /\ j > i
  BY <1>1, <1>2, <1>6, <1>7 DEF Place
<1>9. j \in DOMAIN v /\ ~IsSpace(v[j])
  BY <1>2, <1>3, <1>7, <1>8
<1>10. IsSpace(v[j - 1])
  <2>1. s > 1
    BY <1>1, <1>2, <1>6, <1>7 DEF Place
  <2>2. j - 1 \in Lo(v) .. Hi(v) /\ Place(v, j - 1) = s - 1
    BY <1>2, <1>7, <2>1 DEF Place
  <2>3. v[j - 1] = t[s - 1]
    BY <1>3, <2>2
  <2>4. QED
    BY <1>7, <2>1, <2>3
<1>11. j \in TokenStarts(v)
  BY <1>9, <1>10 DEF TokenStarts
<1>12. QED
  BY <1>8, <1>11

(* Any other value: nothing.                                               *)
LEMMA FullMaskHides ==
  ASSUME NEW v \in Seq(Rune), NEW rule, rule = "generic_full_mask", NEW i \in Solid(v)
  PROVE  MaskValue(rule, v)[i] = "*"
<1> SUFFICES ASSUME MaskValue(rule, v)[i] # "*" PROVE FALSE
  OBVIOUS
<1>1. /\ Place(v, i) \in Visible(Trimmed(v))
      /\ MaskTrimmedValue(rule, Trimmed(v))[Place(v, i)] # "*"
  BY RuleTaken DEF Rule
<1>2. MaskTrimmedValue(rule, Trimmed(v)) = MaskAllVisible(Trimmed(v))
  BY DEF MaskTrimmedValue
<1>3. QED
  BY <1>1, <1>2 DEF MaskAllVisible, Hide, Visible

-----------------------------------------------------------------------------
(* The value that is reported is the rule's, from the step that masks on.  *)

MaskedInv ==
    /\ input \in Inputs
    /\ Masking => masked = MaskValue(input.rule, Value)

LEMMA MaskedInit == Init => MaskedInv
  BY DEF Init, MaskedInv, Masking

LEMMA MaskedStep == MaskedInv /\ [Next]_vars => MaskedInv'
<1> SUFFICES ASSUME MaskedInv, [Next]_vars PROVE MaskedInv'
  OBVIOUS
<1>1. CASE Mask
  BY <1>1 DEF Mask, MaskedInv, Masking, Value
<1>2. CASE ScanRune
  BY <1>2 DEF ScanRune, MaskedInv, Masking, Value
<1>3. CASE EndScan
  BY <1>3 DEF EndScan, MaskedInv, Masking, Value
<1>4. CASE UNCHANGED vars
  BY <1>4 DEF vars, MaskedInv, Masking, Value
<1>5. QED
  BY <1>1, <1>2, <1>3, <1>4 DEF Next

LEMMA InputTyped ==
  ASSUME MaskedInv
  PROVE  input.rule \in Rule /\ Value \in Seq(Rune)
  BY PolicyAssumption DEF MaskedInv, Value

-----------------------------------------------------------------------------
(* Results.                                                                *)

\* For a value of any length, and whatever the rule made of it, the scan finds
\* the hidden positions exactly, in runs that neither touch nor overlap
\* (ComputeMaskedRuneSpans).
THEOREM SpansExact == Spec => []SpansAreTheHidden
<1>1. Spec => []IInv
  BY InitInv, StepInv, PTL DEF Spec
<1>2. IInv => SpansAreTheHidden
  BY DEF IInv
<1>3. QED
  BY <1>1, <1>2, PTL

(* The two readings of what is reported: for a value of any length under   *)
(* any rule, it lines up with the printed one and differs from it only in  *)
(* asterisks.                                                              *)
THEOREM ValuesLineUp == Spec => []RuneAligned
<1>1. Spec => []MaskedInv
  BY MaskedInit, MaskedStep, PTL DEF Spec
<1>2. MaskedInv => RuneAligned
  <2> SUFFICES ASSUME MaskedInv, Masking PROVE RuneAligned
    BY DEF RuneAligned
  <2>1. input.rule \in Rule /\ Value \in Seq(Rune)
    BY InputTyped
  <2>2. Starred(Value, masked)
    BY <2>1, ValueStars DEF MaskedInv
  <2>3. ASSUME NEW n \in HiddenPositions PROVE masked[n + 1] = "*"
    <3>1. n + 1 \in 1 .. Len(Value) /\ Value[n + 1] # masked[n + 1]
      BY <2>1 DEF HiddenPositions
    <3>2. QED
      BY <2>2, <3>1 DEF Starred
  <2>4. QED
    BY <2>2, <2>3 DEF RuneAligned, Starred
<1>3. QED
  BY <1>1, <1>2, PTL

(* Whatever the rule, a value that has something to hide is never reported *)
(* as it was.                                                              *)
THEOREM OriginalNeverShown == Spec => []NeverTheOriginal
<1>1. Spec => []MaskedInv
  BY MaskedInit, MaskedStep, PTL DEF Spec
<1>2. MaskedInv => NeverTheOriginal
  <2> SUFFICES ASSUME MaskedInv, Masking, \E i \in Solid(Value) : Value[i] # "*"
               PROVE  masked # Value
    BY DEF NeverTheOriginal
  <2>1. input.rule \in Rule /\ Value \in Seq(Rune)
    BY InputTyped
  <2>2. QED
    BY <2>1, ValueStars DEF MaskedInv
<1>3. QED
  BY <1>1, <1>2, PTL

\* Whatever the length of the value, each rule leaves readable what the
\* README's table of rules says it does, at the most (MaskValue and the twelve
\* rules of policy.go, the fallback for a rule that hides nothing included).
THEOREM RulesKeepTheirPromise == Spec => []RuleKeepsItsPromise
<1>1. Spec => []MaskedInv
  BY MaskedInit, MaskedStep, PTL DEF Spec
<1>2. MaskedInv => RuleKeepsItsPromise
  <2> SUFFICES ASSUME MaskedInv, Masking PROVE RuleKeepsItsPromise
    BY DEF RuleKeepsItsPromise
  <2> DEFINE v == Value
             rule == input.rule
  <2>1. /\ rule \in Rule /\ v \in Seq(Rune)
        /\ masked = MaskValue(rule, v)
    BY InputTyped DEF MaskedInv
  <2>2. /\ \A i \in ReadableDigits : i \in Digits(v) /\ masked[i] # "*"
        /\ \A i : FollowedBy(i) = Followed(v, i)
    BY DEF ReadableDigits, FollowedBy, Followed
  <2>3. Max(Solid(v)) = Hi(v)
    BY DEF Hi
  <2>4. CASE input.rule \in {"resident_registration_number",
                             "alien_registration_number"}
    <3>1. \A i \in ReadableDigits : SeenDigits(Value, i) < 6
      BY <2>1, <2>2, <2>4, RegistrationShows
    <3>2. QED
      BY <2>4, <3>1 DEF RuleKeepsItsPromise
  <2>5. CASE input.rule = "driver_license_number"
    <3>1. \A i \in ReadableDigits :
             SeenDigits(Value, i) < 4 \/ FollowedBy(i) < 2
      BY <2>1, <2>2, <2>5, LicenseShows
    <3>2. QED
      BY <2>5, <3>1 DEF RuleKeepsItsPromise
  <2>6. CASE input.rule = "passport_number"
    <3>1. \A i \in Solid(Value) :
             Max(Solid(Value)) - i < 4 =>
                 masked[i] = "*" \/ IsWhitespaceRune(Value[i])
      BY <2>1, <2>3, <2>6, PassportHides
    <3>2. QED
      BY <2>6, <3>1 DEF RuleKeepsItsPromise
  <2>7. CASE input.rule \in {"mobile_phone_number", "telephone_number"}
    <3>1. \A i \in ReadableDigits : FollowedBy(i) >= 4
      BY <2>1, <2>2, <2>7, PhoneShows
    <3>2. QED
      BY <2>7, <3>1 DEF RuleKeepsItsPromise
  <2>8. CASE input.rule = "credit_card_number"
    <3>1. \A i \in ReadableDigits : FollowedBy(i) < 4
      BY <2>1, <2>2, <2>8, CardShows
    <3>2. QED
      BY <2>8, <3>1 DEF RuleKeepsItsPromise
  <2>9. CASE input.rule = "bank_account_number"
    <3>1. \A i \in ReadableDigits :
             \/ FollowedBy(i) < 4
             \/ \A j \in i .. Max(Solid(Value)) : Value[j] \notin {"-", " "}
      BY <2>1, <2>2, <2>3, <2>9, AccountShows
    <3>2. QED
      BY <2>9, <3>1 DEF RuleKeepsItsPromise
  <2>10. CASE input.rule = "name"
    <3>1. \A i \in Solid(Value) : \A j \in Following(i) :
             masked[i] = "*" \/ masked[j] = "*"
      BY <2>1, <2>3, <2>10, NameHides DEF Following
    <3>2. QED
      BY <2>10, <3>1 DEF RuleKeepsItsPromise
  <2>11. CASE input.rule = "email_address"
    <3>1. \A i \in Solid(Value) :
             masked[i] # "*" =>
                 \/ Cardinality({j \in Solid(Value) : j < i}) < 3
                 \/ \E j \in 1 .. i : Value[j] = "@"
      BY <2>1, <2>11, MailShows
    <3>2. QED
      BY <2>11, <3>1 DEF RuleKeepsItsPromise
  <2>12. CASE input.rule = "ip_address"
    <3>1. ReadableDigits = {} \/
             Cardinality({i \in DOMAIN Value : Value[i] = "."}) = 3
      <4>1. ASSUME NEW i \in ReadableDigits
            PROVE  Cardinality({j \in DOMAIN Value : Value[j] = "."}) = 3
        <5>1. i \in Solid(v)
          BY <2>2 DEF Digits, Solid, IsSpace
        <5>2. QED
          BY <2>1, <2>2, <2>12, <5>1, NetworkShows DEF Dots
      <4>2. QED
        BY <4>1
    <3>2. QED
      BY <2>12, <3>1 DEF RuleKeepsItsPromise
  <2>13. CASE input.rule = "address"
    <3>1. \A i \in Solid(Value) :
             \/ masked[i] = "*"
             \/ \E s \in TokenStarts(Value) : s > i
      BY <2>1, <2>13, AddressShows
    <3>2. QED
      BY <2>13, <3>1 DEF RuleKeepsItsPromise
  <2>14. CASE input.rule = "generic_full_mask"
    <3>1. \A i \in Solid(Value) : masked[i] = "*"
      BY <2>1, <2>14, FullMaskHides
    <3>2. QED
      BY <2>14, <3>1 DEF RuleKeepsItsPromise
  <2>15. QED
    BY <2>1, <2>4, <2>5, <2>6, <2>7, <2>8, <2>9, <2>10, <2>11, <2>12, <2>13,
       <2>14 DEF Rule
<1>3. QED
  BY <1>1, <1>2, PTL

=============================================================================
