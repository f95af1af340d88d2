------------------------------ MODULE MaskPolicy -----------------------------
(***************************************************************************)
(* From the value of a field to the characters to hide: the twelve masking *)
(* rules and their fallback (MaskValue), and the runs of characters they   *)
(* hide (ComputeMaskedRuneSpans).  The rule stands for the key that        *)
(* selects it.  Runes are told apart only as far as the rules do.          *)
(***************************************************************************)
EXTENDS Integers, Sequences, FiniteSets, SequencesExt, FiniteSetsExt

CONSTANTS
    Inputs      \* the rule and the value of every field: [rule, value]

\* An ASCII digit, any other character, one that ends the name of a road or
\* district, an asterisk, a space, the wide space of East Asian typography or
\* another that is white space to Unicode alone, and the separators the rules
\* look at.
Rune == {"digit", "letter", "road", "*", " ", "wide", "-", "@", "."}

Rule == {"resident_registration_number", "driver_license_number",
         "passport_number", "alien_registration_number",
         "mobile_phone_number", "telephone_number", "credit_card_number",
         "bank_account_number", "name", "email_address", "ip_address",
         "address", "generic_full_mask"}

ASSUME PolicyAssumption == Inputs \subseteq [rule : Rule, value : Seq(Rune)]

VARIABLES
    input,      \* the field
    masked,     \* its value as it will be reported
    index,      \* the scan of ComputeMaskedRuneSpans, from 0
    start,      \* where the run it is in began, -1 outside of one
    spans,      \* the runs found, [from, to], counted from 0
    stage

vars == <<input, masked, index, start, spans, stage>>

\* unicode.IsSpace and isWhitespaceRune.
IsSpace(c) == c \in {" ", "wide"}
IsWhitespaceRune(c) == c = " "

-----------------------------------------------------------------------------
(* The helpers of the rules.  Each hides a set of positions.               *)

Hide(v, positions) == [i \in DOMAIN v |-> IF i \in positions THEN "*" ELSE v[i]]

Digits(v) == {i \in DOMAIN v : v[i] = "digit"}

Visible(v) == {i \in DOMAIN v : ~IsWhitespaceRune(v[i])}

CountDigits(v) == Cardinality(Digits(v))

\* How many digits come before position i: seenDigits when it is reached.
SeenDigits(v, i) == Cardinality({j \in Digits(v) : j < i})

MaskAllVisible(v) == Hide(v, Visible(v))

MaskAllDigits(v) == Hide(v, Digits(v))

MaskDigitsAfter(v, keep) == Hide(v, {i \in Digits(v) : SeenDigits(v, i) >= keep})

MaskKeepTrailingDigits(v, trailing) ==
    IF CountDigits(v) <= trailing THEN MaskAllDigits(v)
    ELSE Hide(v, {i \in Digits(v) : SeenDigits(v, i) < CountDigits(v) - trailing})

MaskLastDigits(v, last) ==
    IF CountDigits(v) <= last THEN MaskAllDigits(v)
    ELSE Hide(v, {i \in Digits(v) : SeenDigits(v, i) >= CountDigits(v) - last})

\* The pattern maskDriverLicense tries first hides the same six digits.
MaskDigitsRange(v, leading, trailing) ==
    IF leading + trailing >= CountDigits(v) THEN MaskAllDigits(v)
    ELSE Hide(v, {i \in Digits(v) :
                     /\ SeenDigits(v, i) >= leading
                     /\ SeenDigits(v, i) < CountDigits(v) - trailing})

MaskTrailingRunes(v, trailing) ==
    IF Len(v) <= trailing THEN Hide(v, DOMAIN v)
    ELSE Hide(v, {i \in Visible(v) : i > Len(v) - trailing})

\* Wrong on purpose: what follows the separator is looked for from the left.
MaskAccountNumberFirst(v) ==
    LET separators == {i \in DOMAIN v : v[i] \in {"-", " "}}
    IN  IF separators # {} /\ Min(separators) < Len(v)
          THEN Hide(v, {i \in Digits(v) : i <= Min(separators)})
          ELSE MaskKeepTrailingDigits(v, 4)

MaskAccountNumber(v) ==
    LET separators == {i \in DOMAIN v : v[i] \in {"-", " "}}
    IN  IF separators # {} /\ Max(separators) < Len(v)
          THEN MaskAllDigits(SubSeq(v, 1, Max(separators)))
                 \o SubSeq(v, Max(separators) + 1, Len(v))
          ELSE MaskKeepTrailingDigits(v, 4)

MaskEveryEvenRune(v) ==
    Hide(v, {i \in Visible(v) : Cardinality({j \in Visible(v) : j <= i}) % 2 = 0})

\* The part before the first "@", if there is one with something on both sides.
MaskEmail(v) ==
    LET ats == {i \in DOMAIN v : v[i] = "@"}
        at == Min(ats)
        local == SubSeq(v, 1, at - 1)
    IN  IF ats = {} THEN MaskAllVisible(v)
        ELSE IF at = 1 \/ at = Len(v) THEN MaskAllVisible(v)
        ELSE Hide(local, {i \in DOMAIN local : Len(local) <= 4 \/ i > 3})
               \o SubSeq(v, at, Len(v))

\* Four groups of one to three digits: the third is hidden.
MaskIPAddress(v) ==
    LET dots == {i \in DOMAIN v : v[i] = "."}
        group(i) == Cardinality({j \in dots : j < i}) + 1
        width(g) == Cardinality({i \in DOMAIN v \ dots : group(i) = g})
    IN  IF /\ \A i \in DOMAIN v \ dots : v[i] = "digit"
           /\ Cardinality(dots) = 3
           /\ \A g \in 1 .. 4 : width(g) \in 1 .. 3
          THEN Hide(v, {i \in DOMAIN v \ dots : group(i) = 3})
          ELSE MaskAllVisible(v)

TokenStarts(v) == {i \in DOMAIN v : ~IsSpace(v[i]) /\ (i = 1 \/ IsSpace(v[i - 1]))}

\* The number of the token position i is in or after.
TokenAt(v, i) == Cardinality({s \in TokenStarts(v) : s <= i})

\* The tokens that end like the name of a road or district.
Boundaries(v) ==
    {TokenAt(v, i) : i \in {j \in DOMAIN v :
        v[j] = "road" /\ (j = Len(v) \/ IsSpace(v[j + 1]))}}

\* How many tokens of an address stay readable.
AddressCutoff(v) ==
    LET tokens == Cardinality(TokenStarts(v))
        found == IF Boundaries(v) # {} THEN Min(Boundaries(v)) ELSE tokens
        cutoff == IF found = tokens /\ tokens > 3 THEN 3 ELSE found
    IN  IF cutoff >= tokens THEN tokens - 1 ELSE cutoff

MaskAddress(v) ==
    Hide(v, {i \in DOMAIN v : ~IsSpace(v[i]) /\ TokenAt(v, i) > AddressCutoff(v)})

MaskTrimmedValue(rule, v) ==
    CASE rule \in {"resident_registration_number", "alien_registration_number"} ->
            MaskDigitsAfter(v, 6)
      [] rule = "driver_license_number" -> MaskDigitsRange(v, 4, 2)
      [] rule = "passport_number" -> MaskTrailingRunes(v, 4)
      [] rule \in {"mobile_phone_number", "telephone_number"} -> MaskLastDigits(v, 4)
      [] rule = "credit_card_number" -> MaskKeepTrailingDigits(v, 4)
      [] rule = "bank_account_number" -> MaskAccountNumber(v)
      [] rule = "name" -> MaskEveryEvenRune(v)
      [] rule = "email_address" -> MaskEmail(v)
      [] rule = "ip_address" -> MaskIPAddress(v)
      [] rule = "address" -> MaskAddress(v)
      [] rule = "generic_full_mask" -> MaskAllVisible(v)

-----------------------------------------------------------------------------

\* strings.TrimSpace, and what it takes off on either side.
Solid(v) == {i \in DOMAIN v : ~IsSpace(v[i])}
Leading(v) == SubSeq(v, 1, Min(Solid(v)) - 1)
Trimmed(v) == IF Solid(v) = {} THEN <<>> ELSE SubSeq(v, Min(Solid(v)), Max(Solid(v)))
Trailing(v) == SubSeq(v, Max(Solid(v)) + 1, Len(v))

\* Wrong on purpose: the rule's word is taken for it.
MaskValueAsRuled(rule, v) ==
    IF Trimmed(v) = <<>> THEN v
    ELSE Leading(v) \o MaskTrimmedValue(rule, Trimmed(v)) \o Trailing(v)

\* Wrong on purpose: the surrounding space is not put back.
MaskValueTrimmed(rule, v) ==
    LET inner == MaskTrimmedValue(rule, Trimmed(v))
    IN  IF Trimmed(v) = <<>> THEN v
        ELSE IF inner = Trimmed(v) THEN MaskAllVisible(Trimmed(v)) ELSE inner

MaskValue(rule, v) ==
    LET inner == MaskTrimmedValue(rule, Trimmed(v))
        hidden == IF inner = Trimmed(v) THEN MaskAllVisible(Trimmed(v)) ELSE inner
    IN  IF Trimmed(v) = <<>> THEN v ELSE Leading(v) \o hidden \o Trailing(v)

-----------------------------------------------------------------------------

Value == input.value

Stage == {"mask", "scan", "done"}

TypeOK ==
    /\ input \in Inputs
    /\ stage \in Stage
    /\ masked \in Seq(Rune)
    /\ index \in 0 .. Len(Value)
    /\ start \in -1 .. Len(Value) - 1
    /\ \A i \in DOMAIN spans : spans[i] \in [from : Nat, to : 1 .. Len(Value)]

Init ==
    /\ input \in Inputs
    /\ masked = <<>>
    /\ index = 0
    /\ start = -1
    /\ spans = <<>>
    /\ stage = "mask"

Mask ==
    /\ stage = "mask"
    /\ masked' = MaskValue(input.rule, Value)
    /\ stage' = "scan"
    /\ UNCHANGED <<input, index, start, spans>>

\* Values that are not aligned are not scanned and have no spans: RuneAligned
\* says that there are none.
Hidden(n) == Value[n + 1] # masked[n + 1] /\ masked[n + 1] = "*"

\* Wrong on purpose: a run goes on through the character after it.
ScanRuneLate ==
    /\ stage = "scan"
    /\ Len(masked) = Len(Value)
    /\ index < Len(Value)
    /\ index' = index + 1
    /\ IF Hidden(index)
         THEN /\ start' = IF start = -1 THEN index ELSE start
              /\ spans' = spans
         ELSE /\ start' = -1
              /\ spans' = IF start = -1 THEN spans
                          ELSE Append(spans, [from |-> start, to |-> index + 1])
    /\ UNCHANGED <<input, masked, stage>>

\* One turn of the loop.
ScanRune ==
    /\ stage = "scan"
    /\ Len(masked) = Len(Value)
    /\ index < Len(Value)
    /\ index' = index + 1
    /\ IF Hidden(index)
         THEN /\ start' = IF start = -1 THEN index ELSE start
              /\ spans' = spans
         ELSE /\ start' = -1
              /\ spans' = IF start = -1 THEN spans
                          ELSE Append(spans, [from |-> start, to |-> index])
    /\ UNCHANGED <<input, masked, stage>>

\* The run that reaches the end of the value.
EndScan ==
    /\ stage = "scan"
    /\ Len(masked) = Len(Value)
    /\ index = Len(Value)
    /\ spans' = IF start = -1 THEN spans
                ELSE Append(spans, [from |-> start, to |-> Len(Value)])
    /\ stage' = "done"
    /\ UNCHANGED <<input, masked, index, start>>

Next == Mask \/ ScanRune \/ EndScan

Spec == Init /\ [][Next]_vars

-----------------------------------------------------------------------------
(* Properties.                                                             *)

\* Positions, from 0, where the reported value differs from the printed one.
HiddenPositions == {n \in 0 .. Len(Value) - 1 : Value[n + 1] # masked[n + 1]}

Masking == stage # "mask"

\* The reported value lines up with the printed one, rune by rune, and
\* differs from it only in asterisks: otherwise the spans would blank the
\* wrong characters of the box (MaskValue's contract).
RuneAligned ==
    Masking => /\ Len(masked) = Len(Value)
               /\ \A n \in HiddenPositions : masked[n + 1] = "*"

\* README: a value under a rule never stays as it was in pii_summary or
\* job.json, however short it is.  Blank values and ready-made asterisks have
\* nothing left to hide.
NeverTheOriginal ==
    Masking /\ (\E i \in Solid(Value) : Value[i] # "*") => masked # Value

Covered(runs) == UNION {runs[k].from .. runs[k].to - 1 : k \in DOMAIN runs}

\* The loop finds the hidden positions, all of them and nothing else, in runs
\* that neither touch nor overlap, in order (ComputeMaskedRuneSpans).
SpansAreTheHidden ==
    stage = "done" =>
        /\ Covered(spans) = {n \in 0 .. Len(Value) - 1 : Hidden(n)}
        /\ \A k \in DOMAIN spans : spans[k].from < spans[k].to
        /\ \A k \in 2 .. Len(spans) : spans[k - 1].to < spans[k].from

\* Digits of the printed value that can still be read.
ReadableDigits == {i \in Digits(Value) : masked[i] # "*"}

FollowedBy(i) == Cardinality({j \in Digits(Value) : j > i})

\* The character after the one at i, white space aside.
Following(i) ==
    {j \in Visible(Value) :
        /\ i < j /\ j <= Max(Solid(Value))
        /\ \A k \in i + 1 .. j - 1 : IsWhitespaceRune(Value[k])}

\* The README's table of rules: what each leaves readable, at the most.
RuleKeepsItsPromise ==
    Masking /\ Len(masked) = Len(Value) =>
      CASE input.rule \in {"resident_registration_number", "alien_registration_number"} ->
              \A i \in ReadableDigits : SeenDigits(Value, i) < 6
        [] input.rule = "driver_license_number" ->
              \A i \in ReadableDigits : SeenDigits(Value, i) < 4 \/ FollowedBy(i) < 2
        [] input.rule = "passport_number" ->
              \A i \in Solid(Value) :
                  Max(Solid(Value)) - i < 4 => masked[i] = "*" \/ IsWhitespaceRune(Value[i])
        [] input.rule \in {"mobile_phone_number", "telephone_number"} ->
              \A i \in ReadableDigits : FollowedBy(i) >= 4
        [] input.rule = "credit_card_number" ->
              \A i \in ReadableDigits : FollowedBy(i) < 4
        [] input.rule = "bank_account_number" ->
              \A i \in ReadableDigits :
                  \/ FollowedBy(i) < 4
                  \/ \A j \in i .. Max(Solid(Value)) : Value[j] \notin {"-", " "}
        [] input.rule = "name" ->
              \A i \in Solid(Value) : \A j \in Following(i) :
                  masked[i] = "*" \/ masked[j] = "*"
        [] input.rule = "email_address" ->
              \A i \in Solid(Value) :
                  masked[i] # "*" =>
                      \/ Cardinality({j \in Solid(Value) : j < i}) < 3
                      \/ \E j \in 1 .. i : Value[j] = "@"
        [] input.rule = "ip_address" ->
              ReadableDigits = {} \/
                  Cardinality({i \in DOMAIN Value : Value[i] = "."}) = 3
        [] input.rule = "address" ->
              \A i \in Solid(Value) :
                  \/ masked[i] = "*"
                  \/ \E s \in TokenStarts(Value) : s > i
        [] input.rule = "generic_full_mask" ->
              \A i \in Solid(Value) : masked[i] = "*"

-----------------------------------------------------------------------------

\* README: of a name, the even characters are masked.  A space between two
\* characters is not one of them, a wide one no more than any other.
EvenCharactersMasked ==
    Masking /\ input.rule = "name" =>
        \A i, j \in Solid(Value) :
            i < j /\ (\A k \in i + 1 .. j - 1 : IsSpace(Value[k]))
                => masked[i] = "*" \/ masked[j] = "*"

=============================================================================
