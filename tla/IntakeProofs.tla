---------------------------- MODULE IntakeProofs ----------------------------
(***************************************************************************)
(* Proofs about Intake: the arithmetic of the limits, for machine integers *)
(* of any width and units of any size.                                     *)
(***************************************************************************)
EXTENDS Intake, TLAPS

-----------------------------------------------------------------------------
(* Arithmetic.                                                             *)

LEMMA NotWrapped ==
  ASSUME NEW n \in Nat, n <= MaxInt, MaxInt \in Nat
  PROVE  Wrap(n) = n
<1>1. (n + MaxInt + 1) % (2 * (MaxInt + 1)) = n + MaxInt + 1
  OBVIOUS
<1>2. QED
  BY <1>1 DEF Wrap

\* The check of the factor is the check of the product.
LEMMA FactorBounded ==
  ASSUME NEW n \in Nat, NEW u \in Nat \ {0}, NEW m \in Nat
  PROVE  n > m \div u <=> n * u > m
<1> DEFINE q == m \div u
           r == m % u
<1>1. q \in Nat /\ r \in Nat /\ r < u /\ m = q * u + r
  OBVIOUS
<1> HIDE DEF q, r
<1>2. CASE n > q
  <2>1. n >= q + 1
    BY <1>1, <1>2
  <2>2. n * u >= (q + 1) * u
    BY <1>1, <2>1
  <2>3. (q + 1) * u = q * u + u
    BY <1>1
  <2>4. n * u > m
    BY <1>1, <2>2, <2>3
  <2>5. QED
    BY <1>2, <2>4 DEF q
<1>3. CASE n <= q
  <2>1. n * u <= q * u
    BY <1>1, <1>3
  <2>2. n * u <= m
    BY <1>1, <2>1
  <2>3. QED
    BY <1>1, <1>3, <2>2 DEF q
<1>4. QED
  BY <1>1, <1>2, <1>3

LEMMA ProductFits ==
  ASSUME NEW n \in Nat, NEW u \in Nat \ {0}, n * u <= MaxInt, MaxInt \in Nat
  PROVE  Parses(n) /\ Wrap(n * u) = n * u
<1> DEFINE p == n * u
<1>1. p >= n /\ p \in Nat /\ p <= MaxInt
  OBVIOUS
<1>2. Parses(n)
  BY <1>1 DEF Parses
<1> HIDE DEF p
<1>3. Wrap(p) = p
  BY <1>1, NotWrapped
<1>4. QED
  BY <1>2, <1>3 DEF p

LEMMA DurationInForce ==
  ASSUME NEW n \in Int, NEW allowZero \in BOOLEAN
  PROVE  EnvDuration(n, allowZero) =
            InForce(n, IF allowZero THEN 0 ELSE 1, Unit, DefaultTime)
<1> DEFINE low == IF allowZero THEN 0 ELSE 1
<1>0. MaxInt \in Nat /\ Unit \in Nat \ {0}
  BY IntakeAssumption
<1>1. low <= n <=> ~(n < 0 \/ (~allowZero /\ n = 0))
  OBVIOUS
<1>2. CASE ~(low <= n)
  BY <1>1, <1>2 DEF EnvDuration, InForce
<1>3. CASE low <= n /\ n * Unit > MaxInt
  <2>1. n \in Nat /\ n > MaxInt \div Unit
    BY <1>0, <1>1, <1>3, FactorBounded
  <2>2. EnvDuration(n, allowZero) = DefaultTime * Unit
    BY <2>1 DEF EnvDuration
  <2>3. ~(n * Unit <= MaxInt)
    BY <1>0, <1>3
  <2>4. QED
    BY <2>2, <2>3 DEF InForce
<1>4. CASE low <= n /\ n * Unit <= MaxInt
  <2>1. n \in Nat /\ ~(n > MaxInt \div Unit)
    BY <1>0, <1>1, <1>4, FactorBounded
  <2>2. Parses(n) /\ Wrap(n * Unit) = n * Unit
    BY <1>0, <1>4, <2>1, ProductFits
  <2>3. EnvDuration(n, allowZero) = n * Unit
    BY <1>1, <1>4, <2>1, <2>2 DEF EnvDuration
  <2>4. QED
    BY <1>4, <2>3 DEF InForce
<1>5. QED
  BY <1>0, <1>2, <1>3, <1>4

LEMMA MebibytesInForce ==
  ASSUME NEW n \in Int
  PROVE  EnvMebibytes(n) = InForce(n, 1, Mebibyte, DefaultSize)
<1>0. MaxInt \in Nat /\ Mebibyte \in Nat \ {0}
  BY IntakeAssumption
<1>1. CASE n <= 0
  BY <1>1 DEF EnvMebibytes, InForce
<1>2. CASE n > 0 /\ n * Mebibyte > MaxInt
  <2>1. n > MaxInt \div Mebibyte /\ ~(n * Mebibyte <= MaxInt)
    BY <1>0, <1>2, FactorBounded
  <2>2. QED
    BY <2>1 DEF EnvMebibytes, InForce
<1>3. CASE n > 0 /\ n * Mebibyte <= MaxInt
  <2>1. ~(n > MaxInt \div Mebibyte)
    BY <1>0, <1>3, FactorBounded
  <2>2. Parses(n) /\ Wrap(n * Mebibyte) = n * Mebibyte
    <3>1. n \in Nat
      BY <1>3
    <3>2. QED
      BY <1>0, <1>3, <3>1, ProductFits
  <2>3. ~(n <= 0) /\ 1 <= n
    BY <1>3
  <2>4. QED
    BY <1>3, <2>1, <2>2, <2>3 DEF EnvMebibytes, InForce
<1>4. QED
  BY <1>0, <1>1, <1>2, <1>3

\* Whatever is asked for, there is room for the headroom above it.
LEMMA RoomAbove ==
  ASSUME NEW n \in Int
  PROVE  LET s == InForce(n, 1, Mebibyte, DefaultSize)
         IN  s \in Nat /\ Wrap(s + Headroom) = s + Headroom /\ Wrap(s + 1) = s + 1
<1> DEFINE s == InForce(n, 1, Mebibyte, DefaultSize)
<1>1. PICK k \in Nat : MaxInt + 1 = k * Mebibyte
  BY IntakeAssumption
<1>2. MaxInt \in Nat /\ Mebibyte \in Nat \ {0} /\ Headroom \in Nat \ {0}
      /\ Headroom < Mebibyte /\ DefaultSize \in Nat
  BY IntakeAssumption
<1>3. PICK i \in Nat : s = i * Mebibyte /\ s <= MaxInt
  <2>1. CASE 1 <= n /\ n * Mebibyte <= MaxInt
    BY <1>2, <2>1 DEF InForce
  <2>2. CASE ~(1 <= n /\ n * Mebibyte <= MaxInt)
    BY <1>2, <2>2, IntakeAssumption DEF InForce
  <2>3. QED
    BY <2>1, <2>2
<1> HIDE DEF s
<1>4. s \in Nat
  BY <1>2, <1>3
<1>5. i < k
  <2>1. i * Mebibyte < k * Mebibyte
    BY <1>1, <1>2, <1>3, <1>4
  <2>2. i >= k => i * Mebibyte >= k * Mebibyte
    BY <1>2
  <2>3. QED
    BY <1>2, <2>1, <2>2
<1>6. (i + 1) * Mebibyte <= k * Mebibyte
  BY <1>2, <1>5
<1>7. s + Mebibyte <= MaxInt + 1
  BY <1>1, <1>2, <1>3, <1>6
<1>8. Wrap(s + Headroom) = s + Headroom /\ Wrap(s + 1) = s + 1
  <2>1. ASSUME NEW m \in Nat, m <= MaxInt PROVE Wrap(m) = m
    BY <1>2, <2>1, NotWrapped
  <2>2. s + Headroom \in Nat /\ s + Headroom <= MaxInt
        /\ s + 1 \in Nat /\ s + 1 <= MaxInt
    BY <1>2, <1>4, <1>7
  <2>3. QED
    BY <2>1, <2>2
<1>9. QED
  BY <1>4, <1>8 DEF s

-----------------------------------------------------------------------------
(* The limits, and the way of one upload.                                  *)

\* Where every upload stands, whatever its size and kind.
IntakeInv ==
    /\ env \in Environment
    /\ upload.size \in Nat /\ upload.framing \in Nat
    /\ LimitsAsAsked
    /\ stage # "start" => limits.size = InForce(env.size, 1, Mebibyte, DefaultSize)
    /\ stage = "too_large" => upload.size + upload.framing > BodyLimit
    /\ stage = "check" =>
          file.size = IF upload.size > FileLimit THEN FileLimit ELSE upload.size
    /\ stage \in {"accepted", "recheck", "masking"} => file.size = upload.size
    /\ stage \in {"accepted", "recheck", "masking"} => Valid /\ CountPages
    /\ stage # "failed"

LEMMA Limits ==
  ASSUME IntakeInv, stage # "start"
  PROVE  /\ limits.size \in Nat
         /\ BodyLimit = limits.size + Headroom
         /\ FileLimit = limits.size + 1
<1>1. env.size \in Int /\ limits.size = InForce(env.size, 1, Mebibyte, DefaultSize)
  BY DEF IntakeInv, Environment
<1>2. QED
  BY <1>1, RoomAbove DEF BodyLimit, FileLimit

LEMMA IntakeInit == InitWith(Environment) => IntakeInv
  BY DEF InitWith, IntakeInv, LimitsAsAsked, NoUpload

LEMMA IntakeKept == IntakeInv /\ [NextWith(Upload)]_vars => IntakeInv'
<1> SUFFICES ASSUME IntakeInv, [NextWith(Upload)]_vars PROVE IntakeInv'
  OBVIOUS
<1> USE DEF IntakeInv
<1>1. CASE Load
  <2>1. /\ env.size \in Int /\ env.retention \in Int /\ env.timeout \in Int
        /\ UNCHANGED <<env, upload, file>> /\ stage' = "serving"
    BY <1>1 DEF Load, Environment
  <2>2. /\ limits'.size = InForce(env.size, 1, Mebibyte, DefaultSize)
        /\ limits'.retention = InForce(env.retention, 0, Unit, DefaultTime)
        /\ limits'.timeout = InForce(env.timeout, 1, Unit, DefaultTime)
    BY <1>1, <2>1, DurationInForce, MebibytesInForce DEF Load
  <2>3. QED
    BY <2>1, <2>2 DEF LimitsAsAsked
<1>2. ASSUME NEW u \in Upload, Arrive(u) PROVE IntakeInv'
  BY <1>2 DEF Arrive, LimitsAsAsked, Upload
<1>3. CASE ReadBody
  BY <1>3 DEF ReadBody, GoTo, LimitsAsAsked, BodyLimit
<1>4. CASE ReadFile
  BY <1>4 DEF ReadFile, NewAttachment, LimitsAsAsked, FileLimit
<1>5. CASE Check
  <2>1. UNCHANGED <<env, limits, upload, file>> /\ stage = "check"
        /\ ((stage' = "accepted" /\ Valid /\ CountPages) \/ stage' = "bad_request")
    BY <1>5 DEF Check, GoTo
  <2>2. ASSUME Valid PROVE file.size = upload.size
    <3>1. limits.size \in Nat /\ FileLimit = limits.size + 1
      BY <2>1, Limits
    <3>2. file.size <= limits.size
      BY <2>2 DEF Valid
    <3>3. QED
      BY <2>1, <3>1, <3>2
  <2>3. QED
    BY <2>1, <2>2 DEF LimitsAsAsked, Valid, CountPages
<1>6. CASE Reload
  <2>1. UNCHANGED <<env, limits, upload>> /\ stage = "accepted" /\ stage' = "recheck"
    BY <1>6 DEF Reload
  <2>2. file'.size = file.size /\ file'.type = file.type
    <3>1. file.type \in Supported
      BY <2>1 DEF Valid
    <3>2. DetectAttachmentMIMEType(file.type, file.size) = file.type
      BY <3>1 DEF Supported, DetectAttachmentMIMEType, NormalizeMIMEType
    <3>3. QED
      BY <1>6, <3>2 DEF Reload, LoadJobInput, NewAttachment
  <2>3. QED
    BY <2>1, <2>2 DEF LimitsAsAsked, Valid, CountPages
<1>7. CASE Recheck
  BY <1>7 DEF Recheck, GoTo, LimitsAsAsked, Valid, CountPages
<1>8. CASE Again
  BY <1>8 DEF Again, LimitsAsAsked, NoUpload, Refused
<1>9. CASE UNCHANGED vars
  BY <1>9 DEF vars, LimitsAsAsked, BodyLimit, FileLimit, Valid, CountPages
<1>10. QED
  BY <1>1, <1>2, <1>3, <1>4, <1>5, <1>6, <1>7, <1>8, <1>9 DEF NextWith

LEMMA IntakeAlways == Spec => []IntakeInv
  BY IntakeInit, IntakeKept, PTL DEF Spec

\* For integers of any width, every limit in force is the one asked for or,
\* where no integer can hold that, the default: none wraps.
THEOREM LimitsExact == Spec => []LimitsAsAsked
<1>1. IntakeInv => LimitsAsAsked
  BY DEF IntakeInv
<1>2. QED
  BY <1>1, IntakeAlways, PTL

\* For any limit and any document, what is accepted is all of the document.
THEOREM NothingCut == Spec => []AcceptedIsWhole
<1>1. IntakeInv => AcceptedIsWhole
  BY DEF IntakeInv, AcceptedIsWhole, Valid
<1>2. QED
  BY <1>1, IntakeAlways, PTL

\* For any limit, 413 means that the document or its framing is too large.
THEOREM TooLargeMeansIt == Spec => []TooLargeIsTooLarge
<1>1. IntakeInv => TooLargeIsTooLarge
  <2> SUFFICES ASSUME IntakeInv, stage = "too_large"
      PROVE  upload.size > limits.size \/ upload.framing > Headroom
    BY DEF TooLargeIsTooLarge
  <2>1. limits.size \in Nat /\ BodyLimit = limits.size + Headroom
    BY Limits
  <2>2. upload.size \in Nat /\ upload.framing \in Nat
        /\ upload.size + upload.framing > BodyLimit
    BY DEF IntakeInv
  <2>3. QED
    BY <2>1, <2>2, IntakeAssumption
<1>2. QED
  BY <1>1, IntakeAlways, PTL

\* For any limits, a job that was accepted passes the checks of its run.
THEOREM AcceptedOnceAcceptedTwice == Spec => []AcceptedStaysAcceptable
<1>1. IntakeInv => AcceptedStaysAcceptable
  BY DEF IntakeInv, AcceptedStaysAcceptable
<1>2. QED
  BY <1>1, IntakeAlways, PTL

=============================================================================
