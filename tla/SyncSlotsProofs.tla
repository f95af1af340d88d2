-------------------------- MODULE SyncSlotsProofs ---------------------------
(* Proofs about SyncSlots, for any set of requests and any capacity.       *)
EXTENDS SyncSlots, FiniteSetTheorems, TLAPS

(* What is left of a queue when its i-th element leaves it.                *)
LEMMA RemovedFromQueue ==
  ASSUME NEW S, NEW s \in Seq(S), NEW i \in DOMAIN s
  PROVE  /\ RemoveAt(s, i) \in Seq(S)
         /\ DOMAIN RemoveAt(s, i) = 1 .. Len(s) - 1
         /\ \A k \in 1 .. Len(s) - 1 :
               RemoveAt(s, i)[k] = IF k < i THEN s[k] ELSE s[k + 1]
<1> DEFINE a == SubSeq(s, 1, i - 1)
           b == SubSeq(s, i + 1, Len(s))
<1>0. i \in 1 .. Len(s) /\ Len(s) \in Nat
  OBVIOUS
<1>1. /\ a \in Seq(S) /\ Len(a) = i - 1
      /\ \A k \in 1 .. i - 1 : a[k] = s[k]
  BY <1>0
<1>2. /\ b \in Seq(S) /\ Len(b) = Len(s) - i
      /\ \A k \in 1 .. Len(s) - i : b[k] = s[k + i]
  BY <1>0
<1>3. RemoveAt(s, i) = a \o b
  BY DEF RemoveAt
<1>4. /\ a \o b \in Seq(S) /\ Len(a \o b) = Len(s) - 1
      /\ \A k \in 1 .. Len(s) - 1 :
            (a \o b)[k] = IF k < i THEN s[k] ELSE s[k + 1]
  <2> HIDE DEF a, b
  <2>1. a \o b \in Seq(S) /\ Len(a \o b) = Len(s) - 1
    BY <1>0, <1>1, <1>2
  <2>2. ASSUME NEW k \in 1 .. Len(s) - 1
        PROVE  (a \o b)[k] = IF k < i THEN s[k] ELSE s[k + 1]
    <3>1. CASE k < i
      BY <1>0, <1>1, <1>2, <3>1
    <3>2. CASE ~(k < i)
      <4>1. (a \o b)[k] = b[k - (i - 1)]
        BY <1>0, <1>1, <1>2, <3>2
      <4>2. k - (i - 1) \in 1 .. Len(s) - i /\ (k - (i - 1)) + i = k + 1
        BY <1>0, <3>2
      <4>3. QED
        BY <4>1, <4>2, <1>2, <3>2
    <3>3. QED
      BY <3>1, <3>2
  <2>3. QED
    BY <2>1, <2>2
<1>5. DOMAIN (a \o b) = 1 .. Len(s) - 1
  <2> HIDE DEF a, b
  <2>1. QED
    BY <1>4
<1>6. QED
  <2> HIDE DEF a, b
  <2>1. QED
    BY <1>3, <1>4, <1>5

-----------------------------------------------------------------------------
(* The induction.                                                          *)

IInv == TypeOK /\ SlotsExact /\ NobodyWaitsInVain

QueueHolds(w, r) == \E k \in DOMAIN w : w[k] = r

(* A request that leaves the queue is the only one it loses.               *)
LEMMA Leaving ==
  ASSUME TypeOK, NobodyWaitsInVain, NEW i \in DOMAIN waiting
  PROVE  LET w == RemoveAt(waiting, i) IN
         /\ w \in Seq(Requests)
         /\ \A q \in Requests :
               QueueHolds(w, q) <=> q # waiting[i] /\ QueueHolds(waiting, q)
         /\ \A k, l \in DOMAIN w : w[k] = w[l] => k = l
<1> DEFINE w == RemoveAt(waiting, i)
           n == Len(waiting)
<1>1. waiting \in Seq(Requests) /\ n \in Nat /\ i \in 1 .. n
  BY DEF TypeOK
<1>2. /\ w \in Seq(Requests) /\ DOMAIN w = 1 .. n - 1
      /\ \A k \in 1 .. n - 1 : w[k] = IF k < i THEN waiting[k] ELSE waiting[k + 1]
  BY <1>1, RemovedFromQueue
<1>3. \A k, l \in 1 .. n : waiting[k] = waiting[l] => k = l
  BY <1>1 DEF NobodyWaitsInVain
<1> HIDE DEF w
<1>4. ASSUME NEW k \in DOMAIN w, NEW l \in DOMAIN w, w[k] = w[l]
      PROVE  k = l
  <2>1. PICK x \in 1 .. n : w[k] = waiting[x] /\ x = IF k < i THEN k ELSE k + 1
    BY <1>1, <1>2
  <2>2. PICK y \in 1 .. n : w[l] = waiting[y] /\ y = IF l < i THEN l ELSE l + 1
    BY <1>1, <1>2
  <2>3. x = y
    BY <1>3, <1>4, <2>1, <2>2
  <2>4. QED
    BY <1>1, <1>2, <2>1, <2>2, <2>3
<1>5. ASSUME NEW q \in Requests
      PROVE  QueueHolds(w, q) <=> q # waiting[i] /\ QueueHolds(waiting, q)
  <2>1. ASSUME QueueHolds(w, q)
        PROVE  q # waiting[i] /\ QueueHolds(waiting, q)
    <3>1. PICK k \in DOMAIN w : w[k] = q
      BY <2>1 DEF QueueHolds
    <3>2. PICK x \in 1 .. n : q = waiting[x] /\ x = IF k < i THEN k ELSE k + 1
      BY <1>1, <1>2, <3>1
    <3>3. x # i
      BY <1>1, <1>2, <3>2
    <3>4. QED
      BY <1>1, <1>3, <3>2, <3>3 DEF QueueHolds
  <2>2. ASSUME q # waiting[i], QueueHolds(waiting, q)
        PROVE  QueueHolds(w, q)
    <3>1. PICK x \in 1 .. n : waiting[x] = q
      BY <1>1, <2>2 DEF QueueHolds
    <3>2. x # i
      BY <2>2, <3>1
    <3>3. CASE x < i
      BY <1>1, <1>2, <3>1, <3>3 DEF QueueHolds
    <3>4. CASE x > i
      <4>1. x - 1 \in 1 .. n - 1 /\ ~(x - 1 < i) /\ (x - 1) + 1 = x
        BY <1>1, <3>4
      <4>2. w[x - 1] = q
        BY <1>2, <3>1, <4>1
      <4>3. QED
        BY <1>2, <4>1, <4>2 DEF QueueHolds
    <3>5. QED
      BY <1>1, <3>2, <3>3, <3>4
  <2>3. QED
    BY <2>1, <2>2
<1>6. QED
  BY <1>2, <1>4, <1>5 DEF w

(* The number of holders after each kind of step.                          *)
LEMMA HolderCounts ==
  ASSUME NEW H, H \subseteq Requests
  PROVE  /\ Cardinality(H) \in Nat
         /\ \A r \in Requests \ H :
               Cardinality(H \cup {r}) = Cardinality(H) + 1
         /\ \A r \in H :
               Cardinality(H \ {r}) = Cardinality(H) - 1
         /\ \A r \in H, h \in Requests \ H :
               Cardinality((H \ {r}) \cup {h}) = Cardinality(H)
<1>1. \A T : T \subseteq Requests =>
          IsFiniteSet(T) /\ Cardinality(T) \in Nat
  BY SyncAssumption, FS_Subset, FS_CardinalityType
<1>2. ASSUME NEW T, T \subseteq Requests, NEW r \in Requests \ T
      PROVE  Cardinality(T \cup {r}) = Cardinality(T) + 1
  BY <1>1, <1>2, FS_AddElement
<1>3. ASSUME NEW r \in H PROVE Cardinality(H \ {r}) = Cardinality(H) - 1
  BY <1>1, FS_RemoveElement
<1>4. ASSUME NEW r \in H, NEW h \in Requests \ H
      PROVE  Cardinality((H \ {r}) \cup {h}) = Cardinality(H)
  <2>1. Cardinality((H \ {r}) \cup {h}) = Cardinality(H \ {r}) + 1
    BY <1>2
  <2>2. QED
    BY <1>1, <1>3, <2>1
<1>5. QED
  BY <1>1, <1>2, <1>3, <1>4

LEMMA InitInv == Init => IInv
<1> SUFFICES ASSUME Init PROVE IInv
  OBVIOUS
<1>1. Holding = {}
  BY DEF Init, Holding
<1>2. TypeOK
  BY DEF Init, TypeOK, PC
<1>3. SlotsExact
  BY <1>1, FS_EmptySet, SyncAssumption DEF Init, SlotsExact
<1>4. NobodyWaitsInVain
  BY DEF Init, NobodyWaitsInVain
<1>5. QED
  BY <1>2, <1>3, <1>4 DEF IInv

(* A step that moves r without a slot before or after, and leaves the      *)
(* channel alone.                                                          *)
LEMMA Elsewhere ==
  ASSUME IInv, NEW r \in Requests, NEW place \in PC,
         pc[r] \notin {"parked", "masking", "releasing"},
         place \notin {"parked", "masking", "releasing"},
         GoTo(r, place), UNCHANGED <<used, waiting>>
  PROVE  SlotsExact' /\ NobodyWaitsInVain'
<1>1. pc' = [pc EXCEPT ![r] = place] /\ pc \in [Requests -> PC]
  BY DEF IInv, TypeOK, GoTo
<1>2. Holding' = Holding
  BY <1>1 DEF Holding
<1>3. \A q \in Requests : pc'[q] = "parked" <=> pc[q] = "parked"
  BY <1>1
<1>4. QED
  BY <1>2, <1>3 DEF IInv, SlotsExact, NobodyWaitsInVain

(* A step that gives r a slot from the buffer.                             *)
LEMMA Taking ==
  ASSUME IInv, NEW r \in Requests, pc[r] \in {"arrived", "selecting"},
         used < MaxConcurrentSync, used' = used + 1, TakeSlot(r),
         UNCHANGED waiting
  PROVE  SlotsExact' /\ NobodyWaitsInVain'
<1>1. pc' = [pc EXCEPT ![r] = "masking"] /\ pc \in [Requests -> PC]
  BY DEF IInv, TypeOK, TakeSlot, GoTo
<1>2. Holding' = Holding \cup {r} /\ r \notin Holding /\ Holding \subseteq Requests
  BY <1>1 DEF Holding
<1>3. Cardinality(Holding') = used'
  BY <1>2, HolderCounts DEF IInv, SlotsExact
<1>4. waiting = <<>>
  BY SyncAssumption DEF IInv, NobodyWaitsInVain
<1>5. \A q \in Requests : pc'[q] = "parked" <=> pc[q] = "parked"
  BY <1>1
<1>6. used \in Nat
  BY DEF IInv, TypeOK
<1>7. QED
  BY <1>3, <1>4, <1>5, <1>6, SyncAssumption DEF IInv, SlotsExact, NobodyWaitsInVain

(* A step by which a parked request gives up.                              *)
LEMMA GivingUp ==
  ASSUME IInv, NEW r \in Requests, pc[r] = "parked", Leave(r),
         GoTo(r, "done"), UNCHANGED used
  PROVE  waiting' \in Seq(Requests) /\ SlotsExact' /\ NobodyWaitsInVain'
<1>1. pc' = [pc EXCEPT ![r] = "done"] /\ pc \in [Requests -> PC]
  BY DEF IInv, TypeOK, GoTo
<1>2. PICK i \in DOMAIN waiting :
          waiting[i] = r /\ waiting' = RemoveAt(waiting, i)
  BY DEF Leave
<1>3. /\ waiting' \in Seq(Requests)
      /\ \A q \in Requests :
            QueueHolds(waiting', q) <=> q # r /\ QueueHolds(waiting, q)
      /\ \A k, l \in DOMAIN waiting' : waiting'[k] = waiting'[l] => k = l
  BY <1>2, Leaving DEF IInv
<1>4. Holding' = Holding
  BY <1>1 DEF Holding
<1>5. waiting # <<>>
  BY <1>2
<1>6. \A q \in Requests : pc'[q] = "parked" <=> q # r /\ pc[q] = "parked"
  BY <1>1
<1>7. NobodyWaitsInVain'
  BY <1>3, <1>5, <1>6 DEF IInv, NobodyWaitsInVain, QueueHolds
<1>8. QED
  BY <1>3, <1>4, <1>7 DEF IInv, SlotsExact

LEMMA Parking ==
  ASSUME IInv, NEW r \in Requests, Park(r)
  PROVE  waiting' \in Seq(Requests) /\ SlotsExact' /\ NobodyWaitsInVain'
<1>1. /\ pc' = [pc EXCEPT ![r] = "parked"] /\ pc \in [Requests -> PC]
      /\ pc[r] = "selecting" /\ used = MaxConcurrentSync /\ used' = used
      /\ waiting \in Seq(Requests) /\ waiting' = Append(waiting, r)
  BY DEF IInv, TypeOK, Park, GoTo
<1>2. /\ waiting' \in Seq(Requests)
      /\ DOMAIN waiting = 1 .. Len(waiting) /\ Len(waiting) \in Nat
      /\ DOMAIN waiting' = 1 .. Len(waiting) + 1
      /\ waiting'[Len(waiting) + 1] = r
      /\ \A k \in 1 .. Len(waiting) : waiting'[k] = waiting[k]
  BY <1>1
<1>3. Holding' = Holding
  BY <1>1 DEF Holding
<1>4. \A k \in DOMAIN waiting : waiting[k] # r
  BY <1>1 DEF IInv, NobodyWaitsInVain
<1>5. \A q \in Requests :
          (\E k \in DOMAIN waiting' : waiting'[k] = q)
              <=> q = r \/ (\E k \in DOMAIN waiting : waiting[k] = q)
  BY <1>2
<1>6. \A q \in Requests : pc'[q] = "parked" <=> q = r \/ pc[q] = "parked"
  BY <1>1
<1>7. \A k, l \in DOMAIN waiting' : waiting'[k] = waiting'[l] => k = l
  <2>1. \A k, l \in 1 .. Len(waiting) : waiting[k] = waiting[l] => k = l
    BY <1>2 DEF IInv, NobodyWaitsInVain
  <2>2. QED
    BY <1>2, <1>4, <2>1
<1>8. NobodyWaitsInVain'
  BY <1>1, <1>5, <1>6, <1>7 DEF IInv, NobodyWaitsInVain
<1>9. QED
  BY <1>1, <1>2, <1>3, <1>8 DEF IInv, SlotsExact

LEMMA Releasing ==
  ASSUME IInv, NEW r \in Requests, Release(r)
  PROVE  TypeOK' /\ SlotsExact' /\ NobodyWaitsInVain'
<1>1. /\ pc[r] = "releasing" /\ pc \in [Requests -> PC] /\ used \in Nat
      /\ waiting \in Seq(Requests)
      /\ UNCHANGED <<queueWait, expired, hungUp, answer>>
  BY DEF IInv, TypeOK, Release
<1>2. r \in Holding /\ Holding \subseteq Requests
  BY <1>1 DEF Holding
<1>3. /\ Cardinality(Holding \ {r}) = Cardinality(Holding) - 1
      /\ \A h \in Requests \ Holding :
            Cardinality((Holding \ {r}) \cup {h}) = Cardinality(Holding)
      /\ Cardinality(Holding) \in Nat
  BY <1>2, HolderCounts
<1>4. CASE waiting = <<>>
  <2>1. /\ pc' = [pc EXCEPT ![r] = "done"] /\ used' = used - 1
        /\ UNCHANGED <<waiting, started>>
    BY <1>4 DEF Release, GiveBack, GoTo
  <2>2. Holding' = Holding \ {r}
    BY <1>1, <2>1 DEF Holding
  <2>3. used' = Cardinality(Holding \ {r}) /\ Cardinality(Holding \ {r}) \in Nat
    BY <1>3, <2>1, <2>2, HolderCounts DEF IInv, SlotsExact, Holding
  <2>4. SlotsExact'
    BY <1>1, <2>1, <2>2, <2>3, SyncAssumption DEF IInv, SlotsExact
  <2>5. \A q \in Requests : pc'[q] = "parked" <=> pc[q] = "parked"
    BY <1>1, <2>1
  <2>6. NobodyWaitsInVain'
    BY <1>4, <2>1, <2>5 DEF IInv, NobodyWaitsInVain
  <2>7. TypeOK'
    BY <1>1, <2>1, <2>3 DEF IInv, TypeOK, PC
  <2>8. QED
    BY <2>4, <2>6, <2>7
<1>5. CASE waiting # <<>>
  <2> DEFINE h == waiting[1]
  <2>1. 1 \in DOMAIN waiting /\ h \in Requests
    BY <1>1, <1>5
  <2>2. /\ waiting' = RemoveAt(waiting, 1) /\ used' = used
        /\ pc' = [pc EXCEPT ![r] = "done", ![h] = "masking"]
        /\ started' = started \cup {h}
    BY <1>5 DEF Release, GiveBack
  <2>3. pc[h] = "parked"
    BY <2>1 DEF IInv, NobodyWaitsInVain
  <2>4. /\ waiting' \in Seq(Requests)
        /\ \A q \in Requests :
              QueueHolds(waiting', q) <=> q # h /\ QueueHolds(waiting, q)
        /\ \A k, l \in DOMAIN waiting' : waiting'[k] = waiting'[l] => k = l
    BY <2>1, <2>2, Leaving DEF IInv
  <2> HIDE DEF h
  <2>5. h \in Requests \ Holding /\ h # r
    BY <1>1, <2>1, <2>3 DEF Holding
  <2>6. Holding' = (Holding \ {r}) \cup {h}
    BY <1>1, <2>1, <2>2, <2>5 DEF Holding
  <2>7. SlotsExact'
    BY <1>3, <2>2, <2>5, <2>6 DEF IInv, SlotsExact
  <2>8. \A q \in Requests : pc'[q] = "parked" <=> q # h /\ pc[q] = "parked"
    BY <1>1, <2>1, <2>2, <2>5
  <2>9. NobodyWaitsInVain'
    BY <1>5, <2>2, <2>4, <2>8 DEF IInv, NobodyWaitsInVain, QueueHolds
  <2>10. TypeOK'
    BY <1>1, <2>1, <2>2, <2>4 DEF IInv, TypeOK, PC
  <2>11. QED
    BY <2>7, <2>9, <2>10
<1>6. QED
  BY <1>4, <1>5

(* Nobody gains or loses a slot, and nobody joins or leaves the queue.     *)
LEMMA Standing ==
  ASSUME IInv, NEW r \in Requests, UNCHANGED <<used, waiting>>,
         pc' = pc \/ (pc[r] = "masking" /\ GoTo(r, "releasing"))
  PROVE  SlotsExact' /\ NobodyWaitsInVain'
<1>1. pc \in [Requests -> PC]
  BY DEF IInv, TypeOK
<1>2. Holding' = Holding
  BY <1>1 DEF Holding, GoTo
<1>3. \A q \in Requests : pc'[q] = "parked" <=> pc[q] = "parked"
  BY <1>1 DEF GoTo
<1>4. QED
  BY <1>2, <1>3 DEF IInv, SlotsExact, NobodyWaitsInVain

LEMMA StepInv == IInv /\ [Next]_vars => IInv'
<1> SUFFICES ASSUME IInv, [Next]_vars PROVE IInv'
  OBVIOUS
<1> USE DEF PC, StatusOf, Outcome
<1>1. ASSUME NEW r \in Requests, Arrive(r) PROVE IInv'
  <2>1. SlotsExact' /\ NobodyWaitsInVain'
    BY <1>1, Elsewhere DEF Arrive
  <2>2. TypeOK'
    BY <1>1 DEF IInv, TypeOK, Arrive, GoTo
  <2>3. QED
    BY <2>1, <2>2 DEF IInv
<1>2. ASSUME NEW r \in Requests, TrySlot(r) \/ SelectSlot(r) PROVE IInv'
  <2>1. SlotsExact' /\ NobodyWaitsInVain'
    BY <1>2, Taking DEF TrySlot, SelectSlot
  <2>2. TypeOK'
    BY <1>2 DEF IInv, TypeOK, TrySlot, SelectSlot, TakeSlot, GoTo
  <2>3. QED
    BY <2>1, <2>2 DEF IInv
<1>3. ASSUME NEW r \in Requests,
             ShedAtOnce(r) \/ SelectTimer(r) \/ SelectDone(r)
      PROVE  IInv'
  <2>1. SlotsExact' /\ NobodyWaitsInVain'
    BY <1>3, Elsewhere DEF ShedAtOnce, SelectTimer, SelectDone, Reject
  <2>2. TypeOK'
    BY <1>3 DEF IInv, TypeOK, ShedAtOnce, SelectTimer, SelectDone, Reject, GoTo
  <2>3. QED
    BY <2>1, <2>2 DEF IInv
<1>4. ASSUME NEW r \in Requests, StartTimer(r) PROVE IInv'
  <2>1. SlotsExact' /\ NobodyWaitsInVain'
    BY <1>4, Elsewhere DEF StartTimer
  <2>2. TypeOK'
    BY <1>4 DEF IInv, TypeOK, StartTimer, GoTo
  <2>3. QED
    BY <2>1, <2>2 DEF IInv
<1>5. ASSUME NEW r \in Requests, Park(r) PROVE IInv'
  <2>1. waiting' \in Seq(Requests) /\ SlotsExact' /\ NobodyWaitsInVain'
    BY <1>5, Parking
  <2>2. TypeOK'
    BY <1>5, <2>1 DEF IInv, TypeOK, Park, GoTo
  <2>3. QED
    BY <2>1, <2>2 DEF IInv
<1>6. ASSUME NEW r \in Requests, TimerFires(r) \/ HangUp(r) PROVE IInv'
  <2>1. CASE pc[r] = "parked"
    <3>1. /\ Leave(r) /\ GoTo(r, "done") /\ UNCHANGED used
      BY <1>6, <2>1 DEF TimerFires, HangUp, Reject
    <3>2. waiting' \in Seq(Requests) /\ SlotsExact' /\ NobodyWaitsInVain'
      BY <2>1, <3>1, GivingUp
    <3>3. TypeOK'
      BY <1>6, <2>1, <3>2 DEF IInv, TypeOK, TimerFires, HangUp, Reject, GoTo
    <3>4. QED
      BY <3>2, <3>3 DEF IInv
  <2>2. CASE pc[r] # "parked"
    <3>1. UNCHANGED <<pc, used, waiting>>
      BY <1>6, <2>2 DEF TimerFires, HangUp
    <3>2. SlotsExact' /\ NobodyWaitsInVain'
      BY <3>1, Standing
    <3>3. TypeOK'
      BY <1>6, <2>2, <3>1 DEF IInv, TypeOK, TimerFires, HangUp
    <3>4. QED
      BY <3>2, <3>3 DEF IInv
  <2>3. QED
    BY <2>1, <2>2
<1>7. ASSUME NEW r \in Requests, Process(r) PROVE IInv'
  <2>1. SlotsExact' /\ NobodyWaitsInVain'
    BY <1>7, Standing DEF Process
  <2>2. TypeOK'
    BY <1>7 DEF IInv, TypeOK, Process, GoTo
  <2>3. QED
    BY <2>1, <2>2 DEF IInv
<1>8. ASSUME NEW r \in Requests, Release(r) PROVE IInv'
  BY <1>8, Releasing DEF IInv
<1>9. CASE UNCHANGED vars
  <2>1. Holding' = Holding
    BY <1>9 DEF vars, Holding
  <2>2. QED
    BY <1>9, <2>1 DEF vars, IInv, TypeOK, SlotsExact, NobodyWaitsInVain
<1>10. QED
  BY <1>1, <1>2, <1>3, <1>4, <1>5, <1>6, <1>7, <1>8, <1>9 DEF Next, Acquire

-----------------------------------------------------------------------------
(* Results.                                                                *)

\* However many requests compete, time out, hang up or panic, the channel
\* counts those being masked and lets no more than its capacity in
\* (acquireSyncSlot, ProcessSync).
THEOREM SlotsNeverLeak == Spec => []SlotsExact
<1>1. Spec => []IInv
  BY InitInv, StepInv, PTL DEF Spec
<1>2. IInv => SlotsExact
  BY DEF IInv
<1>3. QED
  BY <1>1, <1>2, PTL

\* A request waits only while every slot is taken, and the queue holds those
\* that wait, each once (the sends parked in acquireSyncSlot).
THEOREM QueueIsNeeded == Spec => []NobodyWaitsInVain
<1>1. Spec => []IInv
  BY InitInv, StepInv, PTL DEF Spec
<1>2. IInv => NobodyWaitsInVain
  BY DEF IInv
<1>3. QED
  BY <1>1, <1>2, PTL

-----------------------------------------------------------------------------
(* What an answer says about the document.                                 *)

\* process has been called for exactly the requests that got a slot, and the
\* answer of one that returns tells whether it was.
AnswerInv ==
    \A r \in Requests :
        /\ pc[r] \in {"idle", "arrived", "selecting", "parked"} => r \notin started
        /\ pc[r] = "masking" => r \in started
        /\ pc[r] = "releasing" =>
              r \in started /\ answer[r] \in Outcome \cup {"panic"}
        /\ pc[r] = "done" =>
              \/ r \in started /\ answer[r] \in Outcome \cup {"panic"}
              \/ r \notin started /\ answer[r] \in {"server_busy", "request_canceled"}

(* A step of the request r alone: the others stand as they stood.          *)
LEMMA AnswerStep == IInv /\ AnswerInv /\ [Next]_vars => AnswerInv'
<1> SUFFICES ASSUME IInv, AnswerInv, [Next]_vars PROVE AnswerInv'
  OBVIOUS
<1>1. /\ pc \in [Requests -> PC]
      /\ answer \in [Requests -> DOMAIN StatusOf \cup {"none"}]
      /\ waiting \in Seq(Requests)
  BY DEF IInv, TypeOK
<1>2. CASE UNCHANGED vars
  BY <1>2 DEF vars, AnswerInv
<1>3. ASSUME NEW r \in Requests,
             Arrive(r) \/ StartTimer(r) \/ Park(r) \/ TrySlot(r) \/ SelectSlot(r)
      PROVE  AnswerInv'
  BY <1>1, <1>3
     DEF AnswerInv, Arrive, StartTimer, Park, TrySlot, SelectSlot, TakeSlot, GoTo
<1>4. ASSUME NEW r \in Requests,
             \/ ShedAtOnce(r) \/ SelectTimer(r) \/ SelectDone(r)
             \/ TimerFires(r) \/ HangUp(r)
      PROVE  AnswerInv'
  BY <1>1, <1>4
     DEF AnswerInv, ShedAtOnce, SelectTimer, SelectDone, TimerFires, HangUp,
         Reject, GoTo
<1>5. ASSUME NEW r \in Requests, Process(r) PROVE AnswerInv'
  BY <1>1, <1>5 DEF AnswerInv, Process, GoTo
<1>6. ASSUME NEW r \in Requests, Release(r) PROVE AnswerInv'
  <2>1. CASE waiting = <<>>
    BY <1>1, <1>6, <2>1 DEF AnswerInv, Release, GiveBack, GoTo
  <2>2. CASE waiting # <<>>
    <3> DEFINE h == waiting[1]
    <3>1. h \in Requests /\ pc[h] = "parked" /\ h # r
      BY <1>1, <1>6, <2>2 DEF IInv, NobodyWaitsInVain, Release
    <3>2. /\ pc' = [pc EXCEPT ![r] = "done", ![h] = "masking"]
          /\ started' = started \cup {h} /\ answer' = answer
          /\ pc[r] = "releasing"
      BY <1>6, <2>2 DEF Release, GiveBack
    <3> HIDE DEF h
    <3>3. QED
      BY <1>1, <3>1, <3>2 DEF AnswerInv
  <2>3. QED
    BY <2>1, <2>2
<1>7. QED
  BY <1>2, <1>3, <1>4, <1>5, <1>6 DEF Next, Acquire

\* A 503 means that nothing was done with the document, and every other answer
\* but a cancellation in the queue that process was called (handleMask).
THEOREM BusyMeansUntouched == Spec => []BusyDidNothing
<1>1. Spec => []IInv
  BY InitInv, StepInv, PTL DEF Spec
<1>2. Init => AnswerInv
  BY DEF Init, AnswerInv
<1>3. Spec => []AnswerInv
  BY <1>1, <1>2, AnswerStep, PTL DEF Spec
<1>4. AnswerInv => BusyDidNothing
  BY DEF AnswerInv, BusyDidNothing, StatusOf, Outcome
<1>5. QED
  BY <1>3, <1>4, PTL

\* A slot that is given back goes to the request that has waited longest, and
\* nobody who arrives later takes one before it (the select on syncSlots).
THEOREM ServedInTurn == Spec => NoOvertaking
<1>1. Spec => []IInv
  BY InitInv, StepInv, PTL DEF Spec
<1>2. IInv /\ [Next]_vars =>
        [\A r \in Requests :
            pc[r] # "masking" /\ pc'[r] = "masking" /\ waiting # <<>>
                => r = Head(waiting)]_vars
  <2> SUFFICES ASSUME IInv, Next, NEW r \in Requests,
                      pc[r] # "masking", pc'[r] = "masking", waiting # <<>>
               PROVE  r = Head(waiting)
    BY DEF vars
  <2>1. PICK q \in Requests :
           \/ Arrive(q) \/ Acquire(q) \/ TimerFires(q) \/ HangUp(q)
           \/ Process(q) \/ Release(q)
    BY DEF Next
  <2>2. pc \in [Requests -> PC] /\ used = MaxConcurrentSync
    BY DEF IInv, TypeOK, NobodyWaitsInVain
  <2>3. CASE Release(q)
    BY <2>2, <2>3 DEF Release, GiveBack
  <2>4. CASE Arrive(q) \/ Acquire(q)
    BY <2>2, <2>4, SyncAssumption
       DEF Arrive, Acquire, TrySlot, ShedAtOnce, StartTimer, SelectSlot,
           SelectTimer, SelectDone, Park, Reject, GoTo
  <2>5. CASE TimerFires(q) \/ HangUp(q) \/ Process(q)
    BY <2>2, <2>5 DEF TimerFires, HangUp, Process, Reject, GoTo
  <2>6. QED
    BY <2>1, <2>3, <2>4, <2>5
<1>3. QED
  BY <1>1, <1>2, PTL DEF Spec, NoOvertaking

=============================================================================
