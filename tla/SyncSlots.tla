------------------------------ MODULE SyncSlots -----------------------------
(***************************************************************************)
(* Synchronous masking: the requests of POST /v1/mask that compete for the *)
(* syncSlots channel (ProcessSync, acquireSyncSlot) and what handleMask    *)
(* answers.  A parked request is woken by the release that hands it the    *)
(* slot, by its timer or by its client hanging up, whichever comes first.  *)
(***************************************************************************)
EXTENDS Integers, FiniteSets, Sequences, SequencesExt

CONSTANTS
    Requests,
    MaxConcurrentSync   \* capacity of the syncSlots channel

ASSUME SyncAssumption ==
    /\ IsFiniteSet(Requests)
    /\ MaxConcurrentSync \in Nat \ {0}

VARIABLES
    queueWait,  \* the configured syncQueueWait is not zero
    pc,         \* where the handler of each request is
    used,       \* how many values are in the buffer of syncSlots
    waiting,    \* the requests parked on it, first come first
    expired,    \* the requests whose queue timer has fired
    hungUp,     \* the requests whose context is canceled
    started,    \* the requests process has been called for
    answer      \* the status code and error code of each answer

vars == <<queueWait, pc, used, waiting, expired, hungUp, started, answer>>

Outcome == {"masked", "processing_failed", "upstream"}

\* Wrong on purpose: any failure upstream passes for a busy server.
StatusUnavailable ==
    [masked |-> 200, processing_failed |-> 400, upstream |-> 503,
     request_canceled |-> 502, server_busy |-> 503, panic |-> 0]

\* The status handleMask writes for what ProcessSync returned: a panic in
\* process tears the connection down and answers nothing.
StatusOf == [masked |-> 200, processing_failed |-> 400, upstream |-> 502,
             request_canceled |-> 502, server_busy |-> 503, panic |-> 0]

PC == {"idle", "arrived", "selecting", "parked", "masking", "releasing", "done"}

TypeOK ==
    /\ queueWait \in BOOLEAN
    /\ pc \in [Requests -> PC]
    /\ used \in Nat
    /\ waiting \in Seq(Requests)
    /\ expired \subseteq Requests
    /\ hungUp \subseteq Requests
    /\ started \subseteq Requests
    /\ answer \in [Requests -> DOMAIN StatusOf \cup {"none"}]

Init ==
    /\ queueWait \in BOOLEAN
    /\ pc = [r \in Requests |-> "idle"]
    /\ used = 0
    /\ waiting = <<>>
    /\ expired = {}
    /\ hungUp = {}
    /\ started = {}
    /\ answer = [r \in Requests |-> "none"]

GoTo(r, place) == pc' = [pc EXCEPT ![r] = place]

\* Whoever is in the handler of process, or about to give the slot back.
Holding == {r \in Requests : pc[r] \in {"masking", "releasing"}}

\* ProcessSync returns without a slot: metadata and an error, no document.
Reject(r, code) ==
    /\ GoTo(r, "done")
    /\ answer' = [answer EXCEPT ![r] = code]

TakeSlot(r) ==
    /\ GoTo(r, "masking")
    /\ started' = started \cup {r}

\* readProcessInput has the upload.
Arrive(r) ==
    /\ pc[r] = "idle"
    /\ GoTo(r, "arrived")
    /\ UNCHANGED <<queueWait, used, waiting, expired, hungUp, started, answer>>

\* The first select, which never blocks: a slot if there is one.
TrySlot(r) ==
    /\ pc[r] = "arrived"
    /\ used < MaxConcurrentSync
    /\ used' = used + 1
    /\ TakeSlot(r)
    /\ UNCHANGED <<queueWait, waiting, expired, hungUp, answer>>

\* default: no slot, and no waiting either when the wait is zero.
ShedAtOnce(r) ==
    /\ pc[r] = "arrived"
    /\ used = MaxConcurrentSync
    /\ ~queueWait
    /\ Reject(r, "server_busy")
    /\ UNCHANGED <<queueWait, used, waiting, expired, hungUp, started>>

StartTimer(r) ==
    /\ pc[r] = "arrived"
    /\ used = MaxConcurrentSync
    /\ queueWait
    /\ GoTo(r, "selecting")
    /\ UNCHANGED <<queueWait, used, waiting, expired, hungUp, started, answer>>

\* The second select: any of the cases that are ready, or park.
SelectSlot(r) ==
    /\ pc[r] = "selecting"
    /\ used < MaxConcurrentSync
    /\ used' = used + 1
    /\ TakeSlot(r)
    /\ UNCHANGED <<queueWait, waiting, expired, hungUp, answer>>

SelectTimer(r) ==
    /\ pc[r] = "selecting"
    /\ r \in expired
    /\ Reject(r, "server_busy")
    /\ UNCHANGED <<queueWait, used, waiting, expired, hungUp, started>>

SelectDone(r) ==
    /\ pc[r] = "selecting"
    /\ r \in hungUp
    /\ Reject(r, "request_canceled")
    /\ UNCHANGED <<queueWait, used, waiting, expired, hungUp, started>>

Park(r) ==
    /\ pc[r] = "selecting"
    /\ used = MaxConcurrentSync
    /\ r \notin expired \cup hungUp
    /\ GoTo(r, "parked")
    /\ waiting' = Append(waiting, r)
    /\ UNCHANGED <<queueWait, used, expired, hungUp, started, answer>>

\* The runtime lets one case of a select win and dequeues it from the others.
Leave(r) ==
    \E i \in DOMAIN waiting :
        /\ waiting[i] = r
        /\ waiting' = RemoveAt(waiting, i)

\* Wrong on purpose: the timer ends the wait for a slot, and nothing answers.
TimerUnanswered(r) ==
    /\ pc[r] \in {"selecting", "parked"}
    /\ r \notin expired
    /\ expired' = expired \cup {r}
    /\ IF pc[r] = "parked" THEN Leave(r) ELSE UNCHANGED waiting
    /\ UNCHANGED <<queueWait, pc, used, hungUp, started, answer>>

\* The wait runs out.
TimerFires(r) ==
    /\ pc[r] \in {"selecting", "parked"}
    /\ r \notin expired
    /\ expired' = expired \cup {r}
    /\ IF pc[r] = "parked"
         THEN Leave(r) /\ Reject(r, "server_busy")
         ELSE UNCHANGED <<pc, waiting, answer>>
    /\ UNCHANGED <<queueWait, used, hungUp, started>>

\* The client closes its connection.
HangUp(r) ==
    /\ pc[r] \notin {"idle", "done"}
    /\ r \notin hungUp
    /\ hungUp' = hungUp \cup {r}
    /\ IF pc[r] = "parked"
         THEN Leave(r) /\ Reject(r, "request_canceled")
         ELSE UNCHANGED <<pc, waiting, answer>>
    /\ UNCHANGED <<queueWait, used, expired, started>>

\* process returns or panics.  The call upstream of a client that hung up
\* fails, unless it was over already.
Process(r) ==
    /\ pc[r] = "masking"
    /\ GoTo(r, "releasing")
    /\ \E outcome \in Outcome \cup {"panic"} :
          answer' = [answer EXCEPT ![r] = outcome]
    /\ UNCHANGED <<queueWait, used, waiting, expired, hungUp, started>>

\* The value leaves the buffer; the i-th parked sender takes its place.
GiveBack(r, i) ==
    IF waiting = <<>>
      THEN /\ used' = used - 1
           /\ GoTo(r, "done")
           /\ UNCHANGED <<waiting, started>>
      ELSE /\ waiting' = RemoveAt(waiting, i)
           /\ pc' = [pc EXCEPT ![r] = "done", ![waiting[i]] = "masking"]
           /\ started' = started \cup {waiting[i]}
           /\ used' = used

\* Wrong on purpose: the one that came last is served.
ReleaseToLast(r) ==
    /\ pc[r] = "releasing"
    /\ GiveBack(r, Len(waiting))
    /\ UNCHANGED <<queueWait, expired, hungUp, answer>>

\* Wrong on purpose: not deferred, so a panic in process skips it.
ReleaseUnlessPanic(r) ==
    /\ pc[r] = "releasing"
    /\ IF answer[r] = "panic"
         THEN GoTo(r, "done") /\ UNCHANGED <<used, waiting, started>>
         ELSE GiveBack(r, 1)
    /\ UNCHANGED <<queueWait, expired, hungUp, answer>>

\* Wrong on purpose: it goes past the sender that is parked.
ReleaseWakesNobody(r) ==
    /\ pc[r] = "releasing"
    /\ used' = used - 1
    /\ GoTo(r, "done")
    /\ UNCHANGED <<queueWait, waiting, expired, hungUp, started, answer>>

\* The deferred release.
Release(r) ==
    /\ pc[r] = "releasing"
    /\ GiveBack(r, 1)
    /\ UNCHANGED <<queueWait, expired, hungUp, answer>>

Acquire(r) ==
    \/ TrySlot(r) \/ ShedAtOnce(r) \/ StartTimer(r)
    \/ SelectSlot(r) \/ SelectTimer(r) \/ SelectDone(r) \/ Park(r)

Next ==
    \E r \in Requests :
        \/ Arrive(r) \/ Acquire(r)
        \/ TimerFires(r) \/ HangUp(r)
        \/ Process(r) \/ Release(r)

Spec == Init /\ [][Next]_vars

\* The scheduler runs every goroutine, timers fire, and process ends because
\* the upstream call has a timeout.  Nothing makes a client arrive or leave.
Fairness ==
    \A r \in Requests :
        /\ WF_vars(Acquire(r)) /\ WF_vars(TimerFires(r))
        /\ WF_vars(Process(r)) /\ WF_vars(Release(r))

FairSpec == Spec /\ Fairness

-----------------------------------------------------------------------------
(* Properties.                                                             *)

\* The channel counts exactly the requests that are being masked, never more
\* than MaxConcurrentSync of them: no way out of acquireSyncSlot or process
\* leaks a slot or gives one back twice.
SlotsExact ==
    /\ used = Cardinality(Holding)
    /\ used <= MaxConcurrentSync

\* A request waits only while every slot is taken, and the queue holds the
\* waiting requests, each once: no release goes past one that is parked, and
\* none that gave up is woken (acquireSyncSlot).
NobodyWaitsInVain ==
    /\ waiting # <<>> => used = MaxConcurrentSync
    /\ \A r \in Requests :
          pc[r] = "parked" <=> \E i \in DOMAIN waiting : waiting[i] = r
    /\ \A i, j \in DOMAIN waiting : waiting[i] = waiting[j] => i = j

\* handleMask: "Nothing was processed, so the caller can safely send the same
\* upload again."  A 503 means process was never called; any other answer but
\* a cancellation in the queue means it was.
BusyDidNothing ==
    \A r \in Requests :
        pc[r] = "done" =>
            /\ StatusOf[answer[r]] = 503 => r \notin started
            /\ answer[r] \in Outcome \cup {"panic"} <=> r \in started

\* Nobody overtakes the queue: whoever gets a slot is the one parked longest,
\* or nobody is parked.
NoOvertaking ==
    [][\A r \in Requests :
          pc[r] # "masking" /\ pc'[r] = "masking" /\ waiting # <<>>
              => r = Head(waiting)]_vars

\* Every request is answered, however many compete and whatever clients do.
EveryRequestEnds ==
    \A r \in Requests : pc[r] = "arrived" ~> pc[r] = "done"

=============================================================================
