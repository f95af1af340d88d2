----------------------------- MODULE JobService -----------------------------
(***************************************************************************)
(* Asynchronous masking: the handlers that accept a job, the goroutine     *)
(* that runs each job, the slots they compete for, the retention sweeper   *)
(* and the life of the process around them (start, graceful stop, crash).  *)
(*                                                                         *)
(* One process at a time uses the storage directory.  A step is a piece of *)
(* code no other goroutine can observe the inside of; between two steps    *)
(* anybody may move.                                                       *)
(***************************************************************************)
EXTENDS JobStore

CONSTANT MaxConcurrentJobs      \* capacity of the jobSlots channel

ASSUME SlotsAssumption == MaxConcurrentJobs \in Nat \ {0}

VARIABLES
    req,        \* where CreateJob is for each job
    run,        \* where the goroutine of each job is
    held,       \* the record that handler or goroutine works on
    slots,      \* the jobs that hold a slot
    waiting,    \* the jobs parked on jobSlots, first come first
    app,        \* where App.Serve is
    draining,   \* the draining channel is closed
    late,       \* the shutdown deadline has passed
    sweeper,    \* where the retention sweeper is
    sweepAt,    \* the time its current sweep started
    todo        \* what load still has to read, or a sweep to remove

slotVars == <<slots, waiting>>
jobVars == <<req, run, held>>
appVars == <<app, draining, late>>
sweepVars == <<sweeper, sweepAt, todo>>
vars == <<mem, dir, mu, clock, req, run, held, slots, waiting,
          app, draining, late, sweeper, sweepAt, todo>>

\* A handler that has an upload in its hands.
Uploading == {"uploading", "uploaded", "creating"}
InRequest == Uploading \cup {"created", "refused", "marking"}
RequestState == {"none"} \cup InRequest \cup {"answered", "over"}

\* A goroutine that has a slot and may have the document in memory.
Masking == {"claimed", "reading", "processing", "output", "writing", "releasing"}
RunnerState == {"idle", "starting", "selecting", "parked", "giving_up",
                "saving", "persisting"} \cup Masking

\* Shutdown has been called; Shutdown has returned nil, or ctx.Err().
Stopped == {"drained", "abandoned"}
AppState == {"down", "loading", "serving", "http_drain", "job_drain"}
                \cup Stopped
Up == AppState \ {"down", "loading"}

TypeOK ==
    /\ StoreTypeOK
    /\ req \in [Jobs -> RequestState]
    /\ run \in [Jobs -> RunnerState]
    /\ held \in [Jobs -> Record]
    /\ slots \subseteq Jobs
    /\ waiting \in Seq(Jobs)
    /\ app \in AppState
    /\ draining \in BOOLEAN
    /\ late \in BOOLEAN
    /\ sweeper \in {"off", "idle", "locking", "removing"}
    /\ sweepAt \in Nat
    /\ todo \subseteq Jobs

Init ==
    /\ StoreInit
    /\ req = [j \in Jobs |-> "none"]
    /\ run = [j \in Jobs |-> "idle"]
    /\ held = [j \in Jobs |-> Absent]
    /\ slots = {}
    /\ waiting = <<>>
    /\ app = "down"
    /\ draining = FALSE
    /\ late = FALSE
    /\ sweeper = "off"
    /\ sweepAt = 0
    /\ todo = {}

ReqTo(j, s) == req' = [req EXCEPT ![j] = s]
RunTo(j, s) == run' = [run EXCEPT ![j] = s]
Hold(j, r) == held' = [held EXCEPT ![j] = r]

\* The record of a job that ends with status s now.
Ended(r, s) == [r EXCEPT !.status = s, !.updatedAt = clock]

-----------------------------------------------------------------------------
(* CreateJob.                                                              *)

\* A valid upload reaches CreateJob, which takes the time and opens the
\* input file.  An upload that fails validation changes nothing.
Accept(j) ==
    /\ app = "serving"
    /\ req[j] = "none"
    /\ ReqTo(j, "uploading")
    /\ BeginInput(j)
    /\ Hold(j, [status |-> "queued", createdAt |-> clock,
                updatedAt |-> clock, output |-> FALSE])
    /\ UNCHANGED <<mem, mu, clock, run, slotVars, appVars, sweepVars>>

InputWritten(j) ==
    /\ req[j] = "uploading"
    /\ ReqTo(j, "uploaded")
    /\ EndInput(j)
    /\ UNCHANGED <<mem, mu, clock, run, held, slotVars, appVars, sweepVars>>

\* CreateJob returns the error and leaves what was written behind.
InputFails(j) ==
    /\ "input" \in FaultyOps
    /\ req[j] = "uploading"
    /\ ReqTo(j, "over")
    /\ Hold(j, Absent)
    /\ UNCHANGED <<storeVars, clock, run, slotVars, appVars, sweepVars>>

CreateLocks(j) ==
    /\ req[j] = "uploaded"
    /\ Lock(j)
    /\ ReqTo(j, "creating")
    /\ Stage(j)
    /\ UNCHANGED <<mem, clock, run, held, slotVars, appVars, sweepVars>>

CreateReturns(j) ==
    /\ req[j] = "creating"
    /\ \/ CreateSucceeds(j, held[j]) /\ ReqTo(j, "created") /\ UNCHANGED held
       \/ CreateFails(j) /\ ReqTo(j, "over") /\ Hold(j, Absent)
    /\ UNCHANGED <<clock, run, slotVars, appVars, sweepVars>>

\* Wrong on purpose: draining is not checked.
StartRunnerAlways(j) ==
    /\ req[j] = "created"
    /\ ReqTo(j, "answered")
    /\ RunTo(j, "starting")
    /\ Hold(j, Absent)
    /\ UNCHANGED <<storeVars, clock, slotVars, appVars, sweepVars>>

\* runners.Add(1) and the goroutine, under drainMu; then the 202 answer.
StartRunner(j) ==
    /\ req[j] = "created"
    /\ ~draining
    /\ ReqTo(j, "answered")
    /\ RunTo(j, "starting")
    /\ Hold(j, Absent)
    /\ UNCHANGED <<storeVars, clock, slotVars, appVars, sweepVars>>

\* The service is draining: markJobInterrupted takes over.
RefuseRunner(j) ==
    /\ req[j] = "created"
    /\ draining
    /\ ReqTo(j, "refused")
    /\ Hold(j, Ended(held[j], "failed"))
    /\ UNCHANGED <<storeVars, clock, run, slotVars, appVars, sweepVars>>

MarkLocks(j) ==
    /\ req[j] = "refused"
    /\ Lock(j)
    /\ ReqTo(j, "marking")
    /\ Stage(j)
    /\ UNCHANGED <<mem, clock, run, held, slotVars, appVars, sweepVars>>

MarkReturns(j) ==
    /\ req[j] = "marking"
    /\ Save(j, held[j])
    /\ ReqTo(j, "answered")
    /\ Hold(j, Absent)
    /\ UNCHANGED <<clock, run, slotVars, appVars, sweepVars>>

-----------------------------------------------------------------------------
(* acquireJobSlot: two selects, one after the other.                       *)

CheckDraining(j) ==
    /\ run[j] = "starting"
    /\ RunTo(j, IF draining THEN "giving_up" ELSE "selecting")
    /\ UNCHANGED <<storeVars, clock, req, held, slotVars, appVars, sweepVars>>

\* Wrong on purpose: one slot too many.
SelectSlotOverfull(j) ==
    /\ run[j] = "selecting"
    /\ Cardinality(slots) <= MaxConcurrentJobs
    /\ slots' = slots \cup {j}
    /\ RunTo(j, "claimed")
    /\ UNCHANGED <<storeVars, clock, req, held, waiting, appVars, sweepVars>>

\* With both cases ready the second select takes either.
SelectSlot(j) ==
    /\ run[j] = "selecting"
    /\ Cardinality(slots) < MaxConcurrentJobs
    /\ slots' = slots \cup {j}
    /\ RunTo(j, "claimed")
    /\ UNCHANGED <<storeVars, clock, req, held, waiting, appVars, sweepVars>>

SelectDraining(j) ==
    /\ run[j] = "selecting"
    /\ draining
    /\ RunTo(j, "giving_up")
    /\ UNCHANGED <<storeVars, clock, req, held, slotVars, appVars, sweepVars>>

Park(j) ==
    /\ run[j] = "selecting"
    /\ ~draining
    /\ Cardinality(slots) = MaxConcurrentJobs
    /\ waiting' = Append(waiting, j)
    /\ RunTo(j, "parked")
    /\ UNCHANGED <<storeVars, clock, req, held, slots, appVars, sweepVars>>

-----------------------------------------------------------------------------
(* runJob.                                                                 *)

\* Get and the fields of markJobInterrupted.
GiveUp(j) ==
    /\ run[j] = "giving_up"
    /\ Readable
    /\ IF mem[j].status = "absent"
         THEN RunTo(j, "idle") /\ UNCHANGED held
         ELSE RunTo(j, "saving") /\ Hold(j, Ended(mem[j], "failed"))
    /\ UNCHANGED <<storeVars, clock, req, slotVars, appVars, sweepVars>>

FetchJob(j) ==
    /\ run[j] = "claimed"
    /\ Readable
    /\ IF mem[j].status = "absent"
         THEN RunTo(j, "releasing") /\ UNCHANGED held
         ELSE RunTo(j, "reading") /\ Hold(j, mem[j])
    /\ UNCHANGED <<storeVars, clock, req, slotVars, appVars, sweepVars>>

\* loadJobInput, and the status that follows from it.
ReadInput(j) ==
    /\ run[j] = "reading"
    /\ \E s \in {"running"} \cup (IF "read" \in FaultyOps THEN {"failed"} ELSE {}) :
          Hold(j, Ended(held[j], s))
    /\ RunTo(j, "saving")
    /\ UNCHANGED <<storeVars, clock, req, slotVars, appVars, sweepVars>>

SaveLocks(j) ==
    /\ run[j] = "saving"
    /\ Lock(j)
    /\ RunTo(j, "persisting")
    /\ Stage(j)
    /\ UNCHANGED <<mem, clock, req, held, slotVars, appVars, sweepVars>>

\* Wrong on purpose: the slot is not given back when the input is unreadable.
AfterSaveLeak(j) ==
    IF held[j].status = "running" THEN "processing"
    ELSE IF j \in slots /\ mem[j].status = "running" THEN "releasing" ELSE "idle"

\* runJob calls Save in four places and ignores its error in all of them.
\* The status saved and the slot tell them apart.
AfterSave(j) ==
    IF held[j].status = "running" THEN "processing"
    ELSE IF j \in slots THEN "releasing" ELSE "idle"

SaveReturns(j) ==
    /\ run[j] = "persisting"
    /\ Save(j, held[j])
    /\ RunTo(j, AfterSave(j))
    /\ Hold(j, IF held[j].status = "running" THEN held[j] ELSE Absent)
    /\ UNCHANGED <<clock, req, slotVars, appVars, sweepVars>>

\* Wrong on purpose: the record is dated from the start of its run.
ProcessedFromScratch(r, s) ==
    [status |-> s, createdAt |-> clock, updatedAt |-> clock,
     output |-> r.output]

\* process returns metadata made from scratch: what the record keeps from
\* before the call is the moment the upload was accepted.
Processed(r, s) ==
    [status |-> s, createdAt |-> r.createdAt, updatedAt |-> clock,
     output |-> r.output]

ProcessSucceeds(j) ==
    /\ run[j] = "processing"
    /\ RunTo(j, "output")
    /\ Hold(j, Processed(held[j], "completed"))
    /\ UNCHANGED <<storeVars, clock, req, slotVars, appVars, sweepVars>>

ProcessFails(j) ==
    /\ run[j] = "processing"
    /\ RunTo(j, "saving")
    /\ Hold(j, Processed(held[j], "failed"))
    /\ UNCHANGED <<storeVars, clock, req, slotVars, appVars, sweepVars>>

OutputOpened(j) ==
    /\ run[j] = "output"
    /\ RunTo(j, "writing")
    /\ BeginOutput(j)
    /\ UNCHANGED <<mem, mu, clock, req, held, slotVars, appVars, sweepVars>>

OutputWritten(j) ==
    /\ run[j] = "writing"
    /\ RunTo(j, "saving")
    /\ EndOutput(j)
    /\ held' = [held EXCEPT ![j].output = TRUE]
    /\ UNCHANGED <<mem, mu, clock, req, slotVars, appVars, sweepVars>>

\* Wrong on purpose: the error of WriteOutputFile is ignored.
OutputFailureIgnored(j) ==
    /\ "output" \in FaultyOps
    /\ run[j] \in {"output", "writing"}
    /\ RunTo(j, "saving")
    /\ held' = [held EXCEPT ![j].output = TRUE]
    /\ UNCHANGED <<storeVars, clock, req, slotVars, appVars, sweepVars>>

\* The file cannot be opened, or cannot be filled and stays partial.
OutputFails(j) ==
    /\ "output" \in FaultyOps
    /\ run[j] \in {"output", "writing"}
    /\ RunTo(j, "saving")
    /\ held' = [held EXCEPT ![j].status = "failed"]
    /\ UNCHANGED <<storeVars, clock, req, slotVars, appVars, sweepVars>>

\* The deferred receive from jobSlots hands the slot to the first parked
\* goroutine, if there is one; runners.Done() follows.
ReleaseSlot(j) ==
    /\ run[j] = "releasing"
    /\ IF waiting = <<>>
         THEN /\ slots' = slots \ {j}
              /\ RunTo(j, "idle")
              /\ UNCHANGED waiting
         ELSE /\ slots' = (slots \ {j}) \cup {Head(waiting)}
              /\ run' = [run EXCEPT ![j] = "idle", ![Head(waiting)] = "claimed"]
              /\ waiting' = Tail(waiting)
    /\ UNCHANGED <<storeVars, clock, req, held, appVars, sweepVars>>

-----------------------------------------------------------------------------
(* The retention sweeper: once at the start, then whenever its ticker      *)
(* fires.                                                                  *)

BeginSweep ==
    /\ sweeper = "idle"
    /\ app \in Up \ Stopped
    /\ sweeper' = "locking"
    /\ sweepAt' = clock
    /\ UNCHANGED <<storeVars, clock, jobVars, slotVars, appVars, todo>>

SweepLocks ==
    /\ sweeper = "locking"
    /\ Lock("sweep")
    /\ sweeper' = "removing"
    /\ todo' = ExpiredJobs(sweepAt)
    /\ UNCHANGED <<mem, dir, clock, jobVars, slotVars, appVars, sweepAt>>

SweepUnlinks(j) ==
    /\ sweeper = "removing"
    /\ j \in todo
    /\ UnlinkOne(j)
    /\ UNCHANGED <<mem, mu, clock, jobVars, slotVars, appVars, sweepVars>>

SweepDeletes(j) ==
    /\ sweeper = "removing"
    /\ j \in todo
    /\ DeleteJob(j)
    /\ todo' = todo \ {j}
    /\ UNCHANGED <<mu, clock, jobVars, slotVars, appVars, sweeper, sweepAt>>

\* The job stays in the store for the next sweep to try again.
SweepSkips(j) ==
    /\ "remove" \in FaultyOps
    /\ sweeper = "removing"
    /\ j \in todo
    /\ todo' = todo \ {j}
    /\ UNCHANGED <<storeVars, clock, jobVars, slotVars, appVars, sweeper, sweepAt>>

\* Wrong on purpose: the sweeper sweeps once.
EndOnlySweep ==
    /\ sweeper = "removing"
    /\ todo = {}
    /\ Unlock
    /\ sweeper' = "off"
    /\ sweepAt' = 0
    /\ UNCHANGED <<mem, dir, clock, jobVars, slotVars, appVars, todo>>

EndSweep ==
    /\ sweeper = "removing"
    /\ todo = {}
    /\ Unlock
    /\ sweeper' = "idle"
    /\ sweepAt' = 0
    /\ UNCHANGED <<mem, dir, clock, jobVars, slotVars, appVars, todo>>

-----------------------------------------------------------------------------
(* The process: app.New, App.Serve, and its end.                           *)

Boot ==
    /\ app = "down"
    /\ app' = "loading"
    /\ Lock("load")
    /\ todo' = {j \in Jobs : dir[j].present}
    /\ UNCHANGED <<mem, dir, clock, jobVars, slotVars, draining, late,
                   sweeper, sweepAt>>

LoadEntry(j) ==
    /\ app = "loading"
    /\ j \in todo
    /\ RemoveOrphan(j) \/ RestoreFinished(j) \/ RestoreInterrupted(j)
    /\ todo' = todo \ {j}
    /\ UNCHANGED <<mu, clock, jobVars, slotVars, appVars, sweeper, sweepAt>>

\* load returns; the sweeper starts unless retention is disabled.
Loaded ==
    /\ app = "loading"
    /\ todo = {}
    /\ app' = "serving"
    /\ Unlock
    /\ sweeper' = IF Retention = 0 THEN "off" ELSE "idle"
    /\ UNCHANGED <<mem, dir, clock, jobVars, slotVars, draining, late,
                   sweepAt, todo>>

\* SIGINT or SIGTERM: the HTTP server stops accepting.
Signal ==
    /\ app = "serving"
    /\ app' = "http_drain"
    /\ UNCHANGED <<storeVars, clock, jobVars, slotVars, draining, late, sweepVars>>

\* The context of both shutdowns expires.
Deadline ==
    /\ app \in {"http_drain", "job_drain"}
    /\ ~late
    /\ late' = TRUE
    /\ UNCHANGED <<storeVars, clock, jobVars, slotVars, app, draining, sweepVars>>

\* server.Shutdown has waited for the requests in flight, or has run out of
\* time while their handlers go on.  Closing draining wakes every parked
\* goroutine.
CloseDraining ==
    /\ app = "http_drain"
    /\ late \/ \A j \in Jobs : req[j] \notin InRequest
    /\ app' = "job_drain"
    /\ draining' = TRUE
    /\ run' = [j \in Jobs |-> IF run[j] = "parked" THEN "giving_up" ELSE run[j]]
    /\ waiting' = <<>>
    /\ UNCHANGED <<storeVars, clock, req, held, slots, late, sweepVars>>

\* runners.Wait() returns.
RunnersDone ==
    /\ app = "job_drain"
    /\ \A j \in Jobs : run[j] = "idle"
    /\ app' = "drained"
    /\ UNCHANGED <<storeVars, clock, jobVars, slotVars, draining, late, sweepVars>>

\* Shutdown returns ctx.Err().
GiveUpWaiting ==
    /\ app = "job_drain"
    /\ late
    /\ app' = "abandoned"
    /\ UNCHANGED <<storeVars, clock, jobVars, slotVars, draining, late, sweepVars>>

\* a.Close() cancels the sweeper's context; it stops between two sweeps.
StopSweeper ==
    /\ app \in Stopped
    /\ sweeper = "idle"
    /\ sweeper' = "off"
    /\ UNCHANGED <<storeVars, clock, jobVars, slotVars, appVars, sweepAt, todo>>

\* The process ends wherever its goroutines are.  Only the disk survives.
Die ==
    /\ app' = "down"
    /\ mem' = [j \in Jobs |-> Absent]
    /\ mu' = "free"
    /\ req' = [j \in Jobs |-> IF req[j] \in InRequest THEN "over" ELSE req[j]]
    /\ run' = [j \in Jobs |-> "idle"]
    /\ held' = [j \in Jobs |-> Absent]
    /\ slots' = {}
    /\ waiting' = <<>>
    /\ draining' = FALSE
    /\ late' = FALSE
    /\ sweeper' = "off"
    /\ sweepAt' = 0
    /\ todo' = {}
    /\ UNCHANGED <<dir, clock>>

\* main returns.
Exit == app \in Stopped /\ Die

\* SIGKILL, a panic, the OOM killer, a listener that fails.
Crash == app # "down" /\ Die

Tick ==
    /\ clock < MaxClock
    /\ clock' = clock + 1
    /\ UNCHANGED <<storeVars, jobVars, slotVars, appVars, sweepVars>>

-----------------------------------------------------------------------------

RequestStep(j) ==
    \/ InputWritten(j) \/ InputFails(j)
    \/ CreateLocks(j) \/ CreateReturns(j)
    \/ StartRunner(j) \/ RefuseRunner(j)
    \/ MarkLocks(j) \/ MarkReturns(j)

RunnerStep(j) ==
    \/ CheckDraining(j) \/ SelectSlot(j) \/ SelectDraining(j) \/ Park(j)
    \/ GiveUp(j) \/ FetchJob(j) \/ ReadInput(j)
    \/ SaveLocks(j) \/ SaveReturns(j)
    \/ ProcessSucceeds(j) \/ ProcessFails(j)
    \/ OutputOpened(j) \/ OutputWritten(j) \/ OutputFails(j)
    \/ ReleaseSlot(j)

SweepJob(j) == SweepUnlinks(j) \/ SweepDeletes(j) \/ SweepSkips(j)

SweeperStep ==
    \/ BeginSweep \/ SweepLocks \/ EndSweep \/ StopSweeper
    \/ \E j \in Jobs : SweepJob(j)

\* Once begun, a start and a stop run to their end.
ServeStep ==
    \/ \E j \in Jobs : LoadEntry(j)
    \/ Loaded \/ CloseDraining \/ RunnersDone \/ GiveUpWaiting \/ Exit

Next ==
    \/ \E j \in Jobs : Accept(j) \/ RequestStep(j) \/ RunnerStep(j)
    \/ SweeperStep
    \/ ServeStep
    \/ Boot \/ Signal \/ Deadline \/ Crash \/ Tick

Spec == Init /\ [][Next]_vars

\* The Go scheduler lets every goroutine run, and a Go mutex does not starve
\* a waiter: hence strong fairness for those that take the lock.  process
\* returns because the client's http.Client has a timeout.  Nothing makes
\* uploads arrive, signals or crashes happen, the process start again, or a
\* shutdown reach its deadline.
Fairness ==
    /\ \A j \in Jobs : SF_vars(RequestStep(j)) /\ SF_vars(RunnerStep(j))
    /\ SF_vars(SweepLocks)
    /\ WF_vars(SweeperStep)
    /\ WF_vars(ServeStep)

FairSpec == Spec /\ Fairness

-----------------------------------------------------------------------------
(* Properties.                                                             *)

\* A goroutine that still has work to do finds its job in the store, queued
\* or running, and the whole upload on disk: the sweeper never removes a job
\* from under it, whatever its age (DeleteExpired, runJob).
RunnerOwnsLiveJob ==
    \A j \in Jobs :
        run[j] \notin {"idle", "releasing"} =>
            mem[j].status \in Live /\ dir[j].input = "whole"

\* Once the request is over, a directory that has been removed is not made
\* again: no late Save or WriteOutputFile of a goroutine resurrects it.
NoResurrection ==
    [][\A j \in Jobs :
          req[j] \in {"answered", "over"} /\ ~dir[j].present
              => ~dir'[j].present]_vars

\* A job the store calls completed has its whole masked document on disk and
\* the path to it, in memory and after any restart, until retention has the
\* right to remove it (runJob writes the output before it saves the record).
CompletedIsDownloadable ==
    \A j \in Jobs :
        /\ mem[j].status = "completed" /\ ~Expired(mem[j], clock)
              => mem[j].output /\ dir[j].output = "whole"
        /\ dir[j].record.status = "completed" /\ ~Expired(dir[j].record, clock)
              => dir[j].output = "whole"

\* What GET answers from: the map, or what the next start will read.
Latest(j) == IF app \in Up THEN mem[j] ELSE dir[j].record

\* A job that has been recorded is forgotten only after its retention window:
\* neither a crash inside a save nor a restart loses it (persistLocked, load).
AcceptedStaysKnown ==
    [][\A j \in Jobs :
          Latest(j).status # "absent" /\ Latest(j)'.status = "absent"
              => Expired(Latest(j), clock)]_vars

\* While the service is up, every directory with an upload belongs to a
\* request in progress or to a job that retention will reach, provided
\* neither an upload nor a removal fails half-way (Create, load).
NoUnreachableUpload ==
    app \in Up =>
        \A j \in Jobs :
            dir[j].present => req[j] \in Uploading \/ mem[j].status # "absent"

HoldsDocument(j) ==
    \/ run[j] \in {"reading", "processing", "output", "writing"}
    \/ /\ run[j] \in {"saving", "persisting"}
       /\ held[j].status = "running" \/ mem[j].status = "running"

\* At most MaxConcurrentJobs goroutines have a document in memory (the
\* promise made at Service.jobSlots).
DocumentsBounded ==
    Cardinality({j \in Jobs : HoldsDocument(j)}) <= MaxConcurrentJobs

\* When Shutdown has returned nil, no goroutine is left, none starts any
\* more, and a job is under way only if its handler outlived the deadline.
DrainedIsSettled ==
    app = "drained" =>
        \A j \in Jobs :
            /\ run[j] = "idle"
            /\ mem[j].status \in Live => late /\ req[j] \in InRequest

\* All the copies of a job agree on when it was accepted: memory, disk and
\* the record its goroutine is about to save (runJob carries CreatedAt over
\* process, load reads it back).
CreationTimeKept ==
    \A j \in Jobs :
        \A r, s \in {mem[j], dir[j].record, held[j]} :
            "absent" \notin {r.status, s.status} => r.createdAt = s.createdAt

\* A stored upload's retention deadline does not move unless the job itself
\* is at work: in particular no restart pushes it into the future (load).
DeadlineKept ==
    [][\A j \in Jobs :
          (/\ run[j] = "idle" /\ req[j] \in {"answered", "over"}
           /\ "absent" \notin {Latest(j).status, Latest(j)'.status})
              => Latest(j)'.updatedAt <= Latest(j).updatedAt]_vars

\* A job that has been accepted is finished before the process ends, or the
\* process ends: no job stays queued or running for ever, and none is left
\* that way by a start (runJob, startJobRunner, load).
AcceptedSettles ==
    \A j \in Jobs :
        req[j] = "answered" /\ app # "down" ~>
            app = "down" \/ (app \in Up /\ mem[j].status \notin Live)

\* A stop that has been asked for ends, even when its deadline is too far
\* away to help: handlers, runners and Shutdown never wait for each other.
StopEnds == app = "http_drain" ~> app = "down"

\* The documents of an expired job are removed while the service serves.
ExpiredIsDeleted ==
    \A j \in Jobs :
        Expired(mem[j], clock) ~> ~dir[j].present \/ app # "serving"

-----------------------------------------------------------------------------
(* JobService implements JobLedger.  A job under way in a record that no   *)
(* process has in memory is one the next start will report as failed.      *)

LedgerStatus ==
    [j \in Jobs |->
        IF Latest(j).status = "absent"
          THEN IF req[j] \in {"none"} \cup Uploading THEN "none" ELSE "gone"
        ELSE IF app \notin Up /\ Latest(j).status \in Live THEN "failed"
        ELSE Latest(j).status]

LedgerUnsaved ==
    {j \in Jobs : mem[j].status = "completed" /\ dir[j].record.status \in Live}

Ledger == INSTANCE JobLedger
            WITH status <- LedgerStatus,
                 unsaved <- LedgerUnsaved,
                 MaxRunning <- MaxConcurrentJobs

\* What clients can see of the jobs is what the ledger allows.
ImplementsLedger == Ledger!LedgerSpec

-----------------------------------------------------------------------------
(* What a comment says and the code does not do.                           *)

\* service.go, draining: "A job that has not claimed a slot yet gives up
\* instead of starting work" once the service is stopping.
NoClaimWhileDraining ==
    [][\A j \in Jobs :
          draining /\ j \notin slots => j \notin slots']_vars

=============================================================================
