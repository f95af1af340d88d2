# pii-masker: specification, model checking and proofs

`pii-masker` is a Go service that takes a PDF or an image, asks an
Upstage-compatible endpoint where the personal data is, draws black boxes over
it and hands the result back, either in the answer to `POST /v1/mask` or as an
asynchronous job (`POST /v1/jobs`) whose files stay on disk for a retention
window. This directory models the parts of it that are hard to test: what
several goroutines, a mutex, a directory tree, a crash and a shutdown deadline
do to each other, and what has to be true of an answer before a document is
given out as masked.

## The system

| Component | Source | State it keeps | Operations |
|---|---|---|---|
| Job store | `internal/jobs/store.go`, `core/types.go` | `jobs` map under an `RWMutex`; one directory per job with `input*`, `output*`, `job.json` and a temporary file | `New`/`load`, `Create`, `Save`, `Get`, `List`, `WriteInputFile`, `WriteOutputFile`, `DeleteExpired` |
| Asynchronous jobs | `internal/service/service.go` | `jobSlots` channel, `draining` channel, `jobRunners` wait group, the sweeper's context | `CreateJob`, `startJobRunner`, `acquireJobSlot`, `runJob`, `markJobInterrupted`, `Shutdown`, `Close`, `runRetentionSweeper`, `PurgeExpiredJobs` |
| Synchronous requests | `internal/service/service.go`, `internal/httpapi/server.go` | `syncSlots` channel | `ProcessSync`, `acquireSyncSlot`, `handleMask` |
| Masking pipeline | `service.process`, `internal/masking/engine.go` | none between calls | `validateAttachment`, `countPages`, `ParsePayload`, `BuildFieldEntries`, `CollectMaskRegions`, `FieldsMissingGeometry`, `MaskImageFile`, `MaskPDFFile`, `placeRegion`, `mapError` |
| Masking policy | `internal/masking/policy.go` | none | `MaskValue` and its twelve rules, `ComputeMaskedRuneSpans` |
| Inference client | `internal/upstage/client.go` | an `http.Client` | `ParseDocument`, `TestConnection`, redirect and host checks, classification of failures |
| HTTP API | `internal/httpapi/server.go` | none | the handlers, limits on bodies, downloads, history |
| Application | `internal/app/app.go`, `cmd/pii-masker` | the listener and the server | `New`, `Serve`, `Close` |
| Configuration | `internal/config/config.go` | none | environment variables with bounds and defaults |
| Documents | `internal/document` | none | file names, MIME types, image headers |

A request enters through an HTTP handler and calls the service. The
synchronous path takes a slot of `syncSlots`, runs the pipeline and answers.
The asynchronous path writes the upload, creates a record in the store, starts
a goroutine and answers at once; the goroutine takes a slot of `jobSlots`,
reads the upload back, runs the same pipeline, writes the result and saves the
record. The sweeper and every goroutine share the store and its lock. The
application closes the listener on a signal, waits for handlers, then for the
goroutines that hold a slot, until a deadline; the next start reads the
directories again.

Hard behaviours, each listed with its line under `hazards` in `PROJECT.json`:
the sweeper, handlers, job goroutines and the stop interleave; a crash falls
between any two file operations; any file operation can fail; the two selects
of the slot code race a stop or a timer; the deadline moves with no regard to
what a goroutine is doing; and the pipeline must refuse every answer it cannot
draw in full.

## The modules

| Module | Models | Lines it stands for |
|---|---|---|
| `JobStore` | the store's map, lock and directories | `store.go`, `types.go` |
| `JobService` | everything that uses the store: handlers, job goroutines, slots, sweeper, start, stop, crash; it EXTENDS `JobStore` | `service.go` 125-466, `app.go` |
| `JobLedger` | the abstract specification of jobs: what a client that polls may see | - |
| `JobServiceProofs`, `JobResultProofs` | theorems about `JobService`, the second on top of the first | - |
| `JobReads`, `JobClientProofs` | a client that polls, lists and downloads, composed with the whole of `JobService`; its proofs also relate `JobService` to `JobLedger` | `server.go` 199-312, `Store.List`, `app.go` 105-116 |
| `SyncSlots`, `SyncSlotsProofs` | the competition of `POST /v1/mask` requests for slots | `service.go` 223-295, `handleMask` |
| `MaskPipeline` | one run of `process`, from the upload to the status of the answer | `service.go` 497-785, `engine.go`, `client.go` 173-334 |
| `UpstreamClient` | one call of the inference client: allow list, redirect chain, classification of what comes back | `client.go` 201-334, 476-709, `config.go` 195-245 |
| `ServiceRequest`, `ServiceRequestProofs` | the pipeline with the client in place of the call's outcome; it implements `MaskPipeline` | `client.go` 173-199, `service.go` 533-551 |
| `Intake`, `IntakeProofs` | the limits from the environment, and an upload under them | `config.go` 109-332, `server.go` 314-347, `attachment.go`, `service.go` 468-483, 648-684 |
| `RegionPlacement`, `RegionPlacementProofs` | one box, from the endpoint's coordinates to black pixels | `engine.go` 148-242, 480-650 |
| `MaskPolicy`, `MaskPolicyProofs` | one value, from the rule to the spans that are hidden | `policy.go` |
| `MC...` | the small instances TLC checks | - |

How the state corresponds to the code:

- `JobStore`: `mem` is `Store.jobs`, `dir` the job directories with every file
  in the condition a crash can leave it in (absent, partial, whole), `mu` who
  holds `Store.mu` for writing, `clock` the wall clock in units of retention.
  `writeFile` is two steps, before and after its last byte; `persistLocked` is
  two: the temporary file, and the rename that makes it the record.
- `JobService`: `req[j]`, `run[j]`, `sweeper` and `app` are the program
  counters of the handler of a job, its goroutine, the sweeper and
  `App.Serve`. `held[j]` is the record a handler or goroutine holds between a
  `Get` and a `Save`, which is what can go stale. `slots` and `waiting` are the
  `jobSlots` channel: its buffer, and the senders parked on it, which the
  runtime serves first come first served. `draining` and `late` are the closed
  channel and the passed deadline. `Crash` and `Exit` drop everything but
  `dir`, `Boot` and `LoadEntry` read it back one directory at a time. A select
  with several ready cases is one action for each of them.
- `SyncSlots`: `used` and `waiting` are the `syncSlots` channel; here
  the buffer is a count, because no value in it belongs to anyone, and who
  holds a slot follows from `pc`. That the two agree is a property, not a
  definition.
- `MaskPipeline`: `doc` is the upload with at most one fault, `answer` what the
  endpoint returned as the engine reads it, `pending` and `placed` the regions
  the loop of `MaskPDFFile` or `MaskImageFile` still has and has placed. The
  order of the loop follows Go's order of map iteration, so it is arbitrary.
- `UpstreamClient`: `phase` is where a call is, `here` the URL of the last or
  next request, `hops` the length of `via`, and `document` and `token` what the
  request carries. `net/http` decides what a redirect sends again; the code
  decides, in `CheckRedirect`, whether it is followed.
- `ServiceRequest` runs both: `CallBegins`, `CallGoesOn` and `CallEnds` stand
  where `MaskPipeline` has `CallReturns` and `CallFails`. Seen from
  `MaskPipeline` the chain is a stutter until it ends, which is what
  `ImplementsPipeline` says.
- `JobReads` adds a client to `JobService`: `linked[j]` is the record with
  which it was last shown a link to the result of `j`, and `reader` is where
  its download is: asked, looked up under the lock, opened without it, being
  sent. `StopWaits` and `ReaderSees` are what a stop does to a download and a
  download to a stop.
- `Intake`: `env` is what the environment asks for, `limits` what is in force
  after `Load`, `file` the `Attachment`. `Wrap` is what the machine makes of a
  number that is too large for it.
- `RegionPlacement` counts coordinates in parts of a unit, so that the boxes of
  the grid, halves and quarters of them stay whole numbers. `region` is what
  was cut out of `box`, `placed` what `placeRegion` returns, `drawn` the black
  rectangle.
- `MaskPolicy` tells runes apart as far as the rules do. The rules are
  operators; the loop of `ComputeMaskedRuneSpans` is kept as a loop, one action
  for each turn.

`JobStore` and `JobService` are two modules because the lock and the files are
one component and their users another. The clients of the job API are in
`JobReads` and not in `JobService`, because the runner and the sweeper do not
see them. The pipeline is not composed with the slots: nothing but its outcome reaches them (the action `Process` of `SyncSlots`, the
actions `ProcessSucceeds` and `ProcessFails` of `JobService`).

## What is checked

Every configuration names its constants in its `.cfg`; nothing is replaced.

**Jobs** (`MCJobService`)

- `jobs_faults`: two jobs, one slot, restarts at any point, every file
  operation may fail. `RunnerOwnsLiveJob` (the sweeper never takes a job from
  under its goroutine), `CompletedIsDownloadable`, `CreationTimeKept`,
  `NoResurrection` (a removed directory is not made again by a late write),
  `AcceptedStaysKnown` (no crash inside a save loses a record), `DeadlineKept`
  (no restart moves a job's retention into the future), `DrainedIsSettled`
  (when `Shutdown` returns nil nothing runs and nothing starts),
  `DocumentsBounded`, and `ImplementsLedger`, the refinement of `JobLedger`
  with every fault allowed. The ledger is strict but for one thing the code
  does: the error of the last `Save` is dropped, so a client may be told
  `completed` while the record on disk still says `running`. Such jobs are the
  ledger's `unsaved`, and only they may fail in a restart.
- `jobs_progress`: liveness. `AcceptedSettles` (every accepted job ends) and
  `StopEnds`, with the sweeper contending for the lock.

**Clients of the job API** (`MCJobReads`)

- `jobs_reads`: `ServedIsWhole` (a download is a whole masked document though
  the file is opened after the lock was let go of), `LinkHonoured` (a link that
  was shown answers 404 only after the retention window, across stops, crashes
  and restarts, although `job.json` keeps no path), `NoUnreachableUpload`,
  and under fairness `ExpiredIsDeleted` and `StalledClientHoldsNothing` (a
  client that never reads keeps neither the stop nor the sweeper waiting). An
  upload or a removal that fails half-way is left out here, because there the
  code does leave files, until the next start (`WriteInputFile` failing) or
  the next sweep.

**Synchronous requests** (`MCSyncSlots`)

- `sync_slots`: `SlotsExact`, `NobodyWaitsInVain`, `BusyDidNothing` (a 503
  means that nothing was processed, as the handler's comment promises),
  `NoOvertaking` and, under fairness, `EveryRequestEnds`. Whether there is a
  queue (`syncQueueWait` above zero) is chosen at the start and stays.

**A request and its call** (`MCServiceRequest`)

- `service_request`: `EveryFieldCovered` and `UntouchedMeansNothingReported`
  are the two halves of failing closed; `UsableAnswerIsUsed` says that failing
  closed is not failing always; `BlameFits` relates status, code and
  `retryable` to where the fault was. `AllowedHostsOnly` and `NeverInTheClear`
  hold for every request of every redirect chain, and `ImplementsPipeline`
  relates the composition to `MaskPipeline`.

**Uploads** (`MCIntake`)

- `intake`: `LimitsAsAsked` (no overflow, against integers without end),
  `AcceptedIsWhole` and `TooLargeIsTooLarge` (the two limits on the way in, to
  the byte), `AcceptedStaysAcceptable` (a job accepted with 202 passes the same
  checks when its goroutine reads it back).

**Geometry** (`MCRegionPlacement`)

- `placement`: `HiddenIsCovered` (what must be hidden comes out black through
  cut, scale, clip, widening and rounding), `DrawnShows`, `UsableBoxIsDrawn`,
  `LittleIsClipped` (coordinates in the wrong units are not clipped onto the
  page).

**Policy** (`MCMaskPolicy`)

- `mask_policy`: `RuneAligned`, `NeverTheOriginal`, `SpansAreTheHidden`,
  `RuleKeepsItsPromise` (the README's table of rules against the code).

### Disagreements

Runs that find the code doing something other than the text beside it says.

| Run | Property | What happens |
|---|---|---|
| `drain_claim` | `NoClaimWhileDraining` | between the check of `draining` and the select of `acquireJobSlot` a stop can begin; with a slot free both cases are ready and a job starts work during the stop |
| `unread_box` | `EveryBoxWasRead` | of a field with two boxes, one of them not numbers, only the other is covered |
| `wide_space` | `EvenCharactersMasked` | a wide space between two characters of a name counts as the even character, and the name stays readable |
| `history_order` | `HistoryByAcceptance` | `Store.List` sorts by the last update, so a job accepted first and updated last comes first; a comment in `runJob` has it ordered by acceptance |

Met while modelling, followed by the model as the code has it, and not given a
run of their own:

- Jobs above the limit need not run in the order they came (`README.md` line 39
  says they do): each has a goroutine that reaches `jobSlots` in its own time.
- A region for page 2 of an image is drawn on its only page; `README.md` lists
  a page the document does not have among the refusals.
- The 400 for a PDF with too many pages says `processing_failed`, not
  `invalid_request` (`README.md` line 35).
- A box in page units in the very corner of the page can be cut into the unit
  square and is then read as normalized. `HiddenIsCovered` leaves these boxes
  out.
- A cut of a normalized box that is thinner than half a unit of the page is
  refused, where the comment on the cut says that it is widened.
- A redirect that is refused for its scheme or for the length of the chain
  comes out as `network_error`, which is retryable, though a retry meets the
  same redirect.
- `net/http` follows 301, 302 and 303 with a GET that has no document. The
  answer to it is read as the answer to the document.
- `TestConnection` reports that the token was accepted on a 400, 415 or 422,
  also where a redirect to another allowed host dropped the `Authorization`
  header on the way.

### Bounds

- Jobs: two jobs are what the interference of one job with another needs (one
  slot, one lock, a queue of one). The cardinality of the slots and the order
  of the queue for more of both are the theorems'. `Retention` is 1 and
  `MaxClock` 2, so a job can expire and another cannot. `FaultyOps` names the
  file operations that may fail; each fails or succeeds at every call. The
  number of restarts is not bounded. Jobs are interchangeable, which is what
  the symmetry of the safety run uses; the liveness runs use none.
- `JobReads`: one job, because a client's link, download and page speak of one
  job at a time and the interference it meets is that of the sweeper, the stop
  and the restart; `history_order` has two. Page sizes from -1 to one more
  than the maximum of two.
- `SyncSlots`: three requests and one slot, so that two can wait and the order
  of the queue shows. The theorems hold for any number of both.
- `ServiceRequest`: two fields, one under a rule and one under none, two
  elements with two boxes between them, two pages. A property of an answer
  talks of a field and a box of it, or of one field that hides another; two
  elements cover the same field sighted twice. Two hosts, URLs and entries
  with a port and without, every allow list over them, chains up to the real
  limit of five. Answers and chains are not multiplied with each other: the
  pipeline does not read the client's variables nor the client the document.
- `Intake`: integers of seven bits, a mebibyte of eight bytes and a unit of
  six nanoseconds, so that every product, and the limit with its headroom,
  reaches the largest integer, passes it, and wraps round to positive values.
  Sizes from two below a limit to two past its headroom. The theorems hold for
  integers of any width.
- `RegionPlacement`: eleven by eight coordinates for each corner, off the page on
  either side, inside the unit square, half a unit thin, at the edge of each
  page, and at and just beyond the twentieth that is tolerated; three pages,
  three sizes reported, a cut in halves. The narrowest page has ten units,
  where a cut that was widened to one unit just keeps within the twentieth: on
  one of eight units TLC finds it refused (`UsableBoxIsDrawn` says so in its
  guard). Sixteen parts to a unit leave no rest in any division of the run;
  the theorems hold for divisions that round.
- `MaskPolicy`: for each rule every value over the characters it looks at, up
  to a length that passes its limits: nine for digits (six leading, four
  trailing), seven for an email (a local part of five), eight for an address
  (four tokens) and for an IP address.

### Fairness

Safety runs assume none. The liveness runs assume:

- `JobService`: strong fairness of each handler and each job goroutine, because
  they contend for `Store.mu` and the channel, which Go serves in such a way
  that nobody waits for ever (a mutex in starvation mode hands over in order);
  strong fairness of `SweepLocks` for the same reason; weak fairness of the
  sweeper's other steps and of `App.Serve`. Nothing forces a signal, a crash,
  the deadline or the clock: `StopEnds` holds with a deadline that never comes.
  The calls to the endpoint end because its client has a timeout.
- `JobReads`: the same, with the sweeper's and the server's steps as they are
  beside a client, and fairness of a download up to the opening of the file.
  `WriteTimeout` is not set, so nothing makes a client read: there is no
  fairness of `SendEnds`.
- `SyncSlots`: weak fairness of each goroutine's steps, of timers and of
  `process`. No client has to arrive or to hang up.

## What is proved

TLAPS checks every step of the proof modules. They assume only what the modules
state about their constants (the `ASSUME`s at the head of `JobStore`,
`JobService`, `SyncSlots`, `MaskPipeline`, `MaskPolicy`, `UpstreamClient`,
`Intake` and `RegionPlacement`) and hold for every number of jobs, requests,
fields, hosts and slots, for values of any length, integers of any width, boxes
and pages of any size. One theorem has a hypothesis of its own, named
`Unfailing`, which is that of the run it generalizes. Every invariant and every
action property that a passing run checks is stated by a theorem, and so are
the two refinements.

`JobServiceProofs`

- `TypeCorrect`: `Spec => []TypeOK`. The type invariants are proved here and in
  `SyncSlotsProofs` and no run spends its time on them.
- `Inductive`: `Spec => []IInv`. `RunnerOwnsLiveJob` is not inductive: that the
  sweeper does not remove a job in use follows from its status, that the status
  is live follows from where the goroutine is and what it last saved, and that
  this is still what the store holds follows from the lock. `IInv` says each of
  these: `LockInv` (who holds `mu` is at a place that holds it), `LifeInv`
  (nothing runs in a process that is down), `SweepInv` (what the sweeper is
  about to remove is expired and finished), `RequestInv` (where the handler is
  and what the store has), `QueueInv` (who is parked is in the queue, once),
  `WorkInv` (where the goroutine is and what the store and the disk have).
- `RunnersKeepTheirJobs`: `Spec => []RunnerOwnsLiveJob`, from `IInv`.
- `MemoryBounded`: `Spec => []DocumentsBounded`, from `IInv` and a bound on
  the cardinality of `slots` that every step keeps (`SlotStep`; a release hands
  its slot over to the first in the queue).
- `RecordsAgree`: `Spec => []RecordInv`, on top of `IInv`. A record has up to
  three copies: in memory, on disk, and in the hands of a goroutine or handler
  that will save it. Any write may fail and any crash keep only the one on disk,
  so `RecordInv` says of each pair what the one may know that the other does
  not: `Held` (what is about to be saved), `Agree` (memory may be ahead of the
  disk, never behind), `LoadedSoFar` (what a start has read back), `Files`,
  `Dates` and `SweptInv`.

`JobResultProofs`

- `NothingComesBack` (`NoResurrection`), `AcceptedIsRemembered`
  (`AcceptedStaysKnown`) and `DeadlineNeverMoves` (`DeadlineKept`), action
  properties of every step from a state of `RecordInv`.
- `CompletedHasItsDocument`: `Spec => []CompletedIsDownloadable`. Nobody
  touches the result of a record that is called completed, and whoever is about
  to call it so holds a whole result (`Held`).
- `DrainLeavesNothing`: `Spec => []DrainedIsSettled`. `StopInv` says which steps
  of the stop are behind, and `InHand` that an accepted job that has not ended
  is in the hands of a handler or a goroutine; when none is left, none is open.
- `AcceptanceIsDatedOnce`: `Spec => []CreationTimeKept`.
- `UploadsAreReached`: `Spec => []NoUnreachableUpload`, where neither writing an
  upload nor removing a directory fails half-way (`Unfailing`). Without that
  the code does leave files for a while, so it cannot be dropped. `Reachable`
  adds to the property what a start has not read yet: a directory whose turn
  in `load` is still to come.
- `DiskFollowsMemory`: `Spec => []SavedInv`. `Agree` lets the disk be behind;
  `SavedInv` says by how much: only while a goroutine or a handler is at work
  on the job, or after the `Save` whose error the code drops.

`JobClientProofs`

- The clients of `JobReads` only look, so `ReadsSpec => Spec`, and what is
  proved of the service holds beside them.
- `ResultsAreWhole`: `ReadsSpec => []ServedIsWhole`. Between the lookup under
  the lock and the opening of the file the store may change; `Given` says how:
  the job is still completed, or it was removed and its directory with it, so
  the file is whole or is not there.
- `LinksAreHonoured`: `ReadsSpec => LinkHonoured`, an action property. `LinkInv`
  says that whoever was shown a link was shown the record the API still answers
  from, unless its time is over. The one exception is a record that the end of
  a process finds unsaved (the dropped error of `Save` again): `ReaderSees`
  takes its link back.
- `LedgerIsKept`: `Spec => ImplementsLedger`, the refinement of `JobLedger` step
  by step and with every fault allowed. The status a client is told is that of
  memory while the process is up, and of the disk while it is down, so the end
  of a process is one step of the ledger (`OutageIsShown`) and everything a
  start does is none. That needs `ReportedInv`: a job memory does not know has
  no record that a start could find, and `load` tells what it has read. A
  goroutine that claims a slot finds room (`RoomToRun`, from the bound on
  `slots`): the ledger's limit on running jobs. A removal is two steps of the
  code, and shows in one or the other depending on whether the record was saved.

`SyncSlotsProofs`

- `SlotsNeverLeak` (`SlotsExact`) and `QueueIsNeeded` (`NobodyWaitsInVain`).
  The two need each other: the count is right because a release goes to a
  request that is parked, and that is known from the queue.
- `BusyMeansUntouched` (`BusyDidNothing`), from an invariant about answers.
- `ServedInTurn`: `Spec => NoOvertaking`, an action property, from the same
  invariant.

`ServiceRequestProofs`

- `FailsClosed` and `UntouchedIsClean`, for answers of any size. The invariant
  says that from the verdict on, what has been placed and what is pending make
  up all regions of the answer, and that a field with a box has a region.
- `BlameIsRight` (`BlameFits`) and `UsableIsNotRefused` (`UsableAnswerIsUsed`),
  from that invariant and `CaseInv`, which ties the stage to the document and
  the answer that brought it there.
- `ComposedImplementsPipeline`: every step of the composition is a step of
  `MaskPipeline` or a stutter of its variables. It needs `CallInv`: while a
  call is under way the pipeline is at the call. `ComposedFailsClosed` carries
  `FailsClosed` over.
- `ChainStaysOnTheList` and `ChainStaysEncrypted`, for chains of any length:
  `ChainInv` says that where the next request goes was agreed to.
- `NothingCutShortIsUsed`: a body past the cap has an error of its own
  (`CutShortIsNamed`, which no run checks), for caps and bodies of any size.

`IntakeProofs`

- `LimitsExact`, `NothingCut`, `TooLargeMeansIt`, `AcceptedOnceAcceptedTwice`.
  The arithmetic is in lemmas: a factor up to `MaxInt \div unit` has a product
  that the machine holds, and the largest limit still leaves room for the
  headroom, because limits are whole mebibytes and the largest integer is one
  short of a whole number of them. That normalizing a type twice is normalizing
  it once is the lemma behind the last.

`MaskPolicyProofs`

- `SpansExact`: `Spec => []SpansAreTheHidden`, for values of any length and
  whatever the rule does. The invariant is that of the loop: the runs found,
  together with the one the scan is in, are the hidden positions before
  `index`.
- `ValuesLineUp` (`RuneAligned`) and `OriginalNeverShown` (`NeverTheOriginal`),
  for every rule and value. `Starred` says that a value has turned some of its
  characters into asterisks and kept the others in place; each rule stars the
  trimmed value, also those that cut it in two and put it together again, and
  putting the surrounding space back keeps the positions.
- `RulesKeepTheirPromise`: `Spec => []RuleKeepsItsPromise`. Where a character
  that is no white space can still be read, the rule's word was taken for the
  whole value (`RuleTaken`: the fallback stars every such character). What is
  left is about each rule and the trimmed value, with a lemma for each rule
  (`RegistrationShows` to `FullMaskHides`). Three facts about counting carry
  them: the digits before a digit, the digit and those after it make up all
  (`DigitsAround`), trimming moves the characters along and changes no count
  (`SameInside`), and of two visible characters with none between them one is
  even (`EvenOfTwo`).

`RegionPlacementProofs`

- `RectanglesStayOrdered`: `Spec => []TypeOK`, which is what says here that no
  corner ever passes the other. It is proved together with `Staged`: what each
  stage will read is what the one before it left.
- `HiddenPartsAreCovered` (`HiddenIsCovered`): each stage keeps what is in a
  rectangle in it (`CutHolds`, `ScaledKeeps`, `ClippedKeeps`, `WidenedKeeps`,
  `DrawnKeeps`). What the solver knows of products and divisions is little, so
  these rest on lemmas about both (`TimesMonotone`, `DivMonotone`,
  `FloorBelow`, `CeilAbove`), and scaling is monotone although it rounds.
- `MasksShow` (`DrawnShows`), `LooseBoxesOnly` (`LittleIsClipped`) and
  `UsableBoxesAreDrawn` (`UsableBoxIsDrawn`). The attempt to prove the last
  showed that it is false on pages of less than ten units, where a cut widened
  to one unit can reach past the edge by more than the twentieth that is
  tolerated; the property now says which pages it speaks of.

## What is only model-checked

- Liveness (`AcceptedSettles`, `StopEnds`, `ExpiredIsDeleted`,
  `StalledClientHoldsNothing`, `EveryRequestEnds`): fairness and ENABLED are
  beyond the prover. The invariants above are what a proof would begin with.
- That the guards leave the system something to do: the theorems say what may
  never happen, and the runs, in which every action fires, that the rest does.
- The four disagreements above: TLC shows a behaviour of each.

## What is not modelled

- What is inside pdfcpu and the image codecs: they fail, change nothing or
  succeed. That the text under a black box is still in a PDF is stated in the
  repository's README and is not a question of behaviour.
- The walk over the JSON of an answer (which key is a field's name, which its
  value, how a polygon is written), and the words of a key that select a rule.
  `MaskPipeline` starts from what was read and which boxes could not be read;
  a transcription of the tables would be as long as they are.
- File names: sanitising them, quoting them in headers. They are strings put
  together character by character, and nothing in the state depends on them
  but that a stored name exists.
- The copies of requests and answers kept for debugging, and the wording of
  messages.
- Configuration strings and switches; the normalizing of the base URL.
- `net/http` but for what a redirect sends again, and range requests of
  `ServeContent`, which are external.
- The static UI, the mock endpoint, scripts and the container: no state.
- Several processes on one storage directory: the code does not support it.

## Plan

Done: the store and the jobs with their ledger, the clients of the job API, the
synchronous slots, the pipeline and the inference client composed, uploads and
limits, the geometry and the policy, with the proofs above. What would come
next, in this order:

1. The theorems of `JobService` that clients see, restated for `ReadsSpec`
   (`ReadsImplementSpec` gives them), and the safety part of what the liveness
   properties need: that no reachable state with a job in hand is stuck.
2. The choice of a rule from a key (`containsAny` in its order), added to
   `MaskPolicy`.
3. The composition of `MaskPolicy` with `RegionPlacement`: the spans that are
   found are the ones that are cut.
