--------------------------- MODULE JobClientProofs ---------------------------
(***************************************************************************)
(* What the clients of the job API can count on, from what JobResultProofs *)
(* says of the service: a result that is sent is whole, a link that was    *)
(* shown is honoured, and what is shown of the jobs is what JobLedger      *)
(* allows.  For any set of jobs, any capacity, any retention window, any   *)
(* length of the history and any subset of failing file operations.        *)
(***************************************************************************)
EXTENDS JobReads, JobResultProofs

USE DEF Live, Terminal

-----------------------------------------------------------------------------
(* Clients only look: the service beside them is the one of JobService.    *)

(* A step of the composition is one of the service or leaves it alone.     *)
LEMMA ReadsNextIsNext == ReadsNext => [Next]_vars
<1>1. \A j \in Jobs : Poll(j) \/ Ask(j) => UNCHANGED vars
  BY DEF Poll, Ask
<1>2. ListJobs \/ ReadStep \/ SendEnds => UNCHANGED vars
  BY DEF ListJobs, ReadStep, LookUp, OpenResult, OpenFails, SendEnds, AnswerWith
<1>3. QED
  BY <1>1, <1>2 DEF ReadsNext

(* So what is always true of the service is true with clients around.      *)
LEMMA ReadsImplementSpec == ReadsSpec => Spec
<1>1. ReadsInit => Init
  BY DEF ReadsInit
<1>2. [ReadsNext]_allVars => [Next]_vars
  BY ReadsNextIsNext DEF allVars
<1>3. QED
  BY <1>1, <1>2, PTL DEF ReadsSpec, Spec

\* What JobServiceProofs and JobResultProofs have proved of the service.
ServiceInv ==
    IInv /\ RecordInv /\ SavedInv /\ CompletedIsDownloadable

LEMMA ServiceStays == ReadsSpec => []ServiceInv
  BY ReadsImplementSpec, Inductive, RecordsAgree, DiskFollowsMemory,
     CompletedHasItsDocument, PTL DEF ServiceInv

-----------------------------------------------------------------------------
(* The download.                                                           *)

\* A job whose result was found in the store: it is still there, or it was
\* removed since and nothing is left of it.
Given(j) ==
    \/ mem[j].status = "completed"
    \/ mem[j].status = "absent" /\ dir[j] = NoDir /\ req[j] \in {"answered", "over"}

DownloadInv ==
    /\ reader # "idle" => app \in Up
    /\ reader \in {"looking", "found"} => reply = "none"
    /\ reader = "found" => Given(subject)
    /\ reader = "sending" => reply = "whole"

(* While the service is up a result that was found is not written again:   *)
(* only the sweeper touches it, and takes all of it.                       *)
LEMMA GivenStays ==
  ASSUME ServiceInv, NEW j \in Jobs, Given(j), app \in Up,
         [Next]_vars, app' # "down"
  PROVE  Given(j)'
<1>1. /\ Standing(j) /\ mem \in [Jobs -> Record] /\ dir \in [Jobs -> Directory]
      /\ req \in [Jobs -> RequestState]
  BY JobStands DEF ServiceInv, IInv, TypeOK, StoreTypeOK
<1>2. /\ run[j] \in {"idle", "releasing"}
      /\ req[j] \in {"answered", "over"}
  <2>1. CASE mem[j].status = "completed"
    <3>1. run[j] \in {"idle", "releasing"}
      BY <1>1, <2>1 DEF Standing, RunnerState, Masking
    <3>2. req[j] \notin {"refused", "marking"}
      BY <2>1 DEF ServiceInv, RecordInv, Recorded, Files
    <3>3. QED
      BY <1>1, <2>1, <3>1, <3>2
         DEF Standing, RequestState, InRequest, Uploading
  <2>2. CASE mem[j].status = "absent" /\ dir[j] = NoDir /\ req[j] \in {"answered", "over"}
    BY <1>1, <2>2 DEF Standing, NoDir
  <2>3. QED
    BY <2>1, <2>2 DEF Given
<1>3. ASSUME NEW i \in Jobs, Accept(i) \/ RequestStep(i) PROVE Given(j)'
  <2>1. i # j
    BY <1>2, <1>3
       DEF RequestStep, Accept, InputWritten, InputFails, CreateLocks,
           CreateReturns, StartRunner, RefuseRunner, MarkLocks, MarkReturns
  <2>2. mem'[j] = mem[j] /\ dir'[j] = dir[j] /\ req'[j] = req[j]
    BY <1>1, <1>3, <2>1
       DEF RequestStep, Accept, InputWritten, InputFails, CreateLocks,
           CreateReturns, StartRunner, RefuseRunner, MarkLocks, MarkReturns,
           ReqTo, BeginInput, EndInput, Stage, CreateSucceeds, CreateFails,
           Save, Persist, storeVars
  <2>3. QED
    BY <2>2 DEF Given
<1>4. ASSUME NEW i \in Jobs, RunnerStep(i) PROVE Given(j)'
  <2>1. mem'[j] = mem[j] /\ dir'[j] = dir[j] /\ req' = req
    BY <1>1, <1>2, <1>4
       DEF RunnerStep, CheckDraining, SelectSlot, SelectDraining, Park,
           GiveUp, FetchJob, ReadInput, SaveLocks, SaveReturns,
           ProcessSucceeds, ProcessFails, OutputOpened, OutputWritten,
           OutputFails, ReleaseSlot, Stage, Save, Persist, BeginOutput,
           EndOutput, storeVars
  <2>2. QED
    BY <2>1 DEF Given
<1>5. ASSUME SweeperStep PROVE Given(j)'
  <2>1. req' = req
    BY <1>5
       DEF SweeperStep, BeginSweep, SweepLocks, EndSweep, StopSweeper, SweepJob,
           SweepUnlinks, SweepDeletes, SweepSkips, jobVars
  <2>2. \/ mem'[j] = mem[j] /\ dir'[j] = dir[j]
        \/ mem'[j] = mem[j] /\ sweeper = "removing" /\ j \in todo
        \/ mem'[j].status = "absent" /\ dir'[j] = NoDir
    BY <1>1, <1>5
       DEF SweeperStep, BeginSweep, SweepLocks, EndSweep, StopSweeper, SweepJob,
           SweepUnlinks, SweepDeletes, SweepSkips, UnlinkOne, DeleteJob, Absent,
           storeVars
  <2>3. sweeper = "removing" /\ j \in todo => mem[j].status # "absent"
    BY <1>1 DEF Standing
  <2>4. QED
    BY <1>2, <2>1, <2>2, <2>3 DEF Given
<1>6. CASE \/ Signal \/ Deadline \/ Tick \/ CloseDraining \/ RunnersDone
           \/ GiveUpWaiting \/ UNCHANGED vars
  BY <1>6
     DEF Signal, Deadline, Tick, CloseDraining, RunnersDone, GiveUpWaiting,
         storeVars, jobVars, vars, Given
<1>7. ~(Boot \/ Loaded \/ Exit \/ Crash \/ \E i \in Jobs : LoadEntry(i))
  BY DEF Boot, Loaded, Exit, Crash, Die, LoadEntry, Up
<1>8. QED
  BY <1>3, <1>4, <1>5, <1>6, <1>7 DEF Next, ServeStep

(* A process that is up stays up until it is down.                         *)
LEMMA UpUntilDown ==
  ASSUME IInv, [Next]_vars, app \in Up, app' # "down"
  PROVE  app' \in Up
<1>1. CASE \/ \E i \in Jobs : Accept(i) \/ RequestStep(i) \/ RunnerStep(i)
           \/ SweeperStep
  BY <1>1
     DEF Accept, RequestStep, InputWritten, InputFails, CreateLocks,
         CreateReturns, StartRunner, RefuseRunner, MarkLocks, MarkReturns,
         RunnerStep, CheckDraining, SelectSlot, SelectDraining, Park, GiveUp,
         FetchJob, ReadInput, SaveLocks, SaveReturns, ProcessSucceeds,
         ProcessFails, OutputOpened, OutputWritten, OutputFails, ReleaseSlot,
         SweeperStep, BeginSweep, SweepLocks, EndSweep, StopSweeper, SweepJob,
         SweepUnlinks, SweepDeletes, SweepSkips, appVars
<1>2. CASE \/ Boot \/ ServeStep \/ Signal \/ Deadline \/ Crash \/ Tick
           \/ UNCHANGED vars
  BY <1>2
     DEF Boot, ServeStep, LoadEntry, Loaded, Signal, Deadline, CloseDraining,
         RunnersDone, GiveUpWaiting, Exit, Crash, Die, Tick, appVars, vars, Up,
         AppState, Stopped
<1>3. QED
  BY <1>1, <1>2 DEF Next

LEMMA DownloadInit == ReadsInit => ReadsTypeOK /\ DownloadInv
<1>1. Absent \in Record
  BY AbsentIsRecord
<1>2. QED
  BY <1>1 DEF ReadsInit, ReadsTypeOK, DownloadInv

(* What a client is shown is a record.                                     *)
LEMMA LinkIsRecord ==
  ASSUME NEW r \in Record
  PROVE  Link(r) \in Record
  BY AbsentIsRecord DEF Link

LEMMA DownloadStep ==
  ASSUME ServiceInv, ReadsTypeOK, DownloadInv, [ReadsNext]_allVars
  PROVE  ReadsTypeOK' /\ DownloadInv'
<1>1. /\ mem \in [Jobs -> Record] /\ dir \in [Jobs -> Directory]
      /\ subject \in Jobs /\ linked \in [Jobs -> Record]
  BY DEF ServiceInv, IInv, TypeOK, StoreTypeOK, ReadsTypeOK
<1>2. ASSUME UNCHANGED vars PROVE \A j \in Jobs : Given(j)' <=> Given(j)
  BY <1>2 DEF vars, Given
<1>3. ASSUME UNCHANGED <<vars, subject, reader, reply>>,
             linked' \in [Jobs -> Record]
      PROVE  ReadsTypeOK' /\ DownloadInv'
  BY <1>1, <1>2, <1>3 DEF ReadsTypeOK, DownloadInv, vars
<1>4. ASSUME NEW j \in Jobs, Poll(j) PROVE ReadsTypeOK' /\ DownloadInv'
  <2>1. Link(mem[j]) \in Record
    BY <1>1, LinkIsRecord
  <2>2. QED
    BY <1>1, <1>3, <1>4, <2>1 DEF Poll
<1>5. CASE ListJobs
  <2>1. linked' \in [Jobs -> Record]
    BY <1>1, <1>5, LinkIsRecord DEF ListJobs
  <2>2. QED
    BY <1>3, <1>5, <2>1 DEF ListJobs
<1>6. ASSUME NEW j \in Jobs, Ask(j) PROVE ReadsTypeOK' /\ DownloadInv'
  BY <1>6 DEF Ask, ReadsTypeOK, DownloadInv, Up, AppState, vars
<1>7. ASSUME NEW r \in {"none", "not_found", "error"}, AnswerWith(r)
      PROVE  ReadsTypeOK' /\ DownloadInv'
  BY <1>7 DEF AnswerWith, ReadsTypeOK, DownloadInv
<1>8. CASE LookUp
  <2>1. CASE HasResult(mem[subject])
    BY <1>2, <1>8, <2>1
       DEF LookUp, HasResult, Given, ReadsTypeOK, DownloadInv, vars
  <2>2. CASE ~HasResult(mem[subject])
    BY <1>7, <1>8, <2>2 DEF LookUp
  <2>3. QED
    BY <2>1, <2>2
<1>9. CASE OpenResult
  <2>1. CASE dir[subject].output = "none"
    BY <1>7, <1>9, <2>1 DEF OpenResult
  <2>2. CASE dir[subject].output # "none"
    <3>1. Given(subject)
      BY <1>9 DEF OpenResult, DownloadInv
    <3>2. dir[subject].output \notin {"none", "partial"}
      BY <2>2, <3>1
         DEF Given, ServiceInv, SavedInv, SavedSoFar, ReadsTypeOK, NoDir
    <3>3. dir[subject].output = "whole"
      BY <1>1, <3>2 DEF Directory, File
    <3>4. QED
      BY <1>9, <2>2, <3>3 DEF OpenResult, ReadsTypeOK, DownloadInv, vars
  <2>3. QED
    BY <2>1, <2>2
<1>10. CASE OpenFails \/ SendEnds
  BY <1>7, <1>10 DEF OpenFails, SendEnds
<1>11. CASE Next /\ StopWaits /\ ReaderSees
  <2>1. CASE app # "down" /\ app' = "down"
    BY <1>1, <1>11, <2>1, AbsentIsRecord
       DEF ReaderSees, ReadsTypeOK, DownloadInv
  <2>2. CASE ~(app # "down" /\ app' = "down")
    <3>1. UNCHANGED readVars
      BY <1>11, <2>2 DEF ReaderSees
    <3>2. ReadsTypeOK'
      BY <3>1 DEF ReadsTypeOK, readVars
    <3>3. reader # "idle" => app \in Up /\ app' # "down"
      BY <2>2 DEF DownloadInv, Up
    <3>4. reader # "idle" => app' \in Up
      BY <1>11, <3>3, UpUntilDown DEF ServiceInv
    <3>5. reader = "found" => Given(subject)'
      BY <1>1, <1>11, <3>1, <3>3, GivenStays DEF DownloadInv, readVars
    <3>6. QED
      BY <3>1, <3>2, <3>4, <3>5 DEF DownloadInv, readVars
  <2>3. QED
    BY <2>1, <2>2
<1>12. CASE UNCHANGED allVars
  BY <1>2, <1>12 DEF allVars, readVars, vars, ReadsTypeOK, DownloadInv
<1>13. QED
  BY <1>4, <1>5, <1>6, <1>8, <1>9, <1>10, <1>11, <1>12 DEF ReadsNext, ReadStep

LEMMA DownloadsInOrder == ReadsSpec => [](ReadsTypeOK /\ DownloadInv)
<1>1. ServiceInv /\ ReadsTypeOK /\ DownloadInv /\ [ReadsNext]_allVars
         => (ReadsTypeOK /\ DownloadInv)'
  BY DownloadStep
<1>2. QED
  BY <1>1, DownloadInit, ServiceStays, PTL DEF ReadsSpec

\* A result that is sent is the whole masked document, although its file is
\* opened after the store's lock was let go of, and whatever the sweeper and
\* the end of the process do in between (handleGetJobResult).
THEOREM ResultsAreWhole == ReadsSpec => []ServedIsWhole
<1>1. DownloadInv => ServedIsWhole
  BY DEF DownloadInv, ServedIsWhole
<1>2. QED
  BY <1>1, DownloadsInOrder, PTL

-----------------------------------------------------------------------------
(* The link.                                                               *)

(* A completed job stays so, as the API answers for it, until its time is  *)
(* over or the process ends with a record that was never saved.            *)
LEMMA CompletedStays ==
  ASSUME ServiceInv, [Next]_vars, NEW j \in Jobs, Latest(j).status = "completed"
  PROVE  \/ /\ Latest(j)'.status = "completed"
            /\ Latest(j)'.updatedAt = Latest(j).updatedAt
         \/ Expired(Latest(j), clock)
         \/ app # "down" /\ app' = "down" /\ j \in LedgerUnsaved
<1>1. /\ IInv /\ RecordInv /\ Standing(j) /\ Recorded(j) /\ SavedSoFar(j)
      /\ dir \in [Jobs -> Directory] /\ mem[j] \in Record
  BY JobStands
     DEF ServiceInv, RecordInv, SavedInv, IInv, TypeOK, StoreTypeOK, Standing
<1>2. CASE UNCHANGED vars
  BY <1>2 DEF vars, Latest
<1>3. CASE \/ \E i \in Jobs : Accept(i) \/ RequestStep(i) \/ RunnerStep(i)
           \/ SweeperStep
  <2>1. app \in Up
    BY <1>1, <1>3, LivesInProcess
  <2>2. mem[j].status = "completed"
    BY <2>1 DEF Latest
  <2>3. run[j] # "persisting" /\ req[j] \notin {"creating", "marking"}
    BY <1>1, <2>2 DEF Standing, Recorded, Files, Uploading
  <2>4. /\ app' = app
        /\ mem'[j] = mem[j] \/ (mem'[j] = Absent /\ Expired(mem[j], clock))
    BY <1>1, <1>3, <2>3, InMemory
  <2>5. QED
    BY <2>1, <2>2, <2>4 DEF Latest
<1>4. ASSUME NEW i \in Jobs, LoadEntry(i)
      PROVE  /\ Latest(j)'.status = "completed"
             /\ Latest(j)'.updatedAt = Latest(j).updatedAt
  <2>1. app \notin Up /\ app' \notin Up
    BY <1>4 DEF LoadEntry, appVars, Up
  <2>2. dir[j].record.status = "completed"
    BY <2>1 DEF Latest
  <2>3. dir'[j] = dir[j]
    BY <1>1, <1>4, <2>2
       DEF LoadEntry, RemoveOrphan, RestoreFinished, RestoreInterrupted, Persist
  <2>4. QED
    BY <2>1, <2>2, <2>3 DEF Latest
<1>5. CASE Boot \/ Signal \/ Deadline \/ Tick \/ CloseDraining \/ RunnersDone
             \/ GiveUpWaiting
  <2>1. mem' = mem /\ dir' = dir /\ (app' \in Up <=> app \in Up)
    BY <1>5
       DEF Boot, Signal, Deadline, Tick, CloseDraining, RunnersDone,
           GiveUpWaiting, storeVars, appVars, Up, AppState, Stopped
  <2>2. QED
    BY <2>1 DEF Latest
<1>6. CASE Loaded
  BY <1>1, <1>6 DEF Loaded, Latest, Recorded, LoadedSoFar, Up, AppState
<1>7. CASE Exit \/ Crash
  <2>1. app # "down" /\ app' = "down" /\ dir' = dir /\ Latest(j)' = dir[j].record
    BY <1>7 DEF Exit, Crash, Die, Stopped, Latest, Up
  <2>2. CASE app \notin Up
    BY <2>1, <2>2 DEF Latest
  <2>3. CASE app \in Up
    <3>1. mem[j].status = "completed" /\ Latest(j) = mem[j]
      BY <2>3 DEF Latest
    <3>2. CASE dir[j].record.status = "completed"
      BY <1>1, <2>1, <2>3, <3>1, <3>2 DEF Recorded, Agree
    <3>3. CASE dir[j].record.status \in Live
      BY <2>1, <3>1, <3>3 DEF LedgerUnsaved
    <3>4. CASE dir[j].record.status = "absent"
      BY <1>1, <2>3, <3>1, <3>4 DEF Recorded, Agree
    <3>5. dir[j].record.status \in {"absent"} \cup Live \cup Terminal
      BY <1>1 DEF Directory, Record
    <3>6. QED
      BY <1>1, <3>1, <3>2, <3>3, <3>4, <3>5 DEF SavedSoFar
  <2>4. QED
    BY <2>2, <2>3
<1>8. QED
  BY <1>2, <1>3, <1>4, <1>5, <1>6, <1>7 DEF Next, ServeStep

\* What was shown with a link is what the API still answers from, unless its
\* time is over.
LinkInv(j) ==
    linked[j] # Absent =>
        /\ linked[j].status = "completed"
        /\ \/ Expired(linked[j], clock)
           \/ /\ Latest(j).status = "completed"
              /\ Latest(j).updatedAt = linked[j].updatedAt

(* A link is shown only for a completed job.                               *)
LEMMA LinkShown ==
  ASSUME NEW j \in Jobs, app \in Up, UNCHANGED vars, linked'[j] = Link(mem[j])
  PROVE  LinkInv(j)'
  BY DEF LinkInv, Link, HasResult, Latest, vars

(* What is over its time stays over it.                                    *)
LEMMA TimePasses ==
  ASSUME ServiceInv, [Next]_vars, NEW r \in Record, Expired(r, clock)
  PROVE  Expired(r, clock')
<1>1. clock \in Nat /\ Retention \in Nat
  BY RetentionAssumption DEF ServiceInv, IInv, TypeOK, StoreTypeOK
<1>2. clock' = clock \/ clock' = clock + 1
  BY DEF Next, Accept, RequestStep, InputWritten, InputFails, CreateLocks,
         CreateReturns, StartRunner, RefuseRunner, MarkLocks, MarkReturns,
         RunnerStep, CheckDraining, SelectSlot, SelectDraining, Park, GiveUp,
         FetchJob, ReadInput, SaveLocks, SaveReturns, ProcessSucceeds,
         ProcessFails, OutputOpened, OutputWritten, OutputFails, ReleaseSlot,
         SweeperStep, BeginSweep, SweepLocks, EndSweep, StopSweeper, SweepJob,
         SweepUnlinks, SweepDeletes, SweepSkips, Boot, ServeStep, LoadEntry,
         Loaded, Signal, Deadline, CloseDraining, RunnersDone, GiveUpWaiting,
         Exit, Crash, Die, Tick, vars
<1>3. QED
  BY <1>1, <1>2 DEF Expired, Record

LEMMA LinkStep ==
  ASSUME ServiceInv, ReadsTypeOK, [ReadsNext]_allVars, NEW j \in Jobs, LinkInv(j)
  PROVE  LinkInv(j)'
<1>1. linked[j] \in Record /\ Jobs = DOMAIN linked
  BY DEF ReadsTypeOK
<1>2. ASSUME UNCHANGED vars, linked'[j] = linked[j] PROVE LinkInv(j)'
  BY <1>2 DEF vars, LinkInv, Latest
<1>3. ASSUME NEW i \in Jobs, Poll(i) PROVE LinkInv(j)'
  BY <1>1, <1>2, <1>3, LinkShown DEF Poll, Up, AppState, ReadsTypeOK
<1>4. CASE ListJobs
  <2>1. linked'[j] \in {Link(mem[j]), linked[j]}
    BY <1>4 DEF ListJobs
  <2>2. QED
    BY <1>2, <1>4, <2>1, LinkShown DEF ListJobs, Up, AppState
<1>5. CASE (\E i \in Jobs : Ask(i)) \/ ReadStep \/ SendEnds
  BY <1>2, <1>5
     DEF Ask, ReadStep, LookUp, OpenResult, OpenFails, SendEnds, AnswerWith
<1>6. CASE Next /\ StopWaits /\ ReaderSees
  <2>1. CASE linked'[j] = Absent
    BY <2>1 DEF LinkInv
  <2>2. CASE linked'[j] # Absent
    <3>1. /\ linked'[j] = linked[j]
          /\ ~(app # "down" /\ app' = "down" /\ j \in LedgerUnsaved)
      BY <1>6, <2>2 DEF ReaderSees, readVars
    <3>2. CASE Expired(linked[j], clock)
      BY <1>1, <1>6, <3>1, <3>2, TimePasses DEF LinkInv
    <3>3. CASE /\ Latest(j).status = "completed"
               /\ Latest(j).updatedAt = linked[j].updatedAt
               /\ ~Expired(linked[j], clock)
      <4>1. ~Expired(Latest(j), clock)
        BY <2>2, <3>1, <3>3 DEF LinkInv, Expired
      <4>2. /\ Latest(j)'.status = "completed"
            /\ Latest(j)'.updatedAt = Latest(j).updatedAt
        BY <1>6, <3>1, <3>3, <4>1, CompletedStays
      <4>3. QED
        BY <2>2, <3>1, <3>3, <4>2 DEF LinkInv
    <3>4. QED
      BY <2>2, <3>1, <3>2, <3>3 DEF LinkInv
  <2>3. QED
    BY <2>1, <2>2
<1>7. CASE UNCHANGED allVars
  BY <1>2, <1>7 DEF allVars, readVars
<1>8. QED
  BY <1>3, <1>4, <1>5, <1>6, <1>7 DEF ReadsNext

LinksInv == \A j \in Jobs : LinkInv(j)

LEMMA LinksHold == ReadsSpec => []LinksInv
<1>1. ReadsInit => LinksInv
  BY DEF ReadsInit, LinksInv, LinkInv
<1>2. ServiceInv /\ ReadsTypeOK /\ LinksInv /\ [ReadsNext]_allVars => LinksInv'
  BY LinkStep DEF LinksInv
<1>3. QED
  BY <1>1, <1>2, ServiceStays, DownloadsInOrder, PTL DEF ReadsSpec

(* While the service is up a link that has not expired leads to a result.  *)
LEMMA LinkLeads ==
  ASSUME ServiceInv, NEW j \in Jobs, LinkInv(j), linked[j] # Absent, app \in Up,
         ~Expired(linked[j], clock)
  PROVE  HasResult(mem[j]) /\ dir[j].output # "none"
<1>1. /\ mem[j].status = "completed"
      /\ ~Expired(mem[j], clock)
  BY DEF LinkInv, Latest, Expired
<1>2. QED
  BY <1>1 DEF ServiceInv, CompletedIsDownloadable, HasResult

\* A link that a client was shown answers 404 only after the retention window
\* of the record it was shown with: over restarts, stops, failed writes and a
\* sweep between the look-up and the open (handleGetJobResult, load).
THEOREM LinksAreHonoured == ReadsSpec => LinkHonoured
<1>1. ServiceInv /\ DownloadInv /\ LinksInv /\ ReadsTypeOK /\ [ReadsNext]_allVars =>
        [reader # "idle" /\ reply' = "not_found" /\ linked[subject] # Absent
            => Expired(linked[subject], clock)]_allVars
  <2> SUFFICES ASSUME ServiceInv, DownloadInv, LinksInv, ReadsTypeOK, ReadsNext,
                      reader # "idle", reply' = "not_found",
                      linked[subject] # Absent, ~Expired(linked[subject], clock)
               PROVE  FALSE
    BY DEF allVars, readVars
  <2>1. /\ app \in Up /\ subject \in Jobs
        /\ HasResult(mem[subject]) /\ dir[subject].output # "none"
    BY LinkLeads DEF DownloadInv, LinksInv, ReadsTypeOK
  <2>2. reply # "not_found"
    BY DEF DownloadInv, ReadsTypeOK
  <2>3. ~\E j \in Jobs : Poll(j) \/ Ask(j)
    BY <2>2 DEF Poll, Ask
  <2>4. ~(ListJobs \/ ReadStep \/ SendEnds)
    <3>1. ~ListJobs
      BY <2>2 DEF ListJobs
    <3>2. ~LookUp
      BY <2>1, <2>2 DEF LookUp
    <3>3. ~OpenResult
      <4>1. dir[subject].output # "not_found"
        BY <2>1 DEF ServiceInv, IInv, TypeOK, StoreTypeOK, Directory, File
      <4>2. QED
        BY <2>1, <4>1 DEF OpenResult, AnswerWith
    <3>4. ~OpenFails
      BY DEF OpenFails, AnswerWith
    <3>5. ~SendEnds
      BY DEF SendEnds, AnswerWith
    <3>6. QED
      BY <3>1, <3>2, <3>3, <3>4, <3>5 DEF ReadStep
  <2>5. ~(Next /\ StopWaits /\ ReaderSees)
    BY <2>2 DEF ReaderSees, readVars
  <2>6. QED
    BY <2>3, <2>4, <2>5 DEF ReadsNext
<1>2. QED
  BY <1>1, ServiceStays, DownloadsInOrder, LinksHold, PTL
     DEF ReadsSpec, LinkHonoured

-----------------------------------------------------------------------------
(* The ledger: what clients can see of the jobs is what JobLedger allows.  *)

\* What the disk and a goroutine hold back from what clients are told: a job
\* nobody knows has no record that a start could find, load tells what it
\* has read, and only a running job completes.
Reported(j) ==
    /\ app \in Up /\ mem[j].status = "absent"
          => dir[j].record.status = "absent"
    /\ app = "loading" /\ mem[j].status # "absent"
          => /\ mem[j].status \in Terminal
             /\ \/ dir[j].record.status = mem[j].status
                \/ dir[j].record.status \in Live /\ mem[j].status = "failed"
    /\ run[j] \in {"saving", "persisting"} /\ held[j].status = "completed"
          => mem[j].status = "running"

(* A handler.                                                              *)
LEMMA RequestKeepsReported ==
  ASSUME IInv, RecordInv, NEW i \in Jobs, Accept(i) \/ RequestStep(i),
         NEW j \in Jobs, Reported(j)
  PROVE  Reported(j)'
<1>1. Standing(i) /\ Recorded(i) /\ app \in Up
  BY JobStands, LivesInProcess DEF RecordInv
<1>2. /\ mem \in [Jobs -> Record] /\ dir \in [Jobs -> Directory]
      /\ held \in [Jobs -> Record] /\ run \in [Jobs -> RunnerState]
  BY DEF IInv, TypeOK, StoreTypeOK
<1>3. /\ app' = app /\ run'[j] \in {run[j], "starting"}
      /\ i # j => mem'[j] = mem[j] /\ dir'[j] = dir[j] /\ held'[j] = held[j]
  BY <1>2
     DEF RequestStep, Accept, InputWritten, InputFails, CreateLocks,
         CreateReturns, StartRunner, RefuseRunner, MarkLocks, MarkReturns,
         RunTo, Hold, BeginInput, EndInput, Stage, CreateSucceeds, CreateFails,
         Save, Persist, storeVars, appVars
<1>4. CASE i # j
  BY <1>3, <1>4 DEF Reported
<1>5. CASE i = j
  <2>1. run[j] = "idle" /\ app' \in Up /\ app' # "loading"
    <3>1. run[j] # "idle" => req[j] = "answered"
      BY <1>1, <1>5 DEF Standing
    <3>2. req[j] # "answered"
      BY <1>5
         DEF RequestStep, Accept, InputWritten, InputFails, CreateLocks,
             CreateReturns, StartRunner, RefuseRunner, MarkLocks, MarkReturns
    <3>3. QED
      BY <1>1, <1>3, <3>1, <3>2 DEF Up
  <2>2. mem'[j].status = "absent" => dir'[j].record.status = "absent"
    <3>1. CASE CreateReturns(j) \/ MarkReturns(j)
      <4>1. held[j].status # "absent"
        BY <1>1, <1>5, <3>1
           DEF CreateReturns, MarkReturns, Standing, Recorded, Files, Uploading
      <4>2. CASE CreateFails(j) /\ mem' = mem
        <5>1. PICK d \in Remains(dir[j]) : dir' = [dir EXCEPT ![j] = d]
          BY <4>2 DEF CreateFails
        <5>2. d.record \in {dir[j].record, Absent}
          BY RemainsAreEmptied
        <5>3. QED
          BY <1>1, <1>2, <4>2, <5>1, <5>2 DEF Reported, Absent
      <4>3. CASE mem' = [mem EXCEPT ![j] = held[j]]
        BY <1>2, <4>1, <4>3
      <4>4. QED
        BY <3>1, <4>2, <4>3
           DEF CreateReturns, CreateSucceeds, CreateFails, MarkReturns, Save
    <3>2. CASE \/ Accept(j) \/ InputWritten(j) \/ InputFails(j) \/ CreateLocks(j)
               \/ StartRunner(j) \/ RefuseRunner(j) \/ MarkLocks(j)
      <4>1. mem' = mem /\ dir'[j].record = dir[j].record
        BY <1>2, <3>2
           DEF Accept, InputWritten, InputFails, CreateLocks, StartRunner,
               RefuseRunner, MarkLocks, BeginInput, EndInput, Stage, storeVars,
               Directory
      <4>2. QED
        BY <1>1, <4>1 DEF Reported
    <3>3. QED
      BY <1>5, <3>1, <3>2 DEF RequestStep
  <2>3. QED
    BY <1>3, <2>1, <2>2 DEF Reported
<1>6. QED
  BY <1>4, <1>5

(* A goroutine.                                                            *)
LEMMA RunnerKeepsReported ==
  ASSUME IInv, RecordInv, NEW i \in Jobs, RunnerStep(i),
         NEW j \in Jobs, Reported(j)
  PROVE  Reported(j)'
<1>1. Standing(i) /\ Recorded(i) /\ app \in Up
  BY JobStands, LivesInProcess DEF RecordInv
<1>2. /\ mem \in [Jobs -> Record] /\ dir \in [Jobs -> Directory]
      /\ held \in [Jobs -> Record] /\ run \in [Jobs -> RunnerState]
      /\ waiting \in Seq(Jobs) /\ clock \in Nat
  BY DEF IInv, TypeOK, StoreTypeOK
<1>3. app' = app /\ app # "loading"
  BY <1>1
     DEF RunnerStep, CheckDraining, SelectSlot, SelectDraining, Park, GiveUp,
         FetchJob, ReadInput, SaveLocks, SaveReturns, ProcessSucceeds,
         ProcessFails, OutputOpened, OutputWritten, OutputFails, ReleaseSlot,
         appVars, Up
<1>4. CASE i # j
  <2>1. /\ mem'[j] = mem[j] /\ dir'[j] = dir[j] /\ held'[j] = held[j]
        /\ run'[j] = run[j] \/ run'[j] = "claimed"
    BY <1>2, <1>4
       DEF RunnerStep, CheckDraining, SelectSlot, SelectDraining, Park,
           GiveUp, FetchJob, ReadInput, SaveLocks, SaveReturns,
           ProcessSucceeds, ProcessFails, OutputOpened, OutputWritten,
           OutputFails, ReleaseSlot, RunTo, Hold, Stage, Save, Persist,
           BeginOutput, EndOutput, storeVars
  <2>2. QED
    BY <1>3, <2>1 DEF Reported
<1>5. CASE i = j /\ SaveReturns(j)
  <2>1. held[j].status # "absent"
    BY <1>1, <1>5 DEF SaveReturns, Recorded, Held
  <2>2. mem'[j] = held[j] /\ run'[j] \in {"processing", "releasing", "idle"}
    BY <1>2, <1>5 DEF SaveReturns, Save, RunTo, AfterSave
  <2>3. QED
    BY <1>3, <2>1, <2>2 DEF Reported
<1>6. CASE i = j /\ ~SaveReturns(j)
  <2>1. mem' = mem /\ dir'[j].record = dir[j].record
    BY <1>2, <1>6
       DEF RunnerStep, CheckDraining, SelectSlot, SelectDraining, Park,
           GiveUp, FetchJob, ReadInput, SaveLocks, ProcessSucceeds,
           ProcessFails, OutputOpened, OutputWritten, OutputFails, ReleaseSlot,
           Stage, BeginOutput, EndOutput, storeVars, Directory
  <2>2. run'[j] \in {"saving", "persisting"} /\ held'[j].status = "completed"
           => mem[j].status = "running"
    <3>1. CASE CheckDraining(j) \/ SelectSlot(j) \/ SelectDraining(j)
               \/ Park(j) \/ FetchJob(j) \/ ProcessSucceeds(j)
               \/ OutputOpened(j) \/ ReleaseSlot(j)
      BY <1>2, <3>1
         DEF CheckDraining, SelectSlot, SelectDraining, Park, FetchJob,
             ProcessSucceeds, OutputOpened, ReleaseSlot, RunTo
    <3>2. CASE GiveUp(j) \/ ReadInput(j)
      <4>1. run'[j] = "saving" => held'[j].status \in {"running", "failed"}
        <5>1. \A r \in Record : \A t : Ended(r, t).status = t
          BY DEF Ended, Record
        <5>2. CASE GiveUp(j)
          BY <1>2, <5>1, <5>2 DEF GiveUp, RunTo, Hold
        <5>3. CASE ReadInput(j)
          <6>1. PICK t \in {"running", "failed"} : Hold(j, Ended(held[j], t))
            BY <5>3 DEF ReadInput
          <6>2. QED
            BY <1>2, <5>1, <6>1 DEF Hold
        <5>4. QED
          BY <3>2, <5>2, <5>3
      <4>2. run'[j] # "persisting"
        BY <1>2, <3>2 DEF GiveUp, ReadInput, RunTo
      <4>3. QED
        BY <4>1, <4>2
    <3>3. CASE SaveLocks(j)
      BY <1>2, <3>3 DEF SaveLocks, RunTo, Reported
    <3>4. CASE ProcessFails(j) \/ OutputWritten(j) \/ OutputFails(j)
      BY <1>1, <1>6, <3>4
         DEF ProcessFails, OutputWritten, OutputFails, Standing
    <3>5. QED
      BY <1>6, <3>1, <3>2, <3>3, <3>4 DEF RunnerStep
  <2>3. QED
    BY <1>1, <1>3, <2>1, <2>2 DEF Reported
<1>7. QED
  BY <1>4, <1>5, <1>6

(* The sweeper.                                                            *)
LEMMA SweeperKeepsReported ==
  ASSUME IInv, SweeperStep, NEW j \in Jobs, Reported(j)
  PROVE  Reported(j)'
<1>1. mem \in [Jobs -> Record] /\ dir \in [Jobs -> Directory] /\ Standing(j)
  BY JobStands DEF IInv, TypeOK, StoreTypeOK
<1>2. /\ UNCHANGED <<run, held>> /\ app' = app /\ app \in Up
      /\ \/ mem'[j] = mem[j] /\ dir'[j].record \in {dir[j].record, Absent}
         \/ /\ mem'[j] = Absent /\ dir'[j] = NoDir
            /\ sweeper = "removing" /\ j \in todo
  BY <1>1, LivesInProcess
     DEF SweeperStep, BeginSweep, SweepLocks, EndSweep, StopSweeper, SweepJob,
         SweepUnlinks, SweepDeletes, SweepSkips, UnlinkOne, DeleteJob,
         Directory, storeVars, jobVars, appVars
<1>3. sweeper = "removing" /\ j \in todo => mem[j].status \in Terminal
  BY <1>1 DEF Standing
<1>4. NoDir.record = Absent /\ Absent.status = "absent"
  BY DEF NoDir, Absent
<1>5. app # "loading"
  BY <1>2 DEF Up
<1>6. CASE mem'[j] = mem[j] /\ dir'[j].record \in {dir[j].record, Absent}
  BY <1>2, <1>4, <1>5, <1>6 DEF Reported
<1>7. CASE /\ mem'[j] = Absent /\ dir'[j] = NoDir
           /\ sweeper = "removing" /\ j \in todo
  BY <1>2, <1>3, <1>4, <1>5, <1>7 DEF Reported
<1>8. QED
  BY <1>2, <1>6, <1>7

(* The process.                                                            *)
LEMMA ProcessKeepsReported ==
  ASSUME IInv, RecordInv,
         Boot \/ ServeStep \/ Signal \/ Deadline \/ Crash \/ Tick,
         NEW j \in Jobs, Reported(j)
  PROVE  Reported(j)'
<1>1. /\ mem \in [Jobs -> Record] /\ dir \in [Jobs -> Directory]
      /\ run \in [Jobs -> RunnerState] /\ Recorded(j) /\ Standing(j)
  BY JobStands DEF IInv, TypeOK, StoreTypeOK, RecordInv
<1>2. ASSUME NEW i \in Jobs, LoadEntry(i) PROVE Reported(j)'
  <2>1. UNCHANGED <<run, held, app>> /\ app = "loading" /\ run[j] = "idle"
    BY <1>1, <1>2 DEF LoadEntry, jobVars, appVars, Standing, Up
  <2>2. CASE mem'[j] = mem[j] /\ dir'[j] = dir[j]
    BY <2>1, <2>2 DEF Reported
  <2>3. CASE i = j /\ RemoveOrphan(j)
    <3>1. mem' = mem /\ mem[j].status = "absent"
      BY <1>1, <2>1, <2>3 DEF RemoveOrphan, Recorded, LoadedSoFar
    <3>2. QED
      BY <2>1, <3>1 DEF Reported, Up
  <2>4. CASE i = j /\ (RestoreFinished(j) \/ RestoreInterrupted(j))
    <3>1. /\ dir[j] \in Directory /\ mem'[j] = Restored(dir[j])
          /\ dir' = dir \/ dir'[j].record = OnDisk(Restored(dir[j]))
          /\ dir[j].record.status # "absent"
      BY <1>1, <2>4 DEF RestoreFinished, RestoreInterrupted, Persist, Directory
    <3>2. /\ mem'[j].status = IF dir[j].record.status \in Live THEN "failed"
                              ELSE dir[j].record.status
          /\ dir'[j].record.status \in {dir[j].record.status, mem'[j].status}
      BY <3>1, WhatIsRestored
    <3>3. mem'[j].status \in Terminal
      BY <3>1, <3>2 DEF Directory, Record
    <3>4. QED
      BY <2>1, <3>2, <3>3 DEF Reported, Up
  <2>5. CASE i # j
    BY <1>1, <1>2, <2>2, <2>5
       DEF LoadEntry, RemoveOrphan, RestoreFinished, RestoreInterrupted, Persist
  <2>6. QED
    BY <1>2, <2>3, <2>4, <2>5 DEF LoadEntry
<1>3. CASE Loaded
  BY <1>1, <1>3
     DEF Loaded, jobVars, Reported, Recorded, LoadedSoFar, Standing, Up
<1>4. CASE Die
  BY <1>4 DEF Die, Reported, Up
<1>5. CASE CloseDraining
  BY <1>1, <1>5 DEF CloseDraining, storeVars, Reported, Up, AppState
<1>6. CASE Boot
  BY <1>1, <1>6 DEF Boot, jobVars, Reported, Recorded, LoadedSoFar, Up
<1>7. CASE Signal \/ Deadline \/ RunnersDone \/ GiveUpWaiting \/ Tick
  BY <1>7
     DEF Signal, Deadline, RunnersDone, GiveUpWaiting, Tick, storeVars, jobVars,
         appVars, Reported, Up, AppState, Stopped
<1>8. QED
  BY <1>2, <1>3, <1>4, <1>5, <1>6, <1>7 DEF ServeStep, Exit, Crash

ReportedInv == \A j \in Jobs : Reported(j)

LEMMA ReportsAreTrue == Spec => []ReportedInv
<1>1. Init => ReportedInv
  BY DEF Init, StoreInit, ReportedInv, Reported, Absent, NoDir
<1>2. IInv /\ RecordInv /\ ReportedInv /\ [Next]_vars => ReportedInv'
  <2> SUFFICES ASSUME IInv, RecordInv, ReportedInv, [Next]_vars, NEW j \in Jobs
               PROVE  Reported(j)'
    BY DEF ReportedInv
  <2>1. CASE UNCHANGED vars
    BY <2>1 DEF vars, ReportedInv, Reported
  <2>2. CASE Next
    BY <2>2, RequestKeepsReported, RunnerKeepsReported, SweeperKeepsReported,
       ProcessKeepsReported DEF Next, ReportedInv
  <2>3. QED
    BY <2>1, <2>2
<1>3. QED
  BY <1>1, <1>2, Inductive, RecordsAgree, PTL DEF Spec

\* All that the simulation of JobLedger rests on.
ShownInv ==
    IInv /\ RecordInv /\ SavedInv /\ SettleInv /\ SlotInv /\ ReportedInv

(* What the ledger says of a job while the process is up, and of whom the  *)
(* process alone knows the end.                                            *)
LEMMA ShownUp ==
  ASSUME app \in Up, NEW j \in Jobs
  PROVE  LedgerStatus[j] =
           IF mem[j].status # "absent" THEN mem[j].status
           ELSE IF req[j] \in {"none"} \cup Uploading THEN "none" ELSE "gone"
  BY DEF LedgerStatus, Latest

LEMMA ShownDown ==
  ASSUME app \notin Up, NEW j \in Jobs
  PROVE  LedgerStatus[j] =
           IF dir[j].record.status \in Live THEN "failed"
           ELSE IF dir[j].record.status # "absent" THEN dir[j].record.status
           ELSE IF req[j] \in {"none"} \cup Uploading THEN "none" ELSE "gone"
  BY DEF LedgerStatus, Latest

(* The ledger names a status for every job. *)
LEMMA LedgerTyped ==
  ASSUME TypeOK
  PROVE  /\ LedgerStatus \in [Jobs -> Ledger!Status]
         /\ LedgerUnsaved \subseteq Jobs
  BY DEF TypeOK, StoreTypeOK, Directory, Record, LedgerStatus, LedgerUnsaved,
         Latest, Ledger!Status

(* A step that concerns one job shows in that job only.                    *)
LEMMA OneShown ==
  ASSUME TypeOK, NEW i \in Jobs, app \in Up, app' = app,
         \A j \in Jobs \ {i} :
            mem'[j] = mem[j] /\ dir'[j] = dir[j] /\ req'[j] = req[j]
  PROVE  /\ LedgerStatus' = [LedgerStatus EXCEPT ![i] = LedgerStatus'[i]]
         /\ LedgerUnsaved' \ {i} = LedgerUnsaved \ {i}
<1>1. \A j \in Jobs \ {i} : LedgerStatus'[j] = LedgerStatus[j]
  BY DEF LedgerStatus, Latest
<1>2. QED
  BY <1>1 DEF LedgerStatus, LedgerUnsaved

(* Nothing shows of a step that leaves the records, and whose request is   *)
(* still in hand, alone.                                                   *)
LEMMA NothingShows ==
  ASSUME mem' = mem, app' \in Up <=> app \in Up,
         \A j \in Jobs :
            /\ dir'[j].record = dir[j].record
            /\ \/ mem[j].status # "absent" /\ app \in Up
               \/ req'[j] \in {"none"} \cup Uploading
                     <=> req[j] \in {"none"} \cup Uploading
  PROVE  UNCHANGED <<LedgerStatus, LedgerUnsaved>>
<1>1. \A j \in Jobs : Latest(j)' = Latest(j)
  BY DEF Latest
<1>2. \A j \in Jobs : LedgerStatus'[j] = LedgerStatus[j]
  BY <1>1 DEF LedgerStatus, Latest
<1>3. LedgerStatus' = LedgerStatus
  BY <1>2 DEF LedgerStatus
<1>4. LedgerUnsaved' = LedgerUnsaved
  BY DEF LedgerUnsaved
<1>5. QED
  BY <1>3, <1>4

(* A handler enqueues its job, gives it up, or fails it.                   *)
LEMMA RequestIsShown ==
  ASSUME ShownInv, NEW i \in Jobs, Accept(i) \/ RequestStep(i)
  PROVE  Ledger!LedgerNext \/ UNCHANGED <<LedgerStatus, LedgerUnsaved>>
<1>1. /\ IInv /\ RecordInv /\ Standing(i) /\ Recorded(i) /\ app \in Up
      /\ Reported(i) /\ TypeOK
  BY JobStands, LivesInProcess DEF ShownInv, RecordInv, ReportedInv, IInv
<1>2. /\ mem \in [Jobs -> Record] /\ dir \in [Jobs -> Directory]
      /\ held \in [Jobs -> Record] /\ req \in [Jobs -> RequestState]
  BY <1>1 DEF TypeOK, StoreTypeOK
<1>3. app' = app
  BY DEF RequestStep, Accept, InputWritten, InputFails, CreateLocks,
         CreateReturns, StartRunner, RefuseRunner, MarkLocks, MarkReturns, appVars
<1>4. /\ LedgerStatus' = [LedgerStatus EXCEPT ![i] = LedgerStatus'[i]]
      /\ LedgerUnsaved' \ {i} = LedgerUnsaved \ {i}
  <2>1. \A j \in Jobs \ {i} :
            mem'[j] = mem[j] /\ dir'[j] = dir[j] /\ req'[j] = req[j]
    BY <1>2
       DEF RequestStep, Accept, InputWritten, InputFails, CreateLocks,
           CreateReturns, StartRunner, RefuseRunner, MarkLocks, MarkReturns,
           ReqTo, BeginInput, EndInput, Stage, CreateSucceeds, CreateFails,
           Save, Persist, storeVars
  <2>2. QED
    BY <1>1, <1>3, <2>1, OneShown
<1>5. app' \in Up
  BY <1>1, <1>3
<1>6. ASSUME mem[i].status # "completed", mem'[i].status # "completed"
      PROVE  LedgerUnsaved' = LedgerUnsaved /\ i \notin LedgerUnsaved
  BY <1>4, <1>6 DEF LedgerUnsaved
<1>7. CASE InputFails(i) \/ (CreateReturns(i) /\ CreateFails(i))
  <2>1. /\ mem' = mem /\ mem[i].status = "absent"
        /\ req[i] \in Uploading /\ req'[i] = "over"
    BY <1>1, <1>2, <1>7
       DEF InputFails, CreateReturns, CreateFails, CreateSucceeds, ReqTo,
           storeVars, Standing, Uploading
  <2>2. LedgerStatus[i] = "none" /\ LedgerStatus'[i] = "gone"
    BY <1>1, <1>5, <2>1, ShownUp DEF LedgerStatus, Latest, Uploading
  <2>3. Ledger!Reject(i)
    BY <1>4, <1>6, <2>1, <2>2 DEF Ledger!Reject, Ledger!Move, Ledger!Becomes
  <2>4. QED
    BY <2>3 DEF Ledger!LedgerNext
<1>8. CASE CreateReturns(i) /\ CreateSucceeds(i, held[i])
  <2>1. /\ mem'[i] = held[i] /\ held[i].status = "queued"
        /\ mem[i].status = "absent" /\ req[i] \in Uploading
    BY <1>1, <1>2, <1>8
       DEF CreateReturns, CreateSucceeds, Standing, Uploading
  <2>2. LedgerStatus[i] = "none" /\ LedgerStatus'[i] = "queued"
    BY <1>1, <1>5, <2>1, ShownUp DEF LedgerStatus, Latest
  <2>3. Ledger!Enqueue(i)
    BY <1>4, <1>6, <2>1, <2>2 DEF Ledger!Enqueue, Ledger!Move, Ledger!Becomes
  <2>4. QED
    BY <2>3 DEF Ledger!LedgerNext
<1>9. CASE MarkReturns(i)
  <2>1. /\ mem'[i] = held[i] /\ held[i].status = "failed"
        /\ mem[i].status = "queued"
    BY <1>1, <1>2, <1>9 DEF MarkReturns, Save, Recorded, Files
  <2>2. LedgerStatus[i] = "queued" /\ LedgerStatus'[i] = "failed"
    BY <1>1, <1>5, <2>1, ShownUp DEF LedgerStatus, Latest
  <2>3. Ledger!Fail(i)
    BY <1>4, <1>6, <2>1, <2>2 DEF Ledger!Fail, Ledger!Move, Ledger!Becomes
  <2>4. QED
    BY <2>3 DEF Ledger!LedgerNext
<1>10. CASE \/ Accept(i) \/ InputWritten(i) \/ CreateLocks(i)
            \/ StartRunner(i) \/ RefuseRunner(i) \/ MarkLocks(i)
  <2>1. mem' = mem /\ \A j \in Jobs : dir'[j].record = dir[j].record
    BY <1>2, <1>10
       DEF Accept, InputWritten, CreateLocks, StartRunner, RefuseRunner,
           MarkLocks, BeginInput, EndInput, Stage, storeVars, Directory
  <2>2. \A j \in Jobs : req'[j] \in {"none"} \cup Uploading
                           <=> req[j] \in {"none"} \cup Uploading
    BY <1>2, <1>10
       DEF Accept, InputWritten, CreateLocks, StartRunner, RefuseRunner,
           MarkLocks, ReqTo, Uploading
  <2>3. QED
    BY <1>3, <2>1, <2>2, NothingShows
<1>11. CreateReturns(i) => CreateFails(i) \/ CreateSucceeds(i, held[i])
  BY DEF CreateReturns
<1>12. QED
  BY <1>7, <1>8, <1>9, <1>10, <1>11 DEF RequestStep

(* The ledger counts as everybody does.                                    *)
LEMMA SameCardinality ==
  ASSUME NEW S
  PROVE  Ledger!Cardinality(S) = Cardinality(S)
  BY DEF Cardinality, Ledger!Cardinality

(* A job that starts to run finds room among the running ones.             *)
LEMMA RoomToRun ==
  ASSUME ShownInv, app \in Up, NEW i \in slots, mem[i].status # "running"
  PROVE  Cardinality({k \in Jobs : LedgerStatus[k] = "running"})
           < MaxConcurrentJobs
<1> DEFINE R == {k \in Jobs : LedgerStatus[k] = "running"}
<1>1. ASSUME NEW k \in R PROVE k \in slots \ {i}
  <2>1. mem[k].status = "running" /\ k \in Jobs
    BY ShownUp
  <2>2. run[k] \in {"saving", "persisting"} \cup Masking
    <3>1. Standing(k) /\ Recorded(k) /\ InHand(k)
      BY <2>1, JobStands DEF ShownInv, RecordInv, SettleInv
    <3>2. req[k] \notin {"created", "refused", "marking"}
      BY <2>1, <3>1 DEF Standing, Recorded, Files
    <3>3. QED
      BY <2>1, <3>1, <3>2 DEF InHand, Standing, RunnerState
  <2>3. k \in slots
    BY <2>1, <2>2 DEF ShownInv, IInv, WorkInv
  <2>4. QED
    BY <2>1, <2>3
<1>2. /\ IsFiniteSet(slots \ {i})
      /\ Cardinality(slots \ {i}) = Cardinality(slots) - 1
      /\ Cardinality(slots) \in Nat
  BY FS_RemoveElement, FS_CardinalityType DEF ShownInv, SlotInv
<1>3. R \subseteq slots \ {i}
  BY <1>1
<1>4. /\ Cardinality(R) <= Cardinality(slots \ {i})
      /\ Cardinality(R) \in Nat
  BY <1>2, <1>3, FS_Subset, FS_CardinalityType
<1>5. QED
  BY <1>2, <1>4, SlotsAssumption DEF ShownInv, SlotInv

(* A goroutine starts, completes or fails its job.                         *)
LEMMA RunnerIsShown ==
  ASSUME ShownInv, NEW i \in Jobs, RunnerStep(i)
  PROVE  Ledger!LedgerNext \/ UNCHANGED <<LedgerStatus, LedgerUnsaved>>
<1>1. /\ IInv /\ RecordInv /\ Standing(i) /\ Recorded(i) /\ app \in Up
      /\ Reported(i) /\ TypeOK
  BY JobStands, LivesInProcess DEF ShownInv, RecordInv, ReportedInv, IInv
<1>2. /\ mem \in [Jobs -> Record] /\ dir \in [Jobs -> Directory]
      /\ held \in [Jobs -> Record] /\ req \in [Jobs -> RequestState]
  BY <1>1 DEF TypeOK, StoreTypeOK
<1>3. app' = app /\ req' = req /\ app' \in Up
  BY <1>1
     DEF RunnerStep, CheckDraining, SelectSlot, SelectDraining, Park, GiveUp,
         FetchJob, ReadInput, SaveLocks, SaveReturns, ProcessSucceeds,
         ProcessFails, OutputOpened, OutputWritten, OutputFails, ReleaseSlot,
         appVars
<1>4. CASE ~SaveReturns(i)
  <2>1. mem' = mem /\ \A j \in Jobs : dir'[j].record = dir[j].record
    BY <1>2, <1>4
       DEF RunnerStep, CheckDraining, SelectSlot, SelectDraining, Park,
           GiveUp, FetchJob, ReadInput, SaveLocks, ProcessSucceeds,
           ProcessFails, OutputOpened, OutputWritten, OutputFails, ReleaseSlot,
           Stage, BeginOutput, EndOutput, storeVars, Directory
  <2>2. QED
    BY <1>3, <2>1, NothingShows
<1>5. CASE SaveReturns(i)
  <2>1. /\ run[i] = "persisting" /\ mem' = [mem EXCEPT ![i] = held[i]]
        /\ dir' = dir \/ dir' = [dir EXCEPT ![i].record = OnDisk(held[i])]
        /\ mem[i].status \in Live
        /\ held[i].status \in {"running", "completed", "failed"}
    BY <1>1, <1>5
       DEF SaveReturns, Save, Persist, Recorded, Held, Standing
  <2>2. /\ LedgerStatus' = [LedgerStatus EXCEPT ![i] = LedgerStatus'[i]]
        /\ LedgerUnsaved' \ {i} = LedgerUnsaved \ {i}
    <3>1. \A j \in Jobs \ {i} :
             mem'[j] = mem[j] /\ dir'[j] = dir[j] /\ req'[j] = req[j]
      BY <1>2, <1>3, <2>1
    <3>2. QED
      BY <1>1, <1>3, <3>1, OneShown
  <2>3. /\ LedgerStatus[i] = mem[i].status
        /\ LedgerStatus'[i] = held[i].status
        /\ i \notin LedgerUnsaved
        /\ held[i].status # "completed" => i \notin LedgerUnsaved'
    BY <1>1, <1>2, <1>3, <2>1 DEF LedgerStatus, LedgerUnsaved, Latest
  <2>4. CASE held[i].status = "running" /\ mem[i].status = "queued"
    <3>1. i \in slots
      BY <1>1, <2>1, <2>4 DEF IInv, WorkInv
    <3>2. Cardinality({k \in Jobs : LedgerStatus[k] = "running"})
            < MaxConcurrentJobs
      BY <1>1, <2>4, <3>1, RoomToRun
    <3>3. Ledger!StartJob(i)
      BY <2>2, <2>3, <2>4, <3>2, SameCardinality
         DEF Ledger!StartJob, Ledger!Move, Ledger!Becomes
    <3>4. QED
      BY <3>3 DEF Ledger!LedgerNext
  <2>5. CASE held[i].status = "running" /\ mem[i].status = "running"
    <3>1. LedgerStatus' = LedgerStatus
      BY <2>2, <2>3, <2>5 DEF LedgerStatus
    <3>2. LedgerUnsaved' = LedgerUnsaved
      BY <2>2, <2>3, <2>5
    <3>3. QED
      BY <3>1, <3>2
  <2>6. CASE held[i].status = "completed"
    <3>1. mem[i].status = "running"
      BY <1>1, <2>1, <2>6 DEF Reported
    <3>2. LedgerUnsaved' \in {LedgerUnsaved, LedgerUnsaved \cup {i}}
      BY <2>2, <2>3
    <3>3. Ledger!Complete(i)
      BY <2>2, <2>3, <2>6, <3>1, <3>2 DEF Ledger!Complete, Ledger!Becomes
    <3>4. QED
      BY <3>3 DEF Ledger!LedgerNext
  <2>7. CASE held[i].status = "failed"
    <3>1. Ledger!Fail(i)
      BY <2>1, <2>2, <2>3, <2>7 DEF Ledger!Fail, Ledger!Move, Ledger!Becomes
    <3>2. QED
      BY <3>1 DEF Ledger!LedgerNext
  <2>8. QED
    BY <2>1, <2>4, <2>5, <2>6, <2>7
<1>6. QED
  BY <1>4, <1>5

(* The sweeper forgets a job, its record on disk first.                    *)
LEMMA SweeperIsShown ==
  ASSUME ShownInv, SweeperStep
  PROVE  Ledger!LedgerNext \/ UNCHANGED <<LedgerStatus, LedgerUnsaved>>
<1>1. IInv /\ app \in Up /\ TypeOK
  BY LivesInProcess DEF ShownInv, IInv
<1>2. /\ mem \in [Jobs -> Record] /\ dir \in [Jobs -> Directory]
      /\ req \in [Jobs -> RequestState]
  BY <1>1 DEF TypeOK, StoreTypeOK
<1>3. app' = app /\ req' = req /\ app' \in Up
  BY <1>1
     DEF SweeperStep, BeginSweep, SweepLocks, EndSweep, StopSweeper, SweepJob,
         SweepUnlinks, SweepDeletes, SweepSkips, jobVars, appVars
<1>4. CASE BeginSweep \/ SweepLocks \/ EndSweep \/ StopSweeper
           \/ \E i \in Jobs : SweepSkips(i)
  <2>1. mem' = mem /\ dir' = dir
    BY <1>4
       DEF BeginSweep, SweepLocks, EndSweep, StopSweeper, SweepSkips, storeVars
  <2>2. QED
    BY <1>3, <2>1, NothingShows
<1>5. ASSUME NEW i \in Jobs, SweepUnlinks(i)
      PROVE  Ledger!LedgerNext \/ UNCHANGED <<LedgerStatus, LedgerUnsaved>>
  <2>1. mem' = mem
    BY <1>5 DEF SweepUnlinks
  <2>2. CASE \A j \in Jobs : dir'[j].record = dir[j].record
    BY <1>3, <2>1, <2>2, NothingShows
  <2>3. CASE dir' = [dir EXCEPT ![i].record = Absent]
    <3>1. LedgerStatus' = LedgerStatus
      BY <1>1, <1>3, <2>1 DEF LedgerStatus, Latest
    <3>2. LedgerUnsaved' = LedgerUnsaved \ {i}
      BY <1>2, <2>1, <2>3 DEF LedgerUnsaved, Directory, Absent
    <3>3. CASE i \in LedgerUnsaved
      BY <3>1, <3>2, <3>3 DEF Ledger!LedgerNext, Ledger!Discard
    <3>4. CASE i \notin LedgerUnsaved
      BY <3>1, <3>2, <3>4
    <3>5. QED
      BY <3>3, <3>4
  <2>4. QED
    BY <1>2, <1>5, <2>2, <2>3 DEF SweepUnlinks, UnlinkOne, Directory
<1>6. ASSUME NEW i \in Jobs, SweepDeletes(i)
      PROVE  Ledger!LedgerNext
  <2>1. /\ mem' = [mem EXCEPT ![i] = Absent] /\ dir' = [dir EXCEPT ![i] = NoDir]
        /\ mem[i].status \in Terminal /\ req[i] \notin {"none"} \cup Uploading
    <3>1. Standing(i)
      BY <1>1, JobStands
    <3>2. QED
      BY <1>6, <3>1 DEF SweepDeletes, DeleteJob, Standing
  <2>2. /\ LedgerStatus' = [LedgerStatus EXCEPT ![i] = LedgerStatus'[i]]
        /\ LedgerUnsaved' \ {i} = LedgerUnsaved \ {i}
    <3>1. \A j \in Jobs \ {i} :
             mem'[j] = mem[j] /\ dir'[j] = dir[j] /\ req'[j] = req[j]
      BY <1>2, <1>3, <2>1
    <3>2. QED
      BY <1>1, <1>3, <3>1, OneShown
  <2>3. /\ LedgerStatus[i] \in Terminal /\ LedgerStatus'[i] = "gone"
        /\ i \notin LedgerUnsaved'
    BY <1>1, <1>2, <1>3, <2>1 DEF LedgerStatus, LedgerUnsaved, Latest, Absent
  <2>4. Ledger!Forget(i)
    BY <2>2, <2>3 DEF Ledger!Forget, Ledger!Move, Ledger!Becomes
  <2>5. QED
    BY <2>4 DEF Ledger!LedgerNext
<1>7. QED
  BY <1>4, <1>5, <1>6 DEF SweeperStep, SweepJob

(* The end of a process that was up is an outage.                          *)
LEMMA OutageIsShown ==
  ASSUME ShownInv, Die, app \in Up
  PROVE  Ledger!Outage
<1>1. TypeOK /\ dir \in [Jobs -> Directory] /\ req \in [Jobs -> RequestState]
  BY DEF ShownInv, IInv, TypeOK, StoreTypeOK
<1>2. TypeOK'
  BY <1>1, DieType
<1>3. LedgerStatus' \in [Jobs -> Ledger!Status]
  BY <1>2, LedgerTyped DEF LedgerStatus, Ledger!Status, TypeOK, StoreTypeOK,
     Directory, Record, Latest
<1>4. LedgerUnsaved' = {}
  BY DEF Die, LedgerUnsaved, Absent
<1>5. ASSUME NEW j \in Jobs
      PROVE  LedgerStatus'[j] \in Ledger!AfterOutage(j)
  <2>1. /\ Standing(j) /\ Recorded(j) /\ Reported(j) /\ SavedSoFar(j)
        /\ InHand(j)
    BY JobStands DEF ShownInv, RecordInv, ReportedInv, SavedInv, SettleInv
  <2>2. LedgerStatus'[j] =
           IF dir[j].record.status \in Live THEN "failed"
           ELSE IF dir[j].record.status # "absent" THEN dir[j].record.status
           ELSE IF req[j] = "none" THEN "none" ELSE "gone"
    BY <1>1 DEF Die, LedgerStatus, Latest, Up, InRequest, Uploading
  <2>3. /\ mem[j].status \in {"absent"} \cup Live \cup Terminal
        /\ dir[j].record.status \in {"absent"} \cup Live \cup Terminal
    BY <2>1 DEF Standing, Record, Directory
  <2>4. CASE mem[j].status = "absent"
    <3>1. dir[j].record.status = "absent"
      BY <2>1, <2>4 DEF Reported
    <3>2. QED
      BY <2>2, <2>4, <3>1, ShownUp DEF Ledger!AfterOutage
  <2>5. CASE mem[j].status \in Live
    <3>1. UnderWay(j)
      BY <2>1, <2>5 DEF InHand, UnderWay, InRequest
    <3>2. dir[j].record.status \in Live
      BY <2>1, <2>3, <2>5, <3>1 DEF SavedSoFar, Recorded, Agree, Expired
    <3>3. QED
      BY <2>2, <2>5, <3>2, ShownUp DEF Ledger!AfterOutage
  <2>6. CASE mem[j].status \in Terminal
    <3>1. req[j] # "none"
      BY <2>1, <2>6 DEF Standing
    <3>2. mem[j].status = "failed" => dir[j].record.status # "completed"
      BY <2>1 DEF Recorded, Agree
    <3>3. mem[j].status = "completed" => dir[j].record.status # "failed"
      BY <2>1 DEF SavedSoFar
    <3>4. LedgerStatus[j] = mem[j].status
      BY <2>6, ShownUp
    <3>5. j \in LedgerUnsaved <=>
            mem[j].status = "completed" /\ dir[j].record.status \in Live
      BY DEF LedgerUnsaved
    <3>6. QED
      BY <2>2, <2>3, <2>6, <3>1, <3>2, <3>3, <3>4, <3>5 DEF Ledger!AfterOutage
  <2>7. QED
    BY <2>3, <2>4, <2>5, <2>6
<1>6. QED
  BY <1>3, <1>4, <1>5 DEF Ledger!Outage

(* Of what the process does, only its end shows.                           *)
LEMMA ProcessIsShown ==
  ASSUME ShownInv, Boot \/ ServeStep \/ Signal \/ Deadline \/ Crash \/ Tick
  PROVE  Ledger!LedgerNext \/ UNCHANGED <<LedgerStatus, LedgerUnsaved>>
<1>1. /\ mem \in [Jobs -> Record] /\ dir \in [Jobs -> Directory]
      /\ req \in [Jobs -> RequestState]
      /\ \A j \in Jobs : Standing(j) /\ Recorded(j) /\ Reported(j)
  BY JobStands
     DEF ShownInv, IInv, TypeOK, StoreTypeOK, RecordInv, ReportedInv
<1>2. CASE /\ ~(Die \/ Loaded) /\ ~\E i \in Jobs : LoadEntry(i)
  <2>1. UNCHANGED <<mem, dir, req>> /\ (app' \in Up <=> app \in Up)
    BY <1>2
       DEF Boot, ServeStep, Signal, Deadline, CloseDraining, RunnersDone,
           GiveUpWaiting, Exit, Crash, Tick, storeVars, jobVars, appVars, Up,
           AppState, Stopped
  <2>2. QED
    BY <2>1, NothingShows
<1>3. CASE Die
  <2>1. CASE app \in Up
    BY <1>3, <2>1, OutageIsShown DEF Ledger!LedgerNext
  <2>2. CASE app \notin Up
    <3>1. req' = req
      <4>1. \A j \in Jobs : req'[j] = req[j]
        BY <1>1, <1>3, <2>2 DEF Die, Standing
      <4>2. DOMAIN req' = Jobs /\ DOMAIN req = Jobs
        BY <1>1, <1>3 DEF Die
      <4>3. QED
        BY <1>1, <1>3, <4>1 DEF Die
    <3>2. app' \notin Up /\ dir' = dir
      BY <1>3 DEF Die, Up
    <3>3. LedgerStatus' = LedgerStatus
      BY <2>2, <3>1, <3>2 DEF LedgerStatus, Latest
    <3>4. LedgerUnsaved' = {}
      BY <1>3 DEF Die, LedgerUnsaved, Absent
    <3>5. LedgerUnsaved = {}
      <4>1. app \in {"down", "loading"}
        BY <2>2 DEF ShownInv, IInv, TypeOK, Up
      <4>2. QED
        BY <1>1, <4>1 DEF LedgerUnsaved, Recorded, LoadedSoFar, Reported
    <3>6. QED
      BY <3>3, <3>4, <3>5
  <2>3. QED
    BY <2>1, <2>2
<1>4. CASE Loaded
  <2>1. /\ UNCHANGED <<mem, dir, req>> /\ app = "loading" /\ todo = {}
        /\ app' \in Up /\ app \notin Up
    BY <1>4 DEF Loaded, jobVars, Up, AppState
  <2>2. ASSUME NEW j \in Jobs PROVE LedgerStatus'[j] = LedgerStatus[j]
    <3>1. mem[j].status = IF dir[j].record.status \in Live
                              /\ mem[j].status = "failed"
                            THEN "failed" ELSE dir[j].record.status
      BY <1>1, <2>1 DEF Recorded, LoadedSoFar, Reported
    <3>2. mem[j].status \in Live => dir[j].record.status \notin Live
      BY <1>1, <2>1 DEF Recorded, LoadedSoFar, Reported
    <3>3. QED
      BY <2>1, <3>1, <3>2 DEF LedgerStatus, Latest
  <2>3. LedgerStatus' = LedgerStatus
    BY <2>2 DEF LedgerStatus
  <2>4. LedgerUnsaved' = LedgerUnsaved
    BY <2>1 DEF LedgerUnsaved
  <2>5. QED
    BY <2>3, <2>4
<1>5. ASSUME NEW i \in Jobs, LoadEntry(i)
      PROVE  UNCHANGED <<LedgerStatus, LedgerUnsaved>>
  <2>1. /\ req' = req /\ app' = app /\ app \notin Up
        /\ \A j \in Jobs \ {i} : mem'[j] = mem[j] /\ dir'[j] = dir[j]
    BY <1>1, <1>5
       DEF LoadEntry, RemoveOrphan, RestoreFinished, RestoreInterrupted,
           Persist, jobVars, appVars, Up
  <2>2. /\ LedgerStatus'[i] = LedgerStatus[i]
        /\ i \in LedgerUnsaved <=> i \in LedgerUnsaved'
    <3>1. CASE RemoveOrphan(i)
      <4>1. PICK d \in Remains(dir[i]) : dir' = [dir EXCEPT ![i] = d]
        BY <3>1 DEF RemoveOrphan
      <4>2. d.record.status = "absent"
        BY <3>1, RemainsAreEmptied DEF RemoveOrphan, Absent
      <4>3. /\ mem' = mem /\ dir'[i].record.status = "absent"
            /\ dir[i].record.status = "absent"
        BY <1>1, <3>1, <4>1, <4>2 DEF RemoveOrphan
      <4>4. QED
        BY <2>1, <4>3 DEF LedgerStatus, LedgerUnsaved, Latest
    <3>2. CASE RestoreFinished(i) \/ RestoreInterrupted(i)
      <4>1. /\ dir[i] \in Directory /\ mem'[i] = Restored(dir[i])
            /\ dir' = dir \/ dir'[i].record = OnDisk(Restored(dir[i]))
            /\ dir[i].record.status \in Terminal => dir' = dir
            /\ dir[i].record.status # "absent"
        BY <1>1, <3>2
           DEF RestoreFinished, RestoreInterrupted, Persist, Directory
      <4>2. /\ mem'[i].status = IF dir[i].record.status \in Live THEN "failed"
                                ELSE dir[i].record.status
            /\ dir'[i].record.status \in {dir[i].record.status, mem'[i].status}
        BY <4>1, WhatIsRestored
      <4>3. LedgerStatus'[i] = LedgerStatus[i]
        BY <2>1, <4>1, <4>2 DEF LedgerStatus, Latest
      <4>4. i \notin LedgerUnsaved'
        BY <4>1, <4>2 DEF LedgerUnsaved
      <4>5. i \notin LedgerUnsaved
        <5>1. app = "loading" /\ Reported(i)
          BY <1>1, <1>5 DEF LoadEntry
        <5>2. QED
          BY <5>1 DEF Reported, LedgerUnsaved
      <4>6. QED
        BY <4>3, <4>4, <4>5
    <3>3. QED
      BY <1>5, <3>1, <3>2 DEF LoadEntry
  <2>3. \A j \in Jobs : LedgerStatus'[j] = LedgerStatus[j]
    BY <2>1, <2>2 DEF LedgerStatus, Latest
  <2>4. LedgerStatus' = LedgerStatus
    BY <2>3 DEF LedgerStatus
  <2>5. LedgerUnsaved' = LedgerUnsaved
    BY <2>1, <2>2 DEF LedgerUnsaved
  <2>6. QED
    BY <2>4, <2>5
<1>6. QED
  BY <1>2, <1>3, <1>4, <1>5

\* The job API keeps what JobLedger promises of it, for any number of jobs,
\* slots, restarts and failed writes: a status goes from queued to running to
\* its end and no further, at most MaxConcurrentJobs run, and only a stop, a
\* crash or retention changes what has ended (runJob, load, DeleteExpired).
THEOREM LedgerIsKept == Spec => ImplementsLedger
<1>1. Init => Ledger!LedgerInit
  <2> SUFFICES ASSUME Init PROVE Ledger!LedgerInit
    OBVIOUS
  <2>1. \A j \in Jobs : LedgerStatus[j] = "none"
    BY DEF Init, StoreInit, LedgerStatus, Latest, NoDir, Absent, Up
  <2>2. LedgerStatus = [j \in Jobs |-> "none"]
    BY <2>1 DEF LedgerStatus
  <2>3. LedgerUnsaved = {}
    BY DEF Init, StoreInit, LedgerUnsaved, Absent
  <2>4. QED
    BY <2>2, <2>3 DEF Ledger!LedgerInit
<1>2. ShownInv /\ [Next]_vars => [Ledger!LedgerNext]_<<LedgerStatus, LedgerUnsaved>>
  <2> SUFFICES ASSUME ShownInv, [Next]_vars
               PROVE  Ledger!LedgerNext \/ UNCHANGED <<LedgerStatus, LedgerUnsaved>>
    OBVIOUS
  <2>1. CASE UNCHANGED vars
    BY <2>1, NothingShows DEF vars
  <2>2. CASE Next
    BY <2>2, RequestIsShown, RunnerIsShown, SweeperIsShown, ProcessIsShown
       DEF Next
  <2>3. QED
    BY <2>1, <2>2
<1>3. Spec => []ShownInv
  BY Inductive, RecordsAgree, DiskFollowsMemory, LiveIsInHand, SlotsBounded,
     ReportsAreTrue, PTL DEF ShownInv
<1>4. QED
  BY <1>1, <1>2, <1>3, PTL DEF Spec, ImplementsLedger, Ledger!LedgerSpec,
     Ledger!ledgerVars

=============================================================================
