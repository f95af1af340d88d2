-------------------------- MODULE JobServiceProofs --------------------------
(***************************************************************************)
(* Theorems about JobService for any set of jobs, any capacity, any        *)
(* retention window and any subset of failing file operations.             *)
(***************************************************************************)
EXTENDS JobService, FiniteSetTheorems, TLAPS

USE DEF Live, Terminal

(* The record of a job that is not there has the type of a record. *)
LEMMA AbsentIsRecord == Absent \in Record
  BY DEF Absent, Record

(* A directory that is not there has the type of one. *)
LEMMA NoDirIsDirectory == NoDir \in Directory
  BY AbsentIsRecord DEF NoDir, Directory, File

(* What job.json keeps of a record is a record. *)
LEMMA OnDiskIsRecord ==
  ASSUME NEW r \in Record
  PROVE  OnDisk(r) \in Record
  BY DEF OnDisk, Record

(* A change of status keeps a record one. *)
LEMMA EndedIsRecord ==
  ASSUME NEW r \in Record, NEW s \in {"completed", "failed", "running"}, clock \in Nat
  PROVE  Ended(r, s) \in Record /\ Processed(r, s) \in Record
  BY DEF Ended, Processed, Record

(* A record read back by load is a record. *)
LEMMA RestoredIsRecord ==
  ASSUME NEW d \in Directory
  PROVE  Restored(d) \in Record
  BY DEF Restored, Record, Directory

(* Whatever RemoveAll leaves is a directory. *)
LEMMA RemainsAreDirectories ==
  ASSUME NEW d \in Directory, NEW e \in Remains(d)
  PROVE  e \in Directory
  BY AbsentIsRecord, NoDirIsDirectory DEF Remains, Directory, File

(* Every change of a directory keeps it one.                               *)
LEMMA FileChanges ==
  ASSUME dir \in [Jobs -> Directory], NEW j \in Jobs,
         \/ BeginInput(j) \/ EndInput(j) \/ BeginOutput(j) \/ EndOutput(j)
         \/ Stage(j) \/ UnlinkOne(j)
  PROVE  dir' \in [Jobs -> Directory]
<1>1. CASE BeginInput(j)
  <2>1. dir' = [dir EXCEPT ![j] = [dir[j] EXCEPT !.present = TRUE, !.input = "partial"]]
    BY <1>1 DEF BeginInput
  <2>2. QED
    BY <2>1 DEF Directory, File
<1>2. CASE BeginOutput(j)
  <2>1. dir' = [dir EXCEPT ![j] = [dir[j] EXCEPT !.present = TRUE, !.output = "partial"]]
    BY <1>2 DEF BeginOutput
  <2>2. QED
    BY <2>1 DEF Directory, File
<1>3. CASE EndInput(j) \/ EndOutput(j)
  BY <1>3 DEF EndInput, EndOutput, Directory, File
<1>4. CASE Stage(j)
  BY <1>4 DEF Stage, Directory
<1>5. CASE UnlinkOne(j)
  BY <1>5, AbsentIsRecord DEF UnlinkOne, Directory, File
<1>6. QED
  BY <1>1, <1>2, <1>3, <1>4, <1>5

(* So does the rename of job.json. *)
LEMMA PersistChanges ==
  ASSUME dir \in [Jobs -> Directory], NEW j \in Jobs, NEW r \in Record,
         Persist(j, r)
  PROVE  dir' \in [Jobs -> Directory]
<1>1. OnDisk(r) \in Record
  BY OnDiskIsRecord
<1>2. QED
  BY <1>1 DEF Persist, Directory

(* The types hold at the start. *)
LEMMA InitType == Init => TypeOK
<1>1. <<>> \in Seq(Jobs)
  OBVIOUS
<1>2. StoreInit => StoreTypeOK
  BY AbsentIsRecord, NoDirIsDirectory DEF StoreInit, StoreTypeOK
<1> SUFFICES ASSUME Init PROVE TypeOK
  OBVIOUS
<1>3. req \in [Jobs -> RequestState] /\ run \in [Jobs -> RunnerState]
  BY DEF Init, RequestState, RunnerState
<1>4. held \in [Jobs -> Record]
  BY AbsentIsRecord DEF Init
<1>5. app \in AppState
  BY DEF Init, AppState
<1>6. QED
  BY <1>1, <1>2, <1>3, <1>4, <1>5 DEF Init, TypeOK

(* A process that ends leaves the variables of the next one, and the disk. *)
LEMMA DieType ==
  ASSUME TypeOK, Die
  PROVE  TypeOK'
<1>1. req' \in [Jobs -> RequestState]
  BY DEF TypeOK, Die, RequestState
<1>2. StoreTypeOK'
  BY AbsentIsRecord DEF TypeOK, StoreTypeOK, Die
<1>3. <<>> \in Seq(Jobs)
  OBVIOUS
<1>4. QED
  BY <1>1, <1>2, <1>3, AbsentIsRecord DEF TypeOK, Die, RunnerState, AppState

(* A handler keeps the types. *)
LEMMA RequestType ==
  ASSUME TypeOK, NEW j \in Jobs, Accept(j) \/ RequestStep(j)
  PROVE  TypeOK'
<1> USE DEF TypeOK, StoreTypeOK, storeVars, slotVars, jobVars, appVars,
        sweepVars
<1>1. CASE Accept(j)
  BY <1>1, FileChanges
     DEF Accept, ReqTo, Hold, Record, RequestState, InRequest, Uploading
<1>2. CASE InputWritten(j)
  BY <1>2, FileChanges
     DEF InputWritten, ReqTo, RequestState, InRequest, Uploading
<1>3. CASE InputFails(j)
  BY <1>3, AbsentIsRecord DEF InputFails, ReqTo, Hold, RequestState
<1>4. CASE CreateLocks(j)
  BY <1>4, FileChanges
     DEF CreateLocks, ReqTo, Lock, RequestState, InRequest, Uploading
<1>5. CASE CreateReturns(j)
  BY <1>5, AbsentIsRecord, RemainsAreDirectories, PersistChanges
     DEF CreateReturns, ReqTo, Hold, CreateSucceeds, CreateFails, Unlock,
         RequestState, InRequest
<1>6. CASE StartRunner(j)
  BY <1>6, AbsentIsRecord
     DEF StartRunner, ReqTo, RunTo, Hold, RequestState, RunnerState
<1>7. CASE RefuseRunner(j)
  BY <1>7, EndedIsRecord DEF RefuseRunner, ReqTo, Hold, RequestState, InRequest
<1>8. CASE MarkLocks(j)
  BY <1>8, FileChanges DEF MarkLocks, ReqTo, Lock, RequestState, InRequest
<1>9. CASE MarkReturns(j)
  BY <1>9, AbsentIsRecord, PersistChanges
     DEF MarkReturns, ReqTo, Hold, Save, Unlock, RequestState
<1>10. QED
  BY <1>1, <1>2, <1>3, <1>4, <1>5, <1>6, <1>7, <1>8, <1>9 DEF RequestStep

(* A goroutine keeps the types. *)
LEMMA RunnerType ==
  ASSUME TypeOK, NEW j \in Jobs, RunnerStep(j)
  PROVE  TypeOK'
<1> USE DEF TypeOK, StoreTypeOK, storeVars, slotVars, jobVars, appVars,
        sweepVars
<1>1. CASE CheckDraining(j)
  BY <1>1 DEF CheckDraining, RunTo, RunnerState
<1>2. CASE SelectSlot(j)
  BY <1>2 DEF SelectSlot, RunTo, RunnerState, Masking
<1>3. CASE SelectDraining(j)
  BY <1>3 DEF SelectDraining, RunTo, RunnerState
<1>4. CASE Park(j)
  BY <1>4 DEF Park, RunTo, RunnerState
<1>5. CASE GiveUp(j)
  BY <1>5, EndedIsRecord DEF GiveUp, RunTo, Hold, RunnerState
<1>6. CASE FetchJob(j)
  BY <1>6 DEF FetchJob, RunTo, Hold, RunnerState, Masking
<1>7. CASE ReadInput(j)
  BY <1>7, EndedIsRecord DEF ReadInput, RunTo, Hold, RunnerState
<1>8. CASE SaveLocks(j)
  BY <1>8, FileChanges DEF SaveLocks, RunTo, Lock, RunnerState
<1>9. CASE SaveReturns(j)
  BY <1>9, AbsentIsRecord, PersistChanges
     DEF SaveReturns, RunTo, Hold, Save, Unlock, AfterSave, RunnerState,
         Masking
<1>10. CASE ProcessSucceeds(j)
  BY <1>10, EndedIsRecord
     DEF ProcessSucceeds, RunTo, Hold, RunnerState, Masking
<1>11. CASE ProcessFails(j)
  BY <1>11, EndedIsRecord DEF ProcessFails, RunTo, Hold, RunnerState
<1>12. CASE OutputOpened(j)
  BY <1>12, FileChanges DEF OutputOpened, RunTo, RunnerState, Masking
<1>13. CASE OutputWritten(j)
  BY <1>13, FileChanges DEF OutputWritten, RunTo, Record, RunnerState
<1>14. CASE OutputFails(j)
  BY <1>14 DEF OutputFails, RunTo, Record, RunnerState
<1>15. CASE ReleaseSlot(j)
  BY <1>15 DEF ReleaseSlot, RunTo, RunnerState, Masking
<1>16. QED
  BY <1>1, <1>2, <1>3, <1>4, <1>5, <1>6, <1>7, <1>8, <1>9, <1>10, <1>11,
     <1>12, <1>13, <1>14, <1>15
     DEF RunnerStep

(* The sweeper keeps the types. *)
LEMMA SweeperType ==
  ASSUME TypeOK, SweeperStep
  PROVE  TypeOK'
<1> USE DEF TypeOK, StoreTypeOK, storeVars, slotVars, jobVars, appVars,
        sweepVars
<1>1. CASE BeginSweep
  BY <1>1 DEF BeginSweep
<1>2. CASE SweepLocks
  BY <1>2 DEF SweepLocks, Lock, ExpiredJobs
<1>3. CASE \E j \in Jobs : SweepUnlinks(j)
  BY <1>3, FileChanges DEF SweepUnlinks
<1>4. CASE \E j \in Jobs : SweepDeletes(j)
  BY <1>4, AbsentIsRecord, NoDirIsDirectory DEF SweepDeletes, DeleteJob
<1>5. CASE \E j \in Jobs : SweepSkips(j)
  BY <1>5 DEF SweepSkips
<1>6. CASE EndSweep
  BY <1>6 DEF EndSweep, Unlock
<1>7. CASE StopSweeper
  BY <1>7 DEF StopSweeper
<1>8. QED
  BY <1>1, <1>2, <1>3, <1>4, <1>5, <1>6, <1>7 DEF SweeperStep, SweepJob

(* The process keeps the types. *)
LEMMA ProcessType ==
  ASSUME TypeOK, Boot \/ ServeStep \/ Signal \/ Deadline \/ Crash \/ Tick
  PROVE  TypeOK'
<1> USE DEF TypeOK, StoreTypeOK, storeVars, slotVars, jobVars, appVars,
        sweepVars
<1>1. CASE Boot
  BY <1>1 DEF Boot, Lock, AppState
<1>2. CASE \E j \in Jobs : LoadEntry(j)
  BY <1>2, RestoredIsRecord, RemainsAreDirectories, PersistChanges
     DEF LoadEntry, RemoveOrphan, RestoreFinished, RestoreInterrupted
<1>3. CASE Loaded
  BY <1>3 DEF Loaded, Unlock, AppState
<1>4. CASE Signal
  BY <1>4 DEF Signal, AppState
<1>5. CASE Deadline
  BY <1>5 DEF Deadline
<1>6. CASE CloseDraining
  BY <1>6 DEF CloseDraining, AppState, RunnerState
<1>7. CASE RunnersDone
  BY <1>7 DEF RunnersDone, AppState, Stopped
<1>8. CASE GiveUpWaiting
  BY <1>8 DEF GiveUpWaiting, AppState, Stopped
<1>9. CASE Exit
  BY <1>9, DieType DEF Exit
<1>10. CASE Crash
  BY <1>10, DieType DEF Crash
<1>11. CASE Tick
  BY <1>11 DEF Tick
<1>12. QED
  BY <1>1, <1>2, <1>3, <1>4, <1>5, <1>6, <1>7, <1>8, <1>9, <1>10, <1>11
     DEF ServeStep

(* Every step keeps the types. *)
LEMMA NextType == TypeOK /\ [Next]_vars => TypeOK'
<1> SUFFICES ASSUME TypeOK, [Next]_vars PROVE TypeOK'
  OBVIOUS
<1>1. CASE Next
  BY <1>1, RequestType, RunnerType, SweeperType, ProcessType DEF Next
<1>2. CASE UNCHANGED vars
  BY <1>2 DEF vars, TypeOK, StoreTypeOK
<1>3. QED
  BY <1>1, <1>2

(* Every variable keeps its type. *)
THEOREM TypeCorrect == Spec => []TypeOK
<1>1. Init => TypeOK
  BY InitType
<1>2. TypeOK /\ [Next]_vars => TypeOK'
  BY NextType
<1>3. QED
  BY <1>1, <1>2, PTL DEF Spec

-----------------------------------------------------------------------------
(* The inductive invariant.                                                *)

\* Whoever is at a step that needs the lock has it.
LockInv ==
    /\ app = "loading" => mu = "load"
    /\ sweeper = "removing" => mu = "sweep"
    /\ \A j \in Jobs :
          run[j] = "persisting" \/ req[j] \in {"creating", "marking"} => mu = j

\* Goroutines, handlers and the sweeper live in a process that is up, and a
\* job's goroutine starts when its handler has answered.
LifeInv ==
    /\ \A j \in Jobs :
          /\ run[j] # "idle" => app \in Up /\ req[j] = "answered"
          /\ req[j] \in InRequest => app \in Up
    /\ sweeper # "off" => app \in Up

\* What a sweep is about to remove stays finished while it holds the lock.
SweepInv ==
    sweeper = "removing" => \A j \in todo : mem[j].status \in Terminal

\* A job is in the store from the moment Create returns, with its upload.
RequestInv ==
    \A j \in Jobs :
        /\ req[j] = "none" => dir[j].record.status = "absent"
        /\ req[j] \in {"none"} \cup Uploading => mem[j].status = "absent"
        /\ req[j] \in Uploading => held[j].status = "queued"
        /\ req[j] \in {"uploaded", "creating", "created"} => dir[j].input = "whole"
        /\ req[j] = "created" => mem[j].status = "queued"

\* The goroutines in the channel's queue are parked, each once.
QueueInv ==
    /\ \A i \in 1..Len(waiting) : run[waiting[i]] = "parked"
    /\ \A i, k \in 1..Len(waiting) : waiting[i] = waiting[k] => i = k

\* What the place of a goroutine says about the status of its job, about
\* its upload and about its slot.
WorkInv ==
    \A j \in Jobs :
        /\ run[j] \notin {"idle", "releasing"} => dir[j].input = "whole"
        /\ run[j] \in {"starting", "selecting", "parked", "giving_up",
                       "claimed", "reading"} => mem[j].status = "queued"
        /\ run[j] \in {"processing", "output", "writing"}
              => mem[j].status = "running"
        /\ run[j] \in {"saving", "persisting"} =>
              /\ mem[j].status \in Live
              /\ held[j].status = "running" \/ mem[j].status = "running"
                    => j \in slots
        /\ run[j] \in Masking => j \in slots

IInv == /\ TypeOK /\ LockInv /\ LifeInv /\ SweepInv /\ RequestInv
        /\ QueueInv /\ WorkInv

\* The conjuncts that are left once the types are known to be kept.
StepInv == LockInv /\ LifeInv /\ SweepInv /\ RequestInv /\ QueueInv /\ WorkInv

(* The end of the process leaves the disk and the answers that were given. *)
LEMMA DieInvariant ==
  ASSUME IInv, Die
  PROVE  StepInv'
<1> USE DEF StepInv, IInv, TypeOK
<1>1. \A j \in Jobs :
         /\ mem'[j].status = "absent" /\ run'[j] = "idle" /\ dir'[j] = dir[j]
         /\ req'[j] \notin InRequest /\ (req'[j] = "none" => req[j] = "none")
  BY DEF Die, Absent, InRequest, Uploading
<1>2. app' = "down" /\ sweeper' = "off" /\ waiting' = <<>> /\ Len(waiting') = 0
  BY DEF Die
<1>3. LockInv' /\ LifeInv' /\ SweepInv' /\ QueueInv'
  BY <1>1, <1>2 DEF LockInv, LifeInv, SweepInv, QueueInv, InRequest, Uploading
<1>4. RequestInv' /\ WorkInv'
  BY <1>1 DEF RequestInv, WorkInv, InRequest, Uploading, Masking
<1>5. QED
  BY <1>3, <1>4

(* A step of a handler. *)
LEMMA RequestInvariant ==
  ASSUME IInv, NEW i \in Jobs, Accept(i) \/ RequestStep(i)
  PROVE  StepInv'
<1> USE JobsAssumption DEF StepInv, IInv, TypeOK, StoreTypeOK, LockInv,
        LifeInv, SweepInv, RequestInv, QueueInv, WorkInv, InRequest,
        Uploading, Masking, Up, AppState, Stopped, storeVars, slotVars,
        jobVars, appVars, sweepVars
<1>1. CASE Accept(i)
  BY <1>1 DEF Accept, ReqTo, BeginInput, Hold, Directory
<1>2. CASE InputWritten(i)
  BY <1>2 DEF InputWritten, ReqTo, EndInput, Directory
<1>3. CASE InputFails(i)
  BY <1>3 DEF InputFails, ReqTo, Hold
<1>4. CASE CreateLocks(i)
  BY <1>4 DEF CreateLocks, ReqTo, Lock, Stage, Directory
<1>5. CASE CreateReturns(i)
  <2>1. CASE CreateSucceeds(i, held[i]) /\ ReqTo(i, "created") /\ UNCHANGED held
    BY <1>5, <2>1
       DEF CreateReturns, CreateSucceeds, Persist, Unlock, ReqTo, Directory
  <2>2. CASE CreateFails(i) /\ ReqTo(i, "over") /\ Hold(i, Absent)
    BY <1>5, <2>2 DEF CreateReturns, CreateFails, Unlock, ReqTo, Hold
  <2>3. QED
    BY <1>5, <2>1, <2>2 DEF CreateReturns
<1>6. CASE StartRunner(i)
  BY <1>6 DEF StartRunner, ReqTo, RunTo, Hold
<1>7. CASE RefuseRunner(i)
  BY <1>7 DEF RefuseRunner, ReqTo, Hold
<1>8. CASE MarkLocks(i)
  BY <1>8 DEF MarkLocks, ReqTo, Lock, Stage, Directory
<1>9. CASE MarkReturns(i)
  BY <1>9 DEF MarkReturns, ReqTo, Hold, Save, Persist, Unlock, Directory
<1>10. QED
  BY <1>1, <1>2, <1>3, <1>4, <1>5, <1>6, <1>7, <1>8, <1>9 DEF RequestStep

(* A step of a goroutine. *)
LEMMA RunnerInvariant ==
  ASSUME IInv, NEW i \in Jobs, RunnerStep(i)
  PROVE  StepInv'
<1> USE JobsAssumption DEF StepInv, IInv, TypeOK, StoreTypeOK, LockInv,
        LifeInv, SweepInv, RequestInv, QueueInv, WorkInv, InRequest,
        Uploading, Masking, Up, AppState, Stopped, storeVars, slotVars,
        jobVars, appVars, sweepVars
<1>1. CASE CheckDraining(i)
  BY <1>1 DEF CheckDraining, RunTo
<1>2. CASE SelectSlot(i)
  BY <1>2 DEF SelectSlot, RunTo
<1>3. CASE SelectDraining(i)
  BY <1>3 DEF SelectDraining, RunTo
<1>4. CASE Park(i)
  BY <1>4 DEF Park, RunTo
<1>5. CASE GiveUp(i)
  <2>1. Ended(mem[i], "failed").status = "failed"
    BY DEF Ended, Record
  <2>2. QED
    BY <1>5, <2>1 DEF GiveUp, RunTo, Hold
<1>6. CASE FetchJob(i)
  BY <1>6 DEF FetchJob, RunTo, Hold
<1>7. CASE ReadInput(i)
  BY <1>7 DEF ReadInput, RunTo, Hold
<1>8. CASE SaveLocks(i)
  BY <1>8 DEF SaveLocks, RunTo, Lock, Stage, Directory
<1>9. CASE SaveReturns(i)
  BY <1>9
     DEF SaveReturns, RunTo, Hold, Save, Persist, Unlock, AfterSave,
         Directory
<1>10. CASE ProcessSucceeds(i)
  BY <1>10 DEF ProcessSucceeds, RunTo, Hold
<1>11. CASE ProcessFails(i)
  BY <1>11 DEF ProcessFails, RunTo, Hold
<1>12. CASE OutputOpened(i)
  BY <1>12 DEF OutputOpened, RunTo, BeginOutput, Directory
<1>13. CASE OutputWritten(i)
  BY <1>13 DEF OutputWritten, RunTo, EndOutput, Directory
<1>14. CASE OutputFails(i)
  BY <1>14 DEF OutputFails, RunTo
<1>15. CASE ReleaseSlot(i)
  <2>1. CASE waiting = <<>>
    BY <1>15, <2>1 DEF ReleaseSlot, RunTo
  <2>2. CASE waiting # <<>>
    <3> DEFINE h == Head(waiting)
    <3>1. /\ h = waiting[1] /\ h \in Jobs /\ run[h] = "parked"
          /\ Len(waiting) \in Nat \ {0}
          /\ run' = [run EXCEPT ![i] = "idle", ![h] = "claimed"]
          /\ slots' = (slots \ {i}) \cup {h} /\ waiting' = Tail(waiting)
      BY <1>15, <2>2 DEF ReleaseSlot
    <3>2. h # i
      BY <1>15, <3>1 DEF ReleaseSlot
    <3>3. \A n \in 1..Len(waiting') :
             /\ n + 1 \in 1..Len(waiting) /\ waiting'[n] = waiting[n + 1]
             /\ waiting[n + 1] # h /\ waiting[n + 1] \in Jobs
      BY <3>1
    <3>4. QueueInv'
      <4>1. ASSUME NEW n \in 1..Len(waiting') PROVE run'[waiting'[n]] = "parked"
        BY <4>1, <1>15, <3>1, <3>3 DEF ReleaseSlot
      <4>2. ASSUME NEW n \in 1..Len(waiting'), NEW k \in 1..Len(waiting'),
                   waiting'[n] = waiting'[k]
            PROVE  n = k
        <5>1. n + 1 = k + 1
          BY <3>3, <4>2
        <5>2. QED
          BY <5>1
      <4>3. QED
        BY <4>1, <4>2
    <3>5. LockInv' /\ LifeInv' /\ SweepInv' /\ RequestInv' /\ WorkInv'
      BY <1>15, <3>1, <3>2 DEF ReleaseSlot
    <3>6. QED
      BY <3>4, <3>5
  <2>3. QED
    BY <2>1, <2>2
<1>16. QED
  BY <1>1, <1>2, <1>3, <1>4, <1>5, <1>6, <1>7, <1>8, <1>9, <1>10, <1>11,
     <1>12, <1>13, <1>14, <1>15
     DEF RunnerStep

(* A step of the sweeper. *)
LEMMA SweeperInvariant ==
  ASSUME IInv, SweeperStep
  PROVE  StepInv'
<1> USE JobsAssumption DEF StepInv, IInv, TypeOK, StoreTypeOK, LockInv,
        LifeInv, SweepInv, RequestInv, QueueInv, WorkInv, InRequest,
        Uploading, Masking, Up, AppState, Stopped, storeVars, slotVars,
        jobVars, appVars, sweepVars
<1>1. CASE BeginSweep
  BY <1>1 DEF BeginSweep
<1>2. CASE SweepLocks
  BY <1>2 DEF SweepLocks, Lock, ExpiredJobs, Expired
<1>3. CASE \E i \in Jobs : SweepUnlinks(i)
  <2>1. PICK i \in Jobs : SweepUnlinks(i)
    BY <1>3
  <2>2. /\ \A j \in Jobs : j # i => dir'[j] = dir[j]
        /\ dir'[i].record.status \in {dir[i].record.status, "absent"}
    BY <2>1 DEF SweepUnlinks, UnlinkOne, Directory, Absent
  <2>3. mem[i].status \in Terminal
    BY <2>1 DEF SweepUnlinks
  <2>4. RequestInv'
    BY <2>1, <2>2, <2>3 DEF SweepUnlinks
  <2>5. WorkInv'
    <3>1. run[i] \in {"idle", "releasing"}
      BY <2>3 DEF RunnerState
    <3>2. QED
      BY <2>1, <2>2, <3>1 DEF SweepUnlinks
  <2>6. LockInv' /\ LifeInv' /\ SweepInv' /\ QueueInv'
    BY <2>1 DEF SweepUnlinks
  <2>7. QED
    BY <2>4, <2>5, <2>6
<1>4. CASE \E i \in Jobs : SweepDeletes(i)
  <2>1. PICK i \in Jobs : SweepDeletes(i)
    BY <1>4
  <2>2. /\ \A j \in Jobs : j # i => dir'[j] = dir[j] /\ mem'[j] = mem[j]
        /\ dir'[i].record.status = "absent" /\ mem'[i].status = "absent"
    BY <2>1 DEF SweepDeletes, DeleteJob, NoDir, Absent
  <2>3. mem[i].status \in Terminal
    BY <2>1 DEF SweepDeletes
  <2>4. RequestInv'
    BY <2>1, <2>2, <2>3 DEF SweepDeletes
  <2>5. WorkInv'
    <3>1. run[i] \in {"idle", "releasing"}
      BY <2>3 DEF RunnerState
    <3>2. QED
      BY <2>1, <2>2, <3>1 DEF SweepDeletes
  <2>6. LockInv' /\ LifeInv' /\ SweepInv' /\ QueueInv'
    BY <2>1, <2>2 DEF SweepDeletes
  <2>7. QED
    BY <2>4, <2>5, <2>6
<1>5. CASE \E i \in Jobs : SweepSkips(i)
  BY <1>5 DEF SweepSkips
<1>6. CASE EndSweep
  BY <1>6 DEF EndSweep, Unlock
<1>7. CASE StopSweeper
  BY <1>7 DEF StopSweeper
<1>8. QED
  BY <1>1, <1>2, <1>3, <1>4, <1>5, <1>6, <1>7 DEF SweeperStep, SweepJob

(* A step of the process. *)
LEMMA ProcessInvariant ==
  ASSUME IInv, Boot \/ ServeStep \/ Signal \/ Deadline \/ Crash \/ Tick
  PROVE  StepInv'
<1> USE JobsAssumption DEF StepInv, IInv, TypeOK, StoreTypeOK, LockInv,
        LifeInv, SweepInv, RequestInv, QueueInv, WorkInv, InRequest,
        Uploading, Masking, Up, AppState, Stopped, storeVars, slotVars,
        jobVars, appVars, sweepVars
<1>1. CASE Boot
  <2>1. app = "down" /\ app' = "loading" /\ mu' = "load"
    BY <1>1 DEF Boot, Lock
  <2>2. /\ \A j \in Jobs : run[j] = "idle" /\ req[j] \notin InRequest
        /\ sweeper = "off"
    BY <2>1
  <2>3. QED
    BY <1>1, <2>1, <2>2 DEF Boot
<1>2. CASE \E i \in Jobs : LoadEntry(i)
  <2>1. PICK i \in Jobs : LoadEntry(i)
    BY <1>2
  <2>2. /\ \A j \in Jobs : run[j] = "idle" /\ req[j] \notin InRequest
        /\ sweeper = "off"
    BY <2>1 DEF LoadEntry
  <2>3. \A j \in Jobs : j # i => dir'[j] = dir[j] /\ mem'[j] = mem[j]
    BY <2>1
       DEF LoadEntry, RemoveOrphan, RestoreFinished, RestoreInterrupted,
           Persist
  <2>4. dir[i].record.status = "absent" =>
           mem' = mem /\ dir'[i].record.status = "absent"
    <3>1. ASSUME dir[i].record.status = "absent", NEW d \in Remains(dir[i])
          PROVE  d.record.status = "absent"
      <4>1. NoDir.record.status = "absent" /\ Absent.status = "absent"
        BY DEF NoDir, Absent
      <4>2. d = NoDir \/ d.record \in {dir[i].record, Absent}
        BY DEF Remains
      <4>3. QED
        BY <3>1, <4>1, <4>2
    <3>2. QED
      BY <2>1, <3>1
         DEF LoadEntry, RemoveOrphan, RestoreFinished, RestoreInterrupted
  <2>5. QED
    BY <2>1, <2>2, <2>3, <2>4 DEF LoadEntry
<1>3. CASE Loaded
  BY <1>3 DEF Loaded, Unlock
<1>4. CASE Signal
  BY <1>4 DEF Signal
<1>5. CASE Deadline
  BY <1>5 DEF Deadline
<1>6. CASE CloseDraining
  BY <1>6 DEF CloseDraining
<1>7. CASE RunnersDone
  BY <1>7 DEF RunnersDone
<1>8. CASE GiveUpWaiting
  BY <1>8 DEF GiveUpWaiting
<1>9. CASE Exit
  BY <1>9, DieInvariant DEF Exit
<1>10. CASE Crash
  BY <1>10, DieInvariant DEF Crash
<1>11. CASE Tick
  BY <1>11 DEF Tick
<1>12. QED
  BY <1>1, <1>2, <1>3, <1>4, <1>5, <1>6, <1>7, <1>8, <1>9, <1>10, <1>11
     DEF ServeStep

(* The invariant holds in every reachable state. *)
THEOREM Inductive == Spec => []IInv
<1>1. Init => IInv
  BY InitType, SlotsAssumption, JobsAssumption
     DEF Init, StoreInit, IInv, LockInv, LifeInv, SweepInv, RequestInv,
         QueueInv, WorkInv, InRequest, Uploading, Masking, Absent, NoDir
<1>2. IInv /\ [Next]_vars => IInv'
  <2> SUFFICES ASSUME IInv, [Next]_vars PROVE IInv'
    OBVIOUS
  <2>1. TypeOK'
    BY NextType DEF IInv
  <2>2. CASE Next
    BY <2>1, <2>2, RequestInvariant, RunnerInvariant, SweeperInvariant,
       ProcessInvariant DEF Next, StepInv, IInv
  <2>3. CASE UNCHANGED vars
    BY <2>3 DEF vars, IInv, TypeOK, StoreTypeOK, LockInv, LifeInv, SweepInv,
                RequestInv, QueueInv, WorkInv
  <2>4. QED
    BY <2>2, <2>3
<1>3. QED
  BY <1>1, <1>2, PTL DEF Spec

(* The sweeper never takes a job, or its upload, from a goroutine that has *)
(* not finished with it (Store.DeleteExpired, Service.runJob).             *)
THEOREM RunnersKeepTheirJobs == Spec => []RunnerOwnsLiveJob
<1>1. IInv => RunnerOwnsLiveJob
  BY DEF IInv, TypeOK, RunnerState, Masking, WorkInv, RunnerOwnsLiveJob
<1>2. QED
  BY <1>1, Inductive, PTL

-----------------------------------------------------------------------------
(* The memory bound.                                                       *)

SlotInv == IsFiniteSet(slots) /\ Cardinality(slots) <= MaxConcurrentJobs

(* Handing a slot over keeps the number of slots in use.                   *)
LEMMA Handover ==
  ASSUME SlotInv, NEW i \in slots, NEW h
  PROVE  /\ IsFiniteSet(slots \ {i})
         /\ Cardinality(slots \ {i}) <= MaxConcurrentJobs
         /\ IsFiniteSet((slots \ {i}) \cup {h})
         /\ Cardinality((slots \ {i}) \cup {h}) <= MaxConcurrentJobs
<1>1. /\ IsFiniteSet(slots \ {i})
      /\ Cardinality(slots \ {i}) = Cardinality(slots) - 1
      /\ Cardinality(slots) \in Nat /\ Cardinality(slots \ {i}) \in Nat
  BY FS_RemoveElement, FS_CardinalityType DEF SlotInv
<1>2. /\ IsFiniteSet((slots \ {i}) \cup {h})
      /\ Cardinality((slots \ {i}) \cup {h}) <= Cardinality(slots \ {i}) + 1
  BY <1>1, FS_AddElement
<1>3. /\ Cardinality((slots \ {i}) \cup {h}) \in Nat
  BY <1>2, FS_CardinalityType
<1>4. QED
  BY <1>1, <1>2, <1>3, SlotsAssumption DEF SlotInv

(* Every step keeps the bound on the slots in use. *)
LEMMA SlotStep ==
  ASSUME IInv, SlotInv, [Next]_vars
  PROVE  SlotInv'
<1> USE SlotsAssumption
<1>1. ASSUME slots' = slots PROVE SlotInv'
  BY <1>1 DEF SlotInv
<1>2. ASSUME Die PROVE SlotInv'
  BY <1>2, FS_EmptySet DEF Die, SlotInv
<1>3. ASSUME NEW i \in Jobs, SelectSlot(i) PROVE SlotInv'
  <2>1. IsFiniteSet(slots) /\ Cardinality(slots) \in Nat
    BY FS_CardinalityType DEF SlotInv
  <2>2. /\ IsFiniteSet(slots \cup {i})
        /\ Cardinality(slots \cup {i}) <= Cardinality(slots) + 1
    BY <2>1, FS_AddElement
  <2>3. Cardinality(slots \cup {i}) \in Nat
    BY <2>2, FS_CardinalityType
  <2>4. QED
    BY <1>3, <2>1, <2>2, <2>3 DEF SelectSlot, SlotInv
<1>4. ASSUME NEW i \in Jobs, ReleaseSlot(i) PROVE SlotInv'
  <2>1. i \in slots
    BY <1>4 DEF ReleaseSlot, IInv, WorkInv, Masking
  <2>2. QED
    BY <1>4, <2>1, Handover DEF ReleaseSlot, SlotInv
<1>5. ASSUME NEW i \in Jobs, Accept(i) \/ RequestStep(i) PROVE slots' = slots
  BY <1>5 DEF RequestStep, Accept, InputWritten, InputFails, CreateLocks,
              CreateReturns, StartRunner, RefuseRunner, MarkLocks, MarkReturns,
              slotVars
<1>6. ASSUME NEW i \in Jobs, RunnerStep(i)
      PROVE  slots' = slots \/ SelectSlot(i) \/ ReleaseSlot(i)
  BY <1>6
     DEF RunnerStep, CheckDraining, SelectDraining, Park, GiveUp, FetchJob,
              ReadInput, SaveLocks, SaveReturns, ProcessSucceeds, ProcessFails,
              OutputOpened, OutputWritten, OutputFails, slotVars
<1>7. ASSUME SweeperStep PROVE slots' = slots
  BY <1>7 DEF SweeperStep, SweepJob, BeginSweep, SweepLocks, EndSweep,
              StopSweeper, SweepUnlinks, SweepDeletes, SweepSkips, slotVars
<1>8. ASSUME Boot \/ ServeStep \/ Signal \/ Deadline \/ Crash \/ Tick
      PROVE  slots' = slots \/ Die
  BY <1>8 DEF ServeStep, Boot, LoadEntry, Loaded, Signal, Deadline,
              CloseDraining, RunnersDone, GiveUpWaiting, Exit, Crash, Tick,
              slotVars
<1>9. CASE UNCHANGED vars
  BY <1>1, <1>9 DEF vars
<1>10. QED
  BY <1>1, <1>2, <1>3, <1>4, <1>5, <1>6, <1>7, <1>8, <1>9 DEF Next

(* Never more slots are in use than there are.                             *)
LEMMA SlotsBounded == Spec => []SlotInv
<1>1. Init => SlotInv
  BY FS_EmptySet, SlotsAssumption DEF Init, SlotInv
<1>2. IInv /\ SlotInv /\ [Next]_vars => SlotInv'
  BY SlotStep
<1>3. QED
  BY <1>1, <1>2, Inductive, PTL DEF Spec

(* Never more than MaxConcurrentJobs documents of jobs in memory, whatever *)
(* the number of jobs queued (Service.jobSlots).                           *)
THEOREM MemoryBounded == Spec => []DocumentsBounded
<1>1. IInv /\ SlotInv => DocumentsBounded
  <2> SUFFICES ASSUME IInv, SlotInv PROVE DocumentsBounded
    OBVIOUS
  <2> DEFINE D == {j \in Jobs : HoldsDocument(j)}
  <2>1. D \subseteq slots
    BY DEF IInv, WorkInv, HoldsDocument, Masking
  <2>2. IsFiniteSet(D) /\ Cardinality(D) <= Cardinality(slots)
    BY <2>1, FS_Subset DEF SlotInv
  <2>3. Cardinality(D) \in Nat /\ Cardinality(slots) \in Nat
    BY <2>2, FS_CardinalityType DEF SlotInv
  <2>4. QED
    BY <2>2, <2>3, SlotsAssumption DEF SlotInv, DocumentsBounded
<1>2. QED
  BY <1>1, Inductive, SlotsBounded, PTL

-----------------------------------------------------------------------------
(* What the copies of a job's record, in memory, on disk and in the hands  *)
(* of a goroutine, say about each other.                                   *)

\* The last word on a job has not been written.
UnderWay(j) ==
    req[j] \in {"none"} \cup InRequest \/ run[j] \notin {"idle", "releasing"}

\* Nothing is in a directory that is not there, and a request that was
\* refused still has its upload.
Files(j) ==
    /\ dir[j].input # "none" \/ dir[j].record.status # "absent"
          => dir[j].present
    /\ req[j] = "uploading" => dir[j].input # "none"
    /\ req[j] \in {"refused", "marking"} =>
          /\ dir[j].input = "whole" /\ mem[j].status = "queued"
          /\ held[j].status = "failed"

\* What a goroutine is about to save.
Held(j) ==
    /\ run[j] \in {"output", "writing"} => held[j].status = "completed"
    /\ run[j] \in {"saving", "persisting"} =>
          /\ held[j].status \in {"running"} \cup Terminal
          /\ held[j].status = "completed" =>
                held[j].output /\ dir[j].output = "whole"

\* Before the service is up: nothing in memory, then what load has read.
LoadedSoFar(j) ==
    /\ app = "down" => mem[j].status = "absent"
    /\ app = "loading" /\ j \in todo => dir[j].present
    /\ app = "loading" /\ mem[j].status # "absent"
          => dir[j].record.status # "absent"
    /\ app = "loading" /\ j \notin todo /\ dir[j].record.status # "absent"
          => /\ mem[j].status # "absent"
             /\ mem[j].updatedAt = dir[j].record.updatedAt
             /\ dir[j].record.status = "completed"
                   => mem[j].status = "completed"

\* Memory and disk, which a failed write lets fall behind.
Agree(j) ==
    /\ UnderWay(j) => dir[j].record.status # "completed"
    /\ app \in Up /\ dir[j].record.status = "completed"
          => /\ mem[j].status = "completed"
             /\ mem[j].updatedAt = dir[j].record.updatedAt
    /\ app \in Up /\ mem[j].status # "absent"
          => dir[j].record.status # "absent" \/ Expired(mem[j], clock)
    /\ mem[j].status # "absent" /\ dir[j].record.status # "absent"
          => dir[j].record.updatedAt <= mem[j].updatedAt

\* Times only go forward.
Dates(j) ==
    /\ mem[j].updatedAt <= clock /\ held[j].updatedAt <= clock
    /\ dir[j].record.updatedAt <= clock
    /\ run[j] \in {"reading", "processing", "output", "writing",
                   "saving", "persisting"}
          => mem[j].updatedAt <= held[j].updatedAt
    /\ req[j] \in {"created", "refused", "marking"}
          => mem[j].updatedAt <= held[j].updatedAt

Recorded(j) ==
    Files(j) /\ Held(j) /\ LoadedSoFar(j) /\ Agree(j) /\ Dates(j)

\* The jobs a sweep removes were over their time when it looked.
SweptInv ==
    /\ sweeper \in {"locking", "removing"} => sweepAt <= clock
    /\ sweeper = "removing" => \A j \in todo : Expired(mem[j], sweepAt)

RecordInv == SweptInv /\ \A j \in Jobs : Recorded(j)

\* What the invariant of JobServiceProofs says of one job.
Standing(j) ==
    /\ mem[j] \in Record /\ held[j] \in Record /\ dir[j] \in Directory
    /\ run[j] \in RunnerState /\ req[j] \in RequestState /\ clock \in Nat
    /\ run[j] = "persisting" \/ req[j] \in {"creating", "marking"}
          => sweeper # "removing"
    /\ run[j] # "idle" => app \in Up /\ req[j] = "answered"
    /\ req[j] \in InRequest => app \in Up
    /\ req[j] \in {"none"} \cup Uploading => mem[j].status = "absent"
    /\ req[j] \in Uploading => held[j].status = "queued"
    /\ req[j] \in {"uploaded", "creating", "created"} => dir[j].input = "whole"
    /\ req[j] = "created" => mem[j].status = "queued"
    /\ run[j] \notin {"idle", "releasing"} => dir[j].input = "whole"
    /\ run[j] \in {"starting", "selecting", "parked", "giving_up",
                   "claimed", "reading"} => mem[j].status = "queued"
    /\ run[j] \in {"processing", "output", "writing"}
          => mem[j].status = "running"
    /\ run[j] \in {"saving", "persisting"} => mem[j].status \in Live
    /\ sweeper = "removing" /\ j \in todo => mem[j].status \in Terminal
    /\ sweeper # "off" => app \in Up

(* It does say so.                                                         *)
LEMMA JobStands ==
  ASSUME IInv, NEW j \in Jobs
  PROVE  Standing(j) /\ todo \subseteq Jobs
<1>1. run[j] = "persisting" \/ req[j] \in {"creating", "marking"}
         => sweeper # "removing"
  BY JobsAssumption DEF IInv, LockInv
<1>2. QED
  BY <1>1
     DEF IInv, TypeOK, StoreTypeOK, LifeInv, SweepInv, RequestInv, WorkInv,
         Standing

(* What RemoveAll leaves of a directory has no record it did not have.     *)
LEMMA RemainsAreEmptied ==
  ASSUME NEW d, NEW e \in Remains(d)
  PROVE  \/ e.present /\ e.record \in {d.record, Absent}
         \/ e.input = "none" /\ e.record = Absent
<1>1. CASE e = NoDir
  BY <1>1 DEF NoDir
<1>2. CASE e # NoDir
  <2>1. e \in [present : {TRUE}, input : {d.input, "none"},
               output : {d.output, "none"}, record : {d.record, Absent}]
    BY <1>2 DEF Remains
  <2>2. QED
    BY <2>1
<1>3. QED
  BY <1>1, <1>2

(* What load puts in memory, and what it writes back.                      *)
LEMMA WhatIsRestored ==
  ASSUME NEW d \in Directory
  PROVE  /\ Restored(d).status = IF d.record.status \in Live
                                   THEN "failed" ELSE d.record.status
         /\ Restored(d).updatedAt = d.record.updatedAt
         /\ OnDisk(Restored(d)).status = Restored(d).status
         /\ OnDisk(Restored(d)).updatedAt = Restored(d).updatedAt
<1>1. d.record \in Record
  BY DEF Directory
<1>2. QED
  BY <1>1 DEF Restored, OnDisk, Record

(* A step that concerns one job, and moves neither the clock nor the       *)
(* process, has only to be right for that job.                             *)
LEMMA OneJob ==
  ASSUME RecordInv, NEW i \in Jobs, todo \subseteq Jobs, Recorded(i)',
         \A j \in Jobs \ {i} :
            /\ mem'[j] = mem[j] /\ dir'[j] = dir[j] /\ held'[j] = held[j]
            /\ run'[j] = run[j] /\ req'[j] = req[j],
         UNCHANGED <<app, clock, sweeper, sweepAt>>,
         \/ todo' = todo /\ (mem'[i] = mem[i] \/ sweeper # "removing")
         \/ todo' = todo \ {i}
  PROVE  RecordInv'
<1>1. ASSUME NEW j \in Jobs, j # i PROVE Recorded(j)'
  BY <1>1
     DEF RecordInv, Recorded, Files, Held, LoadedSoFar, Agree, Dates,
         UnderWay, Expired
<1>2. SweptInv'
  BY DEF RecordInv, SweptInv, Expired
<1>3. QED
  BY <1>1, <1>2 DEF RecordInv

(* A handler takes an upload.                                              *)
LEMMA AcceptKeepsRecords ==
  ASSUME IInv, RecordInv, NEW i \in Jobs, Accept(i)
  PROVE  RecordInv'
<1>1. Standing(i) /\ Recorded(i) /\ todo \subseteq Jobs
  BY JobStands DEF RecordInv
<1>2. TypeOK
  BY DEF IInv
<1>3. req[i] = "none" /\ run[i] = "idle" /\ mem[i].status = "absent"
  BY <1>1 DEF Accept, Standing, InRequest, Uploading, Masking, Up, AppState,
         Stopped
<1>4. /\ req'[i] = "uploading" /\ held'[i].updatedAt = clock
      /\ dir'[i].present /\ dir'[i].input = "partial"
      /\ dir'[i].record = dir[i].record /\ dir'[i].output = dir[i].output
      /\ mem' = mem /\ run' = run
  BY <1>2, <1>3 DEF Accept, TypeOK, StoreTypeOK, ReqTo, BeginInput, Hold,
         Directory, storeVars, slotVars, jobVars, appVars, sweepVars
<1>5. /\ \A j \in Jobs \ {i} :
            /\ mem'[j] = mem[j] /\ dir'[j] = dir[j] /\ held'[j] = held[j]
            /\ run'[j] = run[j] /\ req'[j] = req[j]
      /\ UNCHANGED <<app, clock, sweeper, sweepAt, todo>>
  BY <1>2 DEF Accept, TypeOK, StoreTypeOK, ReqTo, BeginInput, Hold,
         storeVars, slotVars, jobVars, appVars, sweepVars
<1>6. Recorded(i)'
  BY <1>1, <1>3, <1>4, <1>5 DEF Standing, Recorded, Files, Held,
         LoadedSoFar, Agree, Dates, UnderWay, Expired, InRequest, Uploading,
         Masking, Up, AppState, Stopped, Record
<1>7. QED
  BY <1>1, <1>3, <1>4, <1>5, <1>6, OneJob

(* A handler finds the service draining.                                   *)
LEMMA RefuseRunnerKeepsRecords ==
  ASSUME IInv, RecordInv, NEW i \in Jobs, RefuseRunner(i)
  PROVE  RecordInv'
<1>1. Standing(i) /\ Recorded(i) /\ todo \subseteq Jobs
  BY JobStands DEF RecordInv
<1>2. TypeOK
  BY DEF IInv
<1>3. req[i] = "created" /\ run[i] = "idle" /\ mem[i].status = "queued"
  BY <1>1 DEF RefuseRunner, Standing, InRequest, Uploading, Masking, Up,
         AppState, Stopped
<1>4. /\ req'[i] = "refused" /\ held'[i].updatedAt = clock
      /\ held'[i].status = "failed" /\ mem' = mem /\ dir' = dir /\ run' = run
  BY <1>2, <1>3 DEF RefuseRunner, TypeOK, StoreTypeOK, ReqTo, Hold, Ended,
         Record, storeVars, slotVars, jobVars, appVars, sweepVars
<1>5. /\ \A j \in Jobs \ {i} :
            /\ mem'[j] = mem[j] /\ dir'[j] = dir[j] /\ held'[j] = held[j]
            /\ run'[j] = run[j] /\ req'[j] = req[j]
      /\ UNCHANGED <<app, clock, sweeper, sweepAt, todo>>
  BY <1>2 DEF RefuseRunner, TypeOK, StoreTypeOK, ReqTo, Hold, storeVars,
         slotVars, jobVars, appVars, sweepVars
<1>6. Recorded(i)'
  BY <1>1, <1>3, <1>4, <1>5 DEF Standing, Recorded, Files, Held,
         LoadedSoFar, Agree, Dates, UnderWay, Expired, InRequest, Uploading,
         Masking, Up, AppState, Stopped, Record
<1>7. QED
  BY <1>1, <1>3, <1>4, <1>5, <1>6, OneJob

(* It has marked the job.                                                  *)
LEMMA MarkReturnsKeepsRecords ==
  ASSUME IInv, RecordInv, NEW i \in Jobs, MarkReturns(i)
  PROVE  RecordInv'
<1>1. Standing(i) /\ Recorded(i) /\ todo \subseteq Jobs
  BY JobStands DEF RecordInv
<1>2. TypeOK
  BY DEF IInv
<1>3. req[i] = "marking" /\ run[i] = "idle" /\ sweeper # "removing"
      /\ app \in Up
  BY <1>1 DEF MarkReturns, Standing, InRequest, Uploading, Masking, Up,
         AppState, Stopped
<1>4. req'[i] = "answered" /\ mem'[i] = held[i]
      /\ held'[i].updatedAt = 0 /\ run' = run
  BY <1>2, <1>3 DEF MarkReturns, TypeOK, StoreTypeOK, ReqTo, Save, Hold,
         Absent, storeVars, slotVars, jobVars, appVars, sweepVars
<1>5. /\ dir'[i].present = dir[i].present /\ dir'[i].input = dir[i].input
      /\ \/ dir'[i].record = dir[i].record
         \/ /\ dir'[i].record.status = held[i].status
            /\ dir'[i].record.updatedAt = held[i].updatedAt
  BY <1>2, <1>3 DEF MarkReturns, TypeOK, StoreTypeOK, Save, Persist, OnDisk,
         Directory, Record, storeVars, slotVars, jobVars, appVars, sweepVars
<1>6. /\ \A j \in Jobs \ {i} :
            /\ mem'[j] = mem[j] /\ dir'[j] = dir[j] /\ held'[j] = held[j]
            /\ run'[j] = run[j] /\ req'[j] = req[j]
      /\ UNCHANGED <<app, clock, sweeper, sweepAt, todo>>
  BY <1>2 DEF MarkReturns, TypeOK, StoreTypeOK, ReqTo, Save, Persist, Hold,
         storeVars, slotVars, jobVars, appVars, sweepVars
<1>7. Recorded(i)'
  BY <1>1, <1>3, <1>4, <1>5, <1>6 DEF Standing, Recorded, Files, Held,
         LoadedSoFar, Agree, Dates, UnderWay, Expired, InRequest, Uploading,
         Masking, Up, AppState, Stopped, Record, Directory
<1>8. QED
  BY <1>1, <1>3, <1>4, <1>6, <1>7, OneJob

(* A goroutine finds the service draining.                                 *)
LEMMA GiveUpKeepsRecords ==
  ASSUME IInv, RecordInv, NEW i \in Jobs, GiveUp(i)
  PROVE  RecordInv'
<1>1. Standing(i) /\ Recorded(i) /\ todo \subseteq Jobs
  BY JobStands DEF RecordInv
<1>2. TypeOK
  BY DEF IInv
<1>3. run[i] = "giving_up" /\ mem[i].status = "queued" /\ req[i] = "answered"
  BY <1>1 DEF GiveUp, Standing, InRequest, Uploading, Masking, Up, AppState,
         Stopped
<1>4. run'[i] = "saving" /\ held'[i].status = "failed"
      /\ held'[i].updatedAt = clock
      /\ mem' = mem /\ dir' = dir /\ req' = req
  BY <1>2, <1>3 DEF GiveUp, TypeOK, StoreTypeOK, RunTo, Hold, Record, Ended,
         storeVars, slotVars, jobVars, appVars, sweepVars
<1>5. /\ \A j \in Jobs \ {i} :
            /\ mem'[j] = mem[j] /\ dir'[j] = dir[j] /\ held'[j] = held[j]
            /\ run'[j] = run[j] /\ req'[j] = req[j]
      /\ UNCHANGED <<app, clock, sweeper, sweepAt, todo>>
  BY <1>2 DEF GiveUp, TypeOK, StoreTypeOK, RunTo, Hold, storeVars, slotVars,
         jobVars, appVars, sweepVars
<1>6. Recorded(i)'
  BY <1>1, <1>3, <1>4, <1>5 DEF Standing, Recorded, Files, Held,
         LoadedSoFar, Agree, Dates, UnderWay, Expired, InRequest, Uploading,
         Masking, Up, AppState, Stopped, Record
<1>7. QED
  BY <1>1, <1>3, <1>4, <1>5, <1>6, OneJob

(* It has a slot and fetches its job.                                      *)
LEMMA FetchJobKeepsRecords ==
  ASSUME IInv, RecordInv, NEW i \in Jobs, FetchJob(i)
  PROVE  RecordInv'
<1>1. Standing(i) /\ Recorded(i) /\ todo \subseteq Jobs
  BY JobStands DEF RecordInv
<1>2. TypeOK
  BY DEF IInv
<1>3. run[i] = "claimed" /\ mem[i].status = "queued" /\ req[i] = "answered"
  BY <1>1 DEF FetchJob, Standing, InRequest, Uploading, Masking, Up,
         AppState, Stopped
<1>4. run'[i] = "reading" /\ held'[i] = mem[i]
      /\ mem' = mem /\ dir' = dir /\ req' = req
  BY <1>2, <1>3 DEF FetchJob, TypeOK, StoreTypeOK, RunTo, Hold, Record,
         storeVars, slotVars, jobVars, appVars, sweepVars
<1>5. /\ \A j \in Jobs \ {i} :
            /\ mem'[j] = mem[j] /\ dir'[j] = dir[j] /\ held'[j] = held[j]
            /\ run'[j] = run[j] /\ req'[j] = req[j]
      /\ UNCHANGED <<app, clock, sweeper, sweepAt, todo>>
  BY <1>2 DEF FetchJob, TypeOK, StoreTypeOK, RunTo, Hold, storeVars,
         slotVars, jobVars, appVars, sweepVars
<1>6. Recorded(i)'
  BY <1>1, <1>3, <1>4, <1>5 DEF Standing, Recorded, Files, Held,
         LoadedSoFar, Agree, Dates, UnderWay, Expired, InRequest, Uploading,
         Masking, Up, AppState, Stopped, Record
<1>7. QED
  BY <1>1, <1>3, <1>4, <1>5, <1>6, OneJob

(* It has read the upload.                                                 *)
LEMMA ReadInputKeepsRecords ==
  ASSUME IInv, RecordInv, NEW i \in Jobs, ReadInput(i)
  PROVE  RecordInv'
<1>1. Standing(i) /\ Recorded(i) /\ todo \subseteq Jobs
  BY JobStands DEF RecordInv
<1>2. TypeOK
  BY DEF IInv
<1>3. run[i] = "reading" /\ req[i] = "answered"
  BY <1>1 DEF ReadInput, Standing, InRequest, Uploading, Masking, Up,
         AppState, Stopped
<1>4. run'[i] = "saving" /\ held'[i].updatedAt = clock
      /\ held'[i].status \in {"running", "failed"}
      /\ mem' = mem /\ dir' = dir /\ req' = req
  BY <1>2, <1>3 DEF ReadInput, TypeOK, StoreTypeOK, RunTo, Hold, Record,
         Ended, storeVars, slotVars, jobVars, appVars, sweepVars
<1>5. /\ \A j \in Jobs \ {i} :
            /\ mem'[j] = mem[j] /\ dir'[j] = dir[j] /\ held'[j] = held[j]
            /\ run'[j] = run[j] /\ req'[j] = req[j]
      /\ UNCHANGED <<app, clock, sweeper, sweepAt, todo>>
  BY <1>2 DEF ReadInput, TypeOK, StoreTypeOK, RunTo, Hold, storeVars,
         slotVars, jobVars, appVars, sweepVars
<1>6. Recorded(i)'
  BY <1>1, <1>3, <1>4, <1>5 DEF Standing, Recorded, Files, Held,
         LoadedSoFar, Agree, Dates, UnderWay, Expired, InRequest, Uploading,
         Masking, Up, AppState, Stopped, Record
<1>7. QED
  BY <1>1, <1>3, <1>4, <1>5, <1>6, OneJob

(* Masking has failed.                                                     *)
LEMMA ProcessFailsKeepsRecords ==
  ASSUME IInv, RecordInv, NEW i \in Jobs, ProcessFails(i)
  PROVE  RecordInv'
<1>1. Standing(i) /\ Recorded(i) /\ todo \subseteq Jobs
  BY JobStands DEF RecordInv
<1>2. TypeOK
  BY DEF IInv
<1>3. run[i] = "processing" /\ req[i] = "answered"
  BY <1>1 DEF ProcessFails, Standing, InRequest, Uploading, Masking, Up,
         AppState, Stopped
<1>4. run'[i] = "saving" /\ held'[i].updatedAt = clock
      /\ held'[i].status = "failed"
      /\ mem' = mem /\ dir' = dir /\ req' = req
  BY <1>2, <1>3 DEF ProcessFails, TypeOK, StoreTypeOK, RunTo, Hold, Record,
         Processed, storeVars, slotVars, jobVars, appVars, sweepVars
<1>5. /\ \A j \in Jobs \ {i} :
            /\ mem'[j] = mem[j] /\ dir'[j] = dir[j] /\ held'[j] = held[j]
            /\ run'[j] = run[j] /\ req'[j] = req[j]
      /\ UNCHANGED <<app, clock, sweeper, sweepAt, todo>>
  BY <1>2 DEF ProcessFails, TypeOK, StoreTypeOK, RunTo, Hold, storeVars,
         slotVars, jobVars, appVars, sweepVars
<1>6. Recorded(i)'
  BY <1>1, <1>3, <1>4, <1>5 DEF Standing, Recorded, Files, Held,
         LoadedSoFar, Agree, Dates, UnderWay, Expired, InRequest, Uploading,
         Masking, Up, AppState, Stopped, Record
<1>7. QED
  BY <1>1, <1>3, <1>4, <1>5, <1>6, OneJob

(* The result could not be written.                                        *)
LEMMA OutputFailsKeepsRecords ==
  ASSUME IInv, RecordInv, NEW i \in Jobs, OutputFails(i)
  PROVE  RecordInv'
<1>1. Standing(i) /\ Recorded(i) /\ todo \subseteq Jobs
  BY JobStands DEF RecordInv
<1>2. TypeOK
  BY DEF IInv
<1>3. run[i] \in {"output", "writing"} /\ req[i] = "answered"
  BY <1>1 DEF OutputFails, Standing, InRequest, Uploading, Masking, Up,
         AppState, Stopped
<1>4. run'[i] = "saving" /\ held'[i].status = "failed"
      /\ held'[i].updatedAt = held[i].updatedAt
      /\ mem' = mem /\ dir' = dir /\ req' = req
  BY <1>2, <1>3 DEF OutputFails, TypeOK, StoreTypeOK, RunTo, Hold, Record,
         storeVars, slotVars, jobVars, appVars, sweepVars
<1>5. /\ \A j \in Jobs \ {i} :
            /\ mem'[j] = mem[j] /\ dir'[j] = dir[j] /\ held'[j] = held[j]
            /\ run'[j] = run[j] /\ req'[j] = req[j]
      /\ UNCHANGED <<app, clock, sweeper, sweepAt, todo>>
  BY <1>2 DEF OutputFails, TypeOK, StoreTypeOK, RunTo, Hold, storeVars,
         slotVars, jobVars, appVars, sweepVars
<1>6. Recorded(i)'
  BY <1>1, <1>3, <1>4, <1>5 DEF Standing, Recorded, Files, Held,
         LoadedSoFar, Agree, Dates, UnderWay, Expired, InRequest, Uploading,
         Masking, Up, AppState, Stopped, Record
<1>7. QED
  BY <1>1, <1>3, <1>4, <1>5, <1>6, OneJob

(* The result is opened.                                                   *)
LEMMA OutputOpenedKeepsRecords ==
  ASSUME IInv, RecordInv, NEW i \in Jobs, OutputOpened(i)
  PROVE  RecordInv'
<1>1. Standing(i) /\ Recorded(i) /\ todo \subseteq Jobs
  BY JobStands DEF RecordInv
<1>2. TypeOK
  BY DEF IInv
<1>3. run[i] = "output" /\ req[i] = "answered"
  BY <1>1 DEF OutputOpened, Standing, InRequest, Uploading, Masking, Up,
         AppState, Stopped
<1>4. run'[i] = "writing" /\ dir'[i].present
      /\ dir'[i].input = dir[i].input /\ dir'[i].record = dir[i].record
      /\ mem' = mem /\ held' = held /\ req' = req
  BY <1>2, <1>3 DEF OutputOpened, TypeOK, StoreTypeOK, RunTo, BeginOutput,
         Directory, storeVars, slotVars, jobVars, appVars, sweepVars
<1>5. /\ \A j \in Jobs \ {i} :
            /\ mem'[j] = mem[j] /\ dir'[j] = dir[j] /\ held'[j] = held[j]
            /\ run'[j] = run[j] /\ req'[j] = req[j]
      /\ UNCHANGED <<app, clock, sweeper, sweepAt, todo>>
  BY <1>2 DEF OutputOpened, TypeOK, StoreTypeOK, RunTo, BeginOutput,
         storeVars, slotVars, jobVars, appVars, sweepVars
<1>6. Recorded(i)'
  BY <1>1, <1>3, <1>4, <1>5 DEF Standing, Recorded, Files, Held,
         LoadedSoFar, Agree, Dates, UnderWay, Expired, InRequest, Uploading,
         Masking, Up, AppState, Stopped, Record
<1>7. QED
  BY <1>1, <1>3, <1>4, <1>5, <1>6, OneJob

(* It is written.                                                          *)
LEMMA OutputWrittenKeepsRecords ==
  ASSUME IInv, RecordInv, NEW i \in Jobs, OutputWritten(i)
  PROVE  RecordInv'
<1>1. Standing(i) /\ Recorded(i) /\ todo \subseteq Jobs
  BY JobStands DEF RecordInv
<1>2. TypeOK
  BY DEF IInv
<1>3. run[i] = "writing" /\ req[i] = "answered"
  BY <1>1 DEF OutputWritten, Standing, InRequest, Uploading, Masking, Up,
         AppState, Stopped
<1>4. run'[i] = "saving" /\ dir'[i].present = dir[i].present
      /\ dir'[i].output = "whole"
      /\ dir'[i].input = dir[i].input /\ dir'[i].record = dir[i].record
      /\ held'[i].status = held[i].status /\ held'[i].output
      /\ held'[i].updatedAt = held[i].updatedAt
      /\ mem' = mem /\ req' = req
  BY <1>2, <1>3 DEF OutputWritten, TypeOK, StoreTypeOK, RunTo, EndOutput,
         Directory, Record, storeVars, slotVars, jobVars, appVars, sweepVars
<1>5. /\ \A j \in Jobs \ {i} :
            /\ mem'[j] = mem[j] /\ dir'[j] = dir[j] /\ held'[j] = held[j]
            /\ run'[j] = run[j] /\ req'[j] = req[j]
      /\ UNCHANGED <<app, clock, sweeper, sweepAt, todo>>
  BY <1>2 DEF OutputWritten, TypeOK, StoreTypeOK, RunTo, EndOutput,
         storeVars, slotVars, jobVars, appVars, sweepVars
<1>6. Recorded(i)'
  BY <1>1, <1>3, <1>4, <1>5 DEF Standing, Recorded, Files, Held,
         LoadedSoFar, Agree, Dates, UnderWay, Expired, InRequest, Uploading,
         Masking, Up, AppState, Stopped, Record
<1>7. QED
  BY <1>1, <1>3, <1>4, <1>5, <1>6, OneJob

(* A goroutine has saved its record.                                       *)
LEMMA SaveReturnsKeepsRecords ==
  ASSUME IInv, RecordInv, NEW i \in Jobs, SaveReturns(i)
  PROVE  RecordInv'
<1>1. Standing(i) /\ Recorded(i) /\ todo \subseteq Jobs
  BY JobStands DEF RecordInv
<1>2. TypeOK
  BY DEF IInv
<1>3. run[i] = "persisting" /\ req[i] = "answered" /\ sweeper # "removing"
      /\ app \in Up
  BY <1>1 DEF SaveReturns, Standing, InRequest, Uploading, Masking, Up,
         AppState, Stopped
<1>4. run'[i] = (IF held[i].status = "running" THEN "processing"
                    ELSE IF i \in slots THEN "releasing" ELSE "idle")
      /\ mem'[i] = held[i] /\ req' = req
      /\ held'[i] = IF held[i].status = "running" THEN held[i] ELSE Absent
  BY <1>2, <1>3 DEF SaveReturns, TypeOK, StoreTypeOK, RunTo, AfterSave,
         Save, Hold, storeVars, slotVars, jobVars, appVars, sweepVars
<1>5. /\ dir'[i].present = dir[i].present /\ dir'[i].input = dir[i].input
      /\ dir'[i].output = dir[i].output
      /\ \/ dir'[i].record = dir[i].record
         \/ /\ dir'[i].record.status = held[i].status
            /\ dir'[i].record.updatedAt = held[i].updatedAt
  BY <1>2, <1>3 DEF SaveReturns, TypeOK, StoreTypeOK, Save, Persist, OnDisk,
         Directory, Record, storeVars, slotVars, jobVars, appVars, sweepVars
<1>6. /\ \A j \in Jobs \ {i} :
            /\ mem'[j] = mem[j] /\ dir'[j] = dir[j] /\ held'[j] = held[j]
            /\ run'[j] = run[j] /\ req'[j] = req[j]
      /\ UNCHANGED <<app, clock, sweeper, sweepAt, todo>>
  BY <1>2 DEF SaveReturns, TypeOK, StoreTypeOK, RunTo, Save, Persist, Hold,
         storeVars, slotVars, jobVars, appVars, sweepVars
<1>7. Recorded(i)'
  <2>1. Files(i)'
    BY <1>1, <1>3, <1>4, <1>5, <1>6 DEF Standing, Recorded, Files, Held,
         LoadedSoFar, Agree, Dates, UnderWay, Expired, InRequest, Uploading,
         Masking, Up, AppState, Stopped, Record, Directory, Absent
  <2>2. Held(i)'
    BY <1>1, <1>3, <1>4, <1>5, <1>6 DEF Standing, Recorded, Files, Held,
         LoadedSoFar, Agree, Dates, UnderWay, Expired, InRequest, Uploading,
         Masking, Up, AppState, Stopped, Record, Directory, Absent
  <2>3. LoadedSoFar(i)'
    BY <1>1, <1>3, <1>4, <1>5, <1>6 DEF Standing, Recorded, Files, Held,
         LoadedSoFar, Agree, Dates, UnderWay, Expired, InRequest, Uploading,
         Masking, Up, AppState, Stopped, Record, Directory, Absent
  <2>4. Agree(i)'
    <3>1. /\ mem[i].status \in Live
          /\ dir[i].record.status \notin {"absent", "completed"}
          /\ dir[i].record.updatedAt <= held[i].updatedAt
      <4>1. mem[i].status \in Live /\ ~Expired(mem[i], clock) /\ UnderWay(i)
        BY <1>1, <1>3 DEF Standing, UnderWay, Expired
      <4>2. dir[i].record.status \notin {"absent", "completed"}
        BY <1>1, <1>3, <4>1 DEF Recorded, Agree
      <4>3. /\ dir[i].record.updatedAt <= mem[i].updatedAt
            /\ mem[i].updatedAt <= held[i].updatedAt
        BY <1>1, <1>3, <4>1, <4>2 DEF Recorded, Agree, Dates
      <4>4. /\ dir[i].record.updatedAt \in Nat /\ mem[i].updatedAt \in Nat
            /\ held[i].updatedAt \in Nat
        BY <1>1 DEF Standing, Directory, Record
      <4>5. QED
        BY <4>1, <4>2, <4>3, <4>4
    <3>2. held[i].status # "completed" => dir'[i].record.status # "completed"
      BY <1>5, <3>1
    <3>3. held[i].status = "completed" => ~UnderWay(i)'
      BY <1>3, <1>4 DEF UnderWay, InRequest, Uploading
    <3>4. /\ mem'[i].status = held[i].status
          /\ mem'[i].updatedAt = held[i].updatedAt
          /\ dir'[i].record.status # "absent"
          /\ dir'[i].record.updatedAt <= held[i].updatedAt
          /\ dir'[i].record.status = "completed" =>
                /\ held[i].status = "completed"
                /\ dir'[i].record.updatedAt = held[i].updatedAt
      <4>1. held[i].updatedAt \in Nat /\ held[i].status # "absent"
        BY <1>1, <1>3 DEF Standing, Record, Recorded, Held
      <4>2. QED
        BY <1>4, <1>5, <3>1, <4>1
    <3>5. QED
      BY <3>2, <3>3, <3>4 DEF Agree
  <2>5. Dates(i)'
    BY <1>1, <1>3, <1>4, <1>5, <1>6 DEF Standing, Recorded, Files, Held,
         LoadedSoFar, Agree, Dates, UnderWay, Expired, InRequest, Uploading,
         Masking, Up, AppState, Stopped, Record, Directory, Absent
  <2>6. QED
    BY <2>1, <2>2, <2>3, <2>4, <2>5 DEF Recorded
<1>8. QED
  BY <1>1, <1>3, <1>4, <1>6, <1>7, OneJob

(* Create has written the first record, or has failed to.                  *)
LEMMA CreateReturnsKeepsRecords ==
  ASSUME IInv, RecordInv, NEW i \in Jobs, CreateReturns(i)
  PROVE  RecordInv'
<1>1. Standing(i) /\ Recorded(i) /\ todo \subseteq Jobs
  BY JobStands DEF RecordInv
<1>2. TypeOK
  BY DEF IInv
<1>3. /\ req[i] = "creating" /\ run[i] = "idle" /\ mem[i].status = "absent"
      /\ held[i].status = "queued" /\ dir[i].input = "whole" /\ app \in Up
      /\ sweeper # "removing"
  BY <1>1 DEF CreateReturns, Standing, InRequest, Uploading
<1>4. UNCHANGED <<run, app, clock, sweeper, sweepAt, todo>>
  BY DEF CreateReturns, slotVars, appVars, sweepVars
<1>5. CASE CreateSucceeds(i, held[i]) /\ ReqTo(i, "created") /\ UNCHANGED held
  <2>1. /\ req'[i] = "created" /\ mem'[i] = held[i] /\ held' = held
        /\ dir'[i].present = dir[i].present /\ dir'[i].input = "whole"
        /\ dir'[i].record.status = "queued"
        /\ dir'[i].record.updatedAt = held[i].updatedAt
    BY <1>2, <1>3, <1>5
       DEF TypeOK, StoreTypeOK, CreateSucceeds, ReqTo, Persist, OnDisk,
           Directory, Record
  <2>2. \A j \in Jobs \ {i} :
           /\ mem'[j] = mem[j] /\ dir'[j] = dir[j] /\ held'[j] = held[j]
           /\ run'[j] = run[j] /\ req'[j] = req[j]
    BY <1>2, <1>4, <1>5 DEF TypeOK, StoreTypeOK, CreateSucceeds, ReqTo, Persist
  <2>3. Recorded(i)'
    BY <1>1, <1>3, <1>4, <2>1
       DEF Recorded, Files, Held, LoadedSoFar, Agree, Dates, UnderWay,
           Expired, Standing, InRequest, Uploading, Record, Up, AppState
  <2>4. QED
    BY <1>1, <1>3, <1>4, <2>2, <2>3, OneJob
<1>6. CASE CreateFails(i) /\ ReqTo(i, "over") /\ Hold(i, Absent)
  <2>1. PICK d \in Remains(dir[i]) : dir' = [dir EXCEPT ![i] = d]
    BY <1>6 DEF CreateFails
  <2>2. \/ d.present /\ d.record \in {dir[i].record, Absent}
        \/ d.input = "none" /\ d.record = Absent
    BY RemainsAreEmptied
  <2>3. /\ req'[i] = "over" /\ held'[i] = Absent /\ mem' = mem
        /\ dir'[i] = d
    BY <1>2, <1>6, <2>1 DEF TypeOK, StoreTypeOK, CreateFails, ReqTo, Hold
  <2>4. \A j \in Jobs \ {i} :
           /\ mem'[j] = mem[j] /\ dir'[j] = dir[j] /\ held'[j] = held[j]
           /\ run'[j] = run[j] /\ req'[j] = req[j]
    BY <1>2, <1>4, <1>6, <2>1, <2>3 DEF TypeOK, StoreTypeOK, ReqTo, Hold
  <2>5. Recorded(i)'
    BY <1>1, <1>3, <1>4, <2>2, <2>3
       DEF Recorded, Files, Held, LoadedSoFar, Agree, Dates, UnderWay,
           Expired, Standing, InRequest, Uploading, Record, Absent, Up,
           AppState
  <2>6. QED
    BY <1>1, <1>3, <1>4, <2>3, <2>4, <2>5, OneJob
<1>7. QED
  BY <1>5, <1>6 DEF CreateReturns

(* A goroutine gives its slot back, and hands it to another one.           *)
LEMMA ReleaseSlotKeepsRecords ==
  ASSUME IInv, RecordInv, NEW i \in Jobs, ReleaseSlot(i)
  PROVE  RecordInv'
<1>1. Standing(i) /\ Recorded(i) /\ todo \subseteq Jobs
  BY JobStands DEF RecordInv
<1>2. TypeOK
  BY DEF IInv
<1>3. /\ run[i] = "releasing" /\ req[i] = "answered"
      /\ UNCHANGED <<mem, dir, held, req, app, clock, sweeper, sweepAt, todo>>
  BY <1>1 DEF ReleaseSlot, Standing, storeVars, appVars, sweepVars
<1>4. SweptInv'
  BY <1>3 DEF RecordInv, SweptInv, Expired
<1>5. ASSUME NEW j \in Jobs PROVE Recorded(j)'
  <2>1. Recorded(j) /\ Standing(j)
    BY JobStands DEF RecordInv
  <2>2. \/ run'[j] = run[j]
        \/ run[j] = "releasing" /\ run'[j] = "idle"
        \/ run[j] = "parked" /\ run'[j] = "claimed"
    <3>1. CASE waiting = <<>>
      BY <1>2, <1>3, <3>1 DEF TypeOK, ReleaseSlot, RunTo
    <3>2. CASE waiting # <<>>
      <4>1. /\ Head(waiting) = waiting[1] /\ Len(waiting) \in Nat \ {0}
            /\ run[Head(waiting)] = "parked"
            /\ run' = [run EXCEPT ![i] = "idle", ![Head(waiting)] = "claimed"]
        BY <1>2, <3>2 DEF IInv, TypeOK, QueueInv, ReleaseSlot
      <4>2. QED
        BY <1>2, <1>3, <4>1 DEF TypeOK
    <3>3. QED
      BY <3>1, <3>2
  <2>3. CASE run'[j] = run[j]
    BY <1>3, <2>1, <2>3
       DEF Recorded, Files, Held, LoadedSoFar, Agree, Dates, UnderWay, Expired
  <2>4. CASE run[j] = "releasing" /\ run'[j] = "idle"
    BY <1>3, <2>1, <2>4
       DEF Recorded, Files, Held, LoadedSoFar, Agree, Dates, UnderWay,
           Expired, Standing, InRequest, Uploading
  <2>5. CASE run[j] = "parked" /\ run'[j] = "claimed"
    BY <1>3, <2>1, <2>5
       DEF Recorded, Files, Held, LoadedSoFar, Agree, Dates, UnderWay,
           Expired, Standing, InRequest, Uploading
  <2>6. QED
    BY <2>2, <2>3, <2>4, <2>5
<1>6. QED
  BY <1>4, <1>5 DEF RecordInv

(* The sweeper unlinks one file of an expired job.                         *)
LEMMA SweepUnlinksKeepsRecords ==
  ASSUME IInv, RecordInv, NEW i \in Jobs, SweepUnlinks(i)
  PROVE  RecordInv'
<1>1. Standing(i) /\ Recorded(i) /\ todo \subseteq Jobs
  BY JobStands DEF RecordInv
<1>2. TypeOK
  BY DEF IInv
<1>3. /\ sweeper = "removing" /\ i \in todo
      /\ UNCHANGED <<mem, held, run, req, app, clock, sweeper, sweepAt, todo>>
  BY DEF SweepUnlinks, jobVars, appVars, sweepVars
<1>4. /\ app \in Up /\ run[i] \in {"idle", "releasing"}
      /\ req[i] \notin {"none", "uploading", "refused", "marking"}
      /\ mem[i].status \in Terminal
  BY <1>1, <1>3 DEF Standing, Recorded, Files, RunnerState, Masking, Uploading
<1>5. Expired(mem[i], clock)
  BY <1>1, <1>2, <1>3, RetentionAssumption
     DEF RecordInv, SweptInv, Expired, Standing, Record, TypeOK
<1>6. /\ dir'[i].present = dir[i].present
      /\ dir'[i].input # "none" => dir[i].input # "none"
      /\ dir'[i].record = dir[i].record \/ dir'[i].record = Absent
      /\ \A j \in Jobs \ {i} : dir'[j] = dir[j]
  BY <1>2 DEF SweepUnlinks, UnlinkOne, TypeOK, StoreTypeOK, Directory
<1>7. Recorded(i)'
  BY <1>1, <1>3, <1>4, <1>5, <1>6
     DEF Recorded, Files, Held, LoadedSoFar, Agree, Dates, UnderWay, Expired,
         Standing, Record, Absent, Up, AppState
<1>8. QED
  BY <1>1, <1>3, <1>6, <1>7, OneJob

(* load reads one directory.                                               *)
LEMMA LoadEntryKeepsRecords ==
  ASSUME IInv, RecordInv, NEW i \in Jobs, LoadEntry(i)
  PROVE  RecordInv'
<1>1. Standing(i) /\ Recorded(i) /\ todo \subseteq Jobs
  BY JobStands DEF RecordInv
<1>2. TypeOK
  BY DEF IInv
<1>3. /\ app = "loading" /\ app \notin Up /\ i \in todo /\ todo' = todo \ {i}
      /\ UNCHANGED <<held, run, req, app, clock, sweeper, sweepAt>>
  BY DEF LoadEntry, jobVars, appVars, Up
<1>4. run[i] = "idle" /\ req[i] \notin InRequest
  BY <1>1, <1>3 DEF Standing
<1>5. CASE RemoveOrphan(i)
  <2>1. PICK d \in Remains(dir[i]) : dir' = [dir EXCEPT ![i] = d]
    BY <1>5 DEF RemoveOrphan
  <2>2. \/ d.present /\ d.record \in {dir[i].record, Absent}
        \/ d.input = "none" /\ d.record = Absent
    BY RemainsAreEmptied
  <2>3. /\ dir'[i] = d /\ mem' = mem /\ dir[i].record.status = "absent"
        /\ \A j \in Jobs \ {i} : dir'[j] = dir[j]
    BY <1>2, <1>5, <2>1 DEF TypeOK, StoreTypeOK, RemoveOrphan
  <2>4. Recorded(i)'
    <3>1. Files(i)'
      BY <1>1, <1>3, <1>4, <2>2, <2>3
         DEF Recorded, Files, LoadedSoFar, UnderWay, Expired, Standing, InRequest,
             Uploading, Absent
    <3>2. Held(i)'
      BY <1>1, <1>3, <1>4, <2>2, <2>3
         DEF Recorded, Held, LoadedSoFar, UnderWay, Expired, Standing, InRequest,
             Uploading, Absent
    <3>3. LoadedSoFar(i)'
      BY <1>1, <1>3, <1>4, <2>2, <2>3
         DEF Recorded, LoadedSoFar, UnderWay, Expired, Standing, InRequest,
             Uploading, Absent
    <3>4. Agree(i)'
      BY <1>1, <1>3, <1>4, <2>2, <2>3
         DEF Recorded, Agree, LoadedSoFar, UnderWay, Expired, Standing, InRequest,
             Uploading, Absent
    <3>5. Dates(i)'
      BY <1>1, <1>3, <1>4, <2>2, <2>3
         DEF Recorded, Dates, LoadedSoFar, UnderWay, Expired, Standing, InRequest,
             Uploading, Absent
    <3>6. QED
      BY <3>1, <3>2, <3>3, <3>4, <3>5 DEF Recorded
  <2>5. QED
    BY <1>1, <1>3, <2>3, <2>4, OneJob
<1>6. CASE RestoreFinished(i) \/ RestoreInterrupted(i)
  <2>1. /\ dir[i].record.status # "absent"
        /\ mem'[i].status = IF dir[i].record.status \in Live
                              THEN "failed" ELSE dir[i].record.status
        /\ mem'[i].updatedAt = dir[i].record.updatedAt
        /\ \A j \in Jobs \ {i} : mem'[j] = mem[j]
    BY <1>2, <1>6, WhatIsRestored
       DEF TypeOK, StoreTypeOK, RestoreFinished, RestoreInterrupted
  <2>2. /\ dir'[i].present = dir[i].present /\ dir'[i].input = dir[i].input
        /\ \/ dir'[i].record = dir[i].record
           \/ /\ dir[i].record.status \in Live
              /\ dir'[i].record.status = "failed"
              /\ dir'[i].record.updatedAt = dir[i].record.updatedAt
        /\ \A j \in Jobs \ {i} : dir'[j] = dir[j]
    BY <1>2, <1>6, WhatIsRestored
       DEF TypeOK, StoreTypeOK, RestoreFinished, RestoreInterrupted,
           Persist, Directory
  <2>3. Recorded(i)'
    BY <1>1, <1>3, <1>4, <2>1, <2>2
       DEF Recorded, Files, Held, LoadedSoFar, Agree, Dates, UnderWay,
           Expired, Standing, InRequest, Directory, Record
  <2>4. QED
    BY <1>1, <1>3, <2>1, <2>2, <2>3, OneJob
<1>7. QED
  BY <1>5, <1>6 DEF LoadEntry

(* Time passes.                                                            *)
LEMMA TickKeepsRecords ==
  ASSUME IInv, RecordInv, Tick
  PROVE  RecordInv'
<1>1. /\ clock' = clock + 1 /\ clock \in Nat /\ sweepAt \in Nat
      /\ UNCHANGED <<mem, dir, held, run, req, app, sweeper, sweepAt, todo>>
  BY DEF Tick, IInv, TypeOK, StoreTypeOK, storeVars, jobVars, appVars, sweepVars
<1>2. SweptInv'
  BY <1>1 DEF RecordInv, SweptInv, Expired
<1>3. ASSUME NEW j \in Jobs PROVE Recorded(j)'
  <2>1. Recorded(j) /\ Standing(j)
    BY JobStands DEF RecordInv
  <2>2. Expired(mem[j], clock) => Expired(mem[j], clock')
    BY <1>1, <2>1, RetentionAssumption DEF Expired, Standing, Record
  <2>3. Agree(j)'
    BY <1>1, <2>1, <2>2 DEF Recorded, Agree, UnderWay
  <2>4. Dates(j)'
    BY <1>1, <2>1 DEF Recorded, Dates, Standing, Record, Directory
  <2>5. QED
    BY <1>1, <2>1, <2>3, <2>4 DEF Recorded, Files, Held, LoadedSoFar
<1>4. QED
  BY <1>2, <1>3 DEF RecordInv

(* The process ends: what it had in memory is gone.                        *)
LEMMA DieKeepsRecords ==
  ASSUME IInv, RecordInv, Die
  PROVE  RecordInv'
<1> USE JobsAssumption, RetentionAssumption
        DEF RecordInv, Recorded, Files, Held, LoadedSoFar, Agree, Dates,
        SweptInv, UnderWay, IInv, TypeOK, StoreTypeOK, LockInv, LifeInv,
        SweepInv, RequestInv, WorkInv, InRequest, Uploading, Masking, Up,
        AppState, Stopped, storeVars, slotVars, jobVars, appVars, sweepVars,
        Record, Expired
<1>1. QED
  BY DEF Die, Absent

(* A step of a handler.                                                    *)
LEMMA RequestKeepsRecords ==
  ASSUME IInv, RecordInv, NEW i \in Jobs, Accept(i) \/ RequestStep(i)
  PROVE  RecordInv'
<1> USE JobsAssumption, RetentionAssumption
        DEF RecordInv, Recorded, Files, Held, LoadedSoFar, Agree, Dates,
        SweptInv, UnderWay, IInv, TypeOK, StoreTypeOK, LockInv, LifeInv,
        SweepInv, RequestInv, WorkInv, InRequest, Uploading, Masking, Up,
        AppState, Stopped, storeVars, slotVars, jobVars, appVars, sweepVars,
        Record, Expired
<1>1. CASE Accept(i)
  BY <1>1, AcceptKeepsRecords
<1>2. CASE InputWritten(i)
  BY <1>2 DEF InputWritten, ReqTo, EndInput, Directory
<1>3. CASE InputFails(i)
  BY <1>3 DEF InputFails, ReqTo, Hold, Absent
<1>4. CASE CreateLocks(i)
  BY <1>4 DEF CreateLocks, ReqTo, Lock, Stage, Directory
<1>5. CASE CreateReturns(i)
  BY <1>5, CreateReturnsKeepsRecords
<1>6. CASE StartRunner(i)
  BY <1>6 DEF StartRunner, ReqTo, RunTo, Hold, Absent
<1>7. CASE RefuseRunner(i)
  BY <1>7, RefuseRunnerKeepsRecords
<1>8. CASE MarkLocks(i)
  BY <1>8 DEF MarkLocks, ReqTo, Lock, Stage, Directory
<1>9. CASE MarkReturns(i)
  BY <1>9, MarkReturnsKeepsRecords
<1>10. QED
  BY <1>1, <1>2, <1>3, <1>4, <1>5, <1>6, <1>7, <1>8, <1>9
     DEF RequestStep

(* A step of a goroutine.                                                  *)
LEMMA RunnerKeepsRecords ==
  ASSUME IInv, RecordInv, NEW i \in Jobs, RunnerStep(i)
  PROVE  RecordInv'
<1> USE JobsAssumption, RetentionAssumption
        DEF RecordInv, Recorded, Files, Held, LoadedSoFar, Agree, Dates,
        SweptInv, UnderWay, IInv, TypeOK, StoreTypeOK, LockInv, LifeInv,
        SweepInv, RequestInv, WorkInv, InRequest, Uploading, Masking, Up,
        AppState, Stopped, storeVars, slotVars, jobVars, appVars, sweepVars,
        Record, Expired
<1>1. CASE CheckDraining(i)
  BY <1>1 DEF CheckDraining, RunTo
<1>2. CASE SelectSlot(i)
  BY <1>2 DEF SelectSlot, RunTo
<1>3. CASE SelectDraining(i)
  BY <1>3 DEF SelectDraining, RunTo
<1>4. CASE Park(i)
  BY <1>4 DEF Park, RunTo
<1>5. CASE GiveUp(i)
  BY <1>5, GiveUpKeepsRecords
<1>6. CASE FetchJob(i)
  BY <1>6, FetchJobKeepsRecords
<1>7. CASE ReadInput(i)
  BY <1>7, ReadInputKeepsRecords
<1>8. CASE SaveLocks(i)
  BY <1>8 DEF SaveLocks, RunTo, Lock, Stage, Directory
<1>9. CASE SaveReturns(i)
  BY <1>9, SaveReturnsKeepsRecords
<1>10. CASE ProcessSucceeds(i)
  BY <1>10 DEF ProcessSucceeds, RunTo, Hold, Processed
<1>11. CASE ProcessFails(i)
  BY <1>11, ProcessFailsKeepsRecords
<1>12. CASE OutputOpened(i)
  BY <1>12, OutputOpenedKeepsRecords
<1>13. CASE OutputWritten(i)
  BY <1>13, OutputWrittenKeepsRecords
<1>14. CASE OutputFails(i)
  BY <1>14, OutputFailsKeepsRecords
<1>15. CASE ReleaseSlot(i)
  BY <1>15, ReleaseSlotKeepsRecords
<1>16. QED
  BY <1>1, <1>2, <1>3, <1>4, <1>5, <1>6, <1>7, <1>8, <1>9, <1>10, <1>11,
         <1>12, <1>13, <1>14, <1>15
     DEF RunnerStep

(* A step of the sweeper.                                                  *)
LEMMA SweeperKeepsRecords ==
  ASSUME IInv, RecordInv, SweeperStep
  PROVE  RecordInv'
<1> USE JobsAssumption, RetentionAssumption
        DEF RecordInv, Recorded, Files, Held, LoadedSoFar, Agree, Dates,
        SweptInv, UnderWay, IInv, TypeOK, StoreTypeOK, LockInv, LifeInv,
        SweepInv, RequestInv, WorkInv, InRequest, Uploading, Masking, Up,
        AppState, Stopped, storeVars, slotVars, jobVars, appVars, sweepVars,
        Record, Expired
<1>1. CASE BeginSweep
  BY <1>1 DEF BeginSweep
<1>2. CASE SweepLocks
  BY <1>2 DEF SweepLocks, Lock, ExpiredJobs
<1>3. CASE \E i \in Jobs : SweepUnlinks(i)
  BY <1>3, SweepUnlinksKeepsRecords
<1>4. CASE \E i \in Jobs : SweepDeletes(i)
  BY <1>4 DEF SweepDeletes, DeleteJob, NoDir, Absent, Directory
<1>5. CASE \E i \in Jobs : SweepSkips(i)
  BY <1>5 DEF SweepSkips
<1>6. CASE EndSweep
  BY <1>6 DEF EndSweep, Unlock
<1>7. CASE StopSweeper
  BY <1>7 DEF StopSweeper
<1>8. QED
  BY <1>1, <1>2, <1>3, <1>4, <1>5, <1>6, <1>7
     DEF SweeperStep, SweepJob

(* A step of the process.                                                  *)
LEMMA ProcessKeepsRecords ==
  ASSUME IInv, RecordInv, Boot \/ ServeStep \/ Signal \/ Deadline \/ Crash \/ Tick
  PROVE  RecordInv'
<1> USE JobsAssumption, RetentionAssumption
        DEF RecordInv, Recorded, Files, Held, LoadedSoFar, Agree, Dates,
        SweptInv, UnderWay, IInv, TypeOK, StoreTypeOK, LockInv, LifeInv,
        SweepInv, RequestInv, WorkInv, InRequest, Uploading, Masking, Up,
        AppState, Stopped, storeVars, slotVars, jobVars, appVars, sweepVars,
        Record, Expired
<1>1. CASE Boot
  BY <1>1 DEF Boot, Lock, Directory
<1>2. CASE \E i \in Jobs : LoadEntry(i)
  BY <1>2, LoadEntryKeepsRecords
<1>3. CASE Loaded
  BY <1>3 DEF Loaded, Unlock
<1>4. CASE Signal
  BY <1>4 DEF Signal
<1>5. CASE Deadline
  BY <1>5 DEF Deadline
<1>6. CASE CloseDraining
  BY <1>6 DEF CloseDraining
<1>7. CASE RunnersDone
  BY <1>7 DEF RunnersDone
<1>8. CASE GiveUpWaiting
  BY <1>8 DEF GiveUpWaiting
<1>9. CASE Exit
  BY <1>9, DieKeepsRecords DEF Exit
<1>10. CASE Crash
  BY <1>10, DieKeepsRecords DEF Crash
<1>11. CASE Tick
  BY <1>11, TickKeepsRecords
<1>12. QED
  BY <1>1, <1>2, <1>3, <1>4, <1>5, <1>6, <1>7, <1>8, <1>9, <1>10, <1>11
     DEF ServeStep

-----------------------------------------------------------------------------
(* Results.                                                                *)

(* Every step keeps the copies in agreement.                               *)
LEMMA RecordsKept == IInv /\ RecordInv /\ [Next]_vars => RecordInv'
<1> SUFFICES ASSUME IInv, RecordInv, [Next]_vars PROVE RecordInv'
  OBVIOUS
<1>1. CASE Next
  BY <1>1, RequestKeepsRecords, RunnerKeepsRecords, SweeperKeepsRecords,
     ProcessKeepsRecords DEF Next
<1>2. CASE UNCHANGED vars
  BY <1>2
     DEF vars, RecordInv, SweptInv, Recorded, Files, Held, LoadedSoFar, Agree,
         Dates, UnderWay, Expired
<1>3. QED
  BY <1>1, <1>2

\* What memory, disk and goroutines say of a job fits together in every
\* reachable state, whatever fails and wherever the process is stopped.
THEOREM RecordsAgree == Spec => []RecordInv
<1>1. Init => RecordInv
  BY DEF Init, StoreInit, RecordInv, SweptInv, Recorded, Files, Held,
         LoadedSoFar, Agree, Dates, UnderWay, InRequest, Uploading, Absent,
         NoDir, Up
<1>2. QED
  BY <1>1, Inductive, RecordsKept, PTL DEF Spec

=============================================================================
