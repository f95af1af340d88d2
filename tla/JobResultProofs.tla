--------------------------- MODULE JobResultProofs ---------------------------
(***************************************************************************)
(* What a client and an operator rely on, from what the copies of a record *)
(* say about each other: removed jobs stay removed, recorded ones stay     *)
(* known, a completed job has its document, a drained process leaves no    *)
(* goroutine behind.  For any set of jobs, any capacity, any retention     *)
(* window and any subset of failing file operations.                       *)
(***************************************************************************)
EXTENDS JobServiceProofs

USE DEF Live, Terminal

(* No step makes a directory again that its job has done without.          *)
LEMMA RemovedStaysRemoved ==
  ASSUME IInv, RecordInv, [Next]_vars, NEW j \in Jobs,
         req[j] \in {"answered", "over"}, ~dir[j].present
  PROVE  ~dir'[j].present
<1>1. Standing(j) /\ Recorded(j) /\ TypeOK
  BY JobStands DEF RecordInv, IInv
<1>2. run[j] \in {"idle", "releasing"}
  BY <1>1 DEF Standing, Recorded, Files
<1>3. dir \in [Jobs -> Directory]
  BY <1>1 DEF TypeOK, StoreTypeOK
<1>4. ASSUME NEW i \in Jobs, Accept(i) \/ RequestStep(i) PROVE ~dir'[j].present
  BY <1>3, <1>4
     DEF RequestStep, Accept, InputWritten, InputFails, CreateLocks,
         CreateReturns, StartRunner, RefuseRunner, MarkLocks, MarkReturns,
         BeginInput, EndInput, Stage, CreateSucceeds, CreateFails, Save,
         Persist, storeVars, Directory
<1>5. ASSUME NEW i \in Jobs, RunnerStep(i) PROVE ~dir'[j].present
  BY <1>2, <1>3, <1>5
     DEF RunnerStep, CheckDraining, SelectSlot, SelectDraining, Park, GiveUp,
         FetchJob, ReadInput, SaveLocks, SaveReturns, ProcessSucceeds,
         ProcessFails, OutputOpened, OutputWritten, OutputFails, ReleaseSlot,
         Stage, Save, Persist, BeginOutput, EndOutput, storeVars, Directory
<1>6. CASE SweeperStep
  BY <1>3, <1>6
     DEF SweeperStep, BeginSweep, SweepLocks, EndSweep, StopSweeper, SweepJob,
         SweepUnlinks, SweepDeletes, SweepSkips, UnlinkOne, DeleteJob, NoDir,
         storeVars, Directory
<1>7. ASSUME NEW i \in Jobs, LoadEntry(i) PROVE ~dir'[j].present
  <2>1. CASE i = j
    BY <1>1, <1>7, <2>1 DEF LoadEntry, Recorded, LoadedSoFar
  <2>2. CASE i # j
    BY <1>3, <1>7, <2>2
       DEF LoadEntry, RemoveOrphan, RestoreFinished, RestoreInterrupted, Persist
  <2>3. QED
    BY <2>1, <2>2
<1>8. CASE Boot \/ Signal \/ Deadline \/ Crash \/ Tick \/ Loaded \/ CloseDraining
             \/ RunnersDone \/ GiveUpWaiting \/ Exit \/ UNCHANGED vars
  BY <1>8
     DEF Boot, Signal, Deadline, Crash, Tick, Loaded, CloseDraining,
         RunnersDone, GiveUpWaiting, Exit, Die, storeVars, vars
<1>9. QED
  BY <1>4, <1>5, <1>6, <1>7, <1>8 DEF Next, ServeStep

(* What a step that is not a step of the process itself does to the record *)
(* of a job in memory.                                                     *)
LEMMA InMemory ==
  ASSUME IInv, RecordInv, NEW j \in Jobs,
         \/ \E i \in Jobs : Accept(i) \/ RequestStep(i) \/ RunnerStep(i)
         \/ SweeperStep
  PROVE  /\ app' = app
         /\ \/ mem'[j] = mem[j]
            \/ /\ mem'[j] = held[j]
               /\ run[j] = "persisting" \/ req[j] \in {"creating", "marking"}
            \/ mem'[j] = Absent /\ Expired(mem[j], clock)
<1>1. Standing(j) /\ Recorded(j) /\ TypeOK
  BY JobStands DEF RecordInv, IInv
<1>2. mem \in [Jobs -> Record]
  BY <1>1 DEF TypeOK, StoreTypeOK
<1>3. ASSUME NEW i \in Jobs, Accept(i) \/ RequestStep(i)
      PROVE  /\ app' = app
             /\ \/ mem'[j] = mem[j]
                \/ /\ mem'[j] = held[j]
                   /\ req[j] \in {"creating", "marking"}
  <2>1. CASE CreateReturns(i)
    BY <1>2, <2>1
       DEF CreateReturns, CreateSucceeds, CreateFails, appVars
  <2>2. CASE MarkReturns(i)
    BY <1>2, <2>2 DEF MarkReturns, Save, appVars
  <2>3. CASE \/ Accept(i) \/ InputWritten(i) \/ InputFails(i) \/ CreateLocks(i)
             \/ StartRunner(i) \/ RefuseRunner(i) \/ MarkLocks(i)
    BY <2>3
       DEF Accept, InputWritten, InputFails, CreateLocks, StartRunner,
           RefuseRunner, MarkLocks, storeVars, appVars
  <2>4. QED
    BY <1>3, <2>1, <2>2, <2>3 DEF RequestStep
<1>4. ASSUME NEW i \in Jobs, RunnerStep(i)
      PROVE  /\ app' = app
             /\ \/ mem'[j] = mem[j]
                \/ /\ mem'[j] = held[j]
                   /\ run[j] = "persisting"
  <2>1. CASE SaveReturns(i)
    BY <1>2, <2>1 DEF SaveReturns, Save, appVars
  <2>2. CASE \/ CheckDraining(i) \/ SelectSlot(i) \/ SelectDraining(i) \/ Park(i)
             \/ GiveUp(i) \/ FetchJob(i) \/ ReadInput(i) \/ SaveLocks(i)
             \/ ProcessSucceeds(i) \/ ProcessFails(i) \/ OutputOpened(i)
             \/ OutputWritten(i) \/ OutputFails(i) \/ ReleaseSlot(i)
    BY <2>2
       DEF CheckDraining, SelectSlot, SelectDraining, Park, GiveUp, FetchJob,
           ReadInput, SaveLocks, ProcessSucceeds, ProcessFails, OutputOpened,
           OutputWritten, OutputFails, ReleaseSlot, storeVars, appVars
  <2>3. QED
    BY <1>4, <2>1, <2>2 DEF RunnerStep
<1>5. ASSUME SweeperStep
      PROVE  /\ app' = app
             /\ \/ mem'[j] = mem[j]
                \/ mem'[j] = Absent /\ sweeper = "removing" /\ j \in todo
  BY <1>2, <1>5
     DEF SweeperStep, BeginSweep, SweepLocks, EndSweep, StopSweeper, SweepJob,
         SweepUnlinks, SweepDeletes, SweepSkips, DeleteJob, storeVars, appVars
<1>6. sweeper = "removing" /\ j \in todo => Expired(mem[j], clock)
  BY <1>1, RetentionAssumption
     DEF RecordInv, SweptInv, Expired, Standing, Record, TypeOK
<1>7. QED
  BY <1>3, <1>4, <1>5, <1>6

(* And what one of the process does.                                       *)
LEMMA AroundIt ==
  ASSUME IInv, NEW j \in Jobs,
         Boot \/ ServeStep \/ Signal \/ Deadline \/ Crash \/ Tick
  PROVE  \/ /\ mem' = mem /\ dir' = dir
            /\ app' \in Up <=> app \in Up
         \/ Loaded \/ Die
         \/ /\ app \notin Up /\ app' \notin Up
            /\ \/ dir'[j].record = dir[j].record
               \/ dir[j].record.status = "absent"
               \/ /\ dir'[j].record.status # "absent"
                  /\ dir'[j].record.updatedAt = dir[j].record.updatedAt
<1>1. dir \in [Jobs -> Directory]
  BY DEF IInv, TypeOK, StoreTypeOK
<1>2. ASSUME NEW i \in Jobs, LoadEntry(i)
      PROVE  /\ app \notin Up /\ app' \notin Up
             /\ \/ dir'[j].record = dir[j].record
                \/ dir[j].record.status = "absent"
                \/ /\ dir'[j].record.status # "absent"
                   /\ dir'[j].record.updatedAt = dir[j].record.updatedAt
  <2>1. app \notin Up /\ app' \notin Up
    BY <1>2 DEF LoadEntry, appVars, Up
  <2>2. CASE i # j
    BY <1>1, <1>2, <2>1, <2>2
       DEF LoadEntry, RemoveOrphan, RestoreFinished, RestoreInterrupted, Persist
  <2>3. CASE i = j
    BY <1>1, <1>2, <2>1, <2>3, WhatIsRestored
       DEF LoadEntry, RemoveOrphan, RestoreFinished, RestoreInterrupted,
           Persist, Directory
  <2>4. QED
    BY <2>2, <2>3
<1>3. CASE Boot \/ Signal \/ Deadline \/ Tick \/ CloseDraining \/ RunnersDone
             \/ GiveUpWaiting
  BY <1>3
     DEF Boot, Signal, Deadline, Tick, CloseDraining, RunnersDone,
         GiveUpWaiting, storeVars, appVars, Up, AppState, Stopped
<1>4. QED
  BY <1>2, <1>3 DEF ServeStep, Exit, Crash

(* Handlers, goroutines and the sweeper take steps only while the process  *)
(* is up.                                                                  *)
LEMMA LivesInProcess ==
  ASSUME IInv,
         \/ \E i \in Jobs : Accept(i) \/ RequestStep(i) \/ RunnerStep(i)
         \/ SweeperStep
  PROVE  app \in Up
<1>1. ASSUME NEW i \in Jobs, Accept(i) \/ RequestStep(i) PROVE app \in Up
  <2>1. app = "serving" \/ req[i] \in InRequest
    BY <1>1
       DEF RequestStep, Accept, InputWritten, InputFails, CreateLocks,
           CreateReturns, StartRunner, RefuseRunner, MarkLocks, MarkReturns,
           InRequest, Uploading
  <2>2. QED
    BY <2>1 DEF IInv, LifeInv, Up, AppState
<1>2. ASSUME NEW i \in Jobs, RunnerStep(i) PROVE app \in Up
  <2>1. run[i] # "idle"
    BY <1>2
       DEF RunnerStep, CheckDraining, SelectSlot, SelectDraining, Park,
           GiveUp, FetchJob, ReadInput, SaveLocks, SaveReturns,
           ProcessSucceeds, ProcessFails, OutputOpened, OutputWritten,
           OutputFails, ReleaseSlot
  <2>2. QED
    BY <2>1 DEF IInv, LifeInv
<1>3. ASSUME SweeperStep PROVE app \in Up
  <2>1. sweeper # "off"
    BY <1>3
       DEF SweeperStep, BeginSweep, SweepLocks, EndSweep, StopSweeper,
           SweepJob, SweepUnlinks, SweepDeletes, SweepSkips
  <2>2. QED
    BY <2>1 DEF IInv, LifeInv
<1>4. QED
  BY <1>1, <1>2, <1>3

(* A recorded job is forgotten only when its time is over.                 *)
LEMMA KnownUntilExpired ==
  ASSUME IInv, RecordInv, [Next]_vars, NEW j \in Jobs,
         Latest(j).status # "absent", Latest(j)'.status = "absent"
  PROVE  Expired(Latest(j), clock)
<1>1. Standing(j) /\ Recorded(j)
  BY JobStands DEF RecordInv
<1>2. CASE UNCHANGED vars
  BY <1>2 DEF vars, Latest
<1>3. CASE \/ \E i \in Jobs : Accept(i) \/ RequestStep(i) \/ RunnerStep(i)
           \/ SweeperStep
  <2>1. ASSUME app \in Up PROVE Expired(Latest(j), clock)
    <3>1. /\ req[j] = "creating" => held[j].status = "queued"
          /\ req[j] = "marking" => held[j].status = "failed"
          /\ run[j] = "persisting" => held[j].status # "absent"
      BY <1>1 DEF Standing, Recorded, Files, Held, Uploading
    <3>2. QED
      BY <1>3, <2>1, <3>1, InMemory DEF Latest
  <2>2. app \in Up
    BY <1>3, LivesInProcess
  <2>3. QED
    BY <2>1, <2>2
<1>4. CASE Boot \/ ServeStep \/ Signal \/ Deadline \/ Crash \/ Tick
  <2>1. CASE mem' = mem /\ dir' = dir /\ (app' \in Up <=> app \in Up)
    BY <2>1 DEF Latest
  <2>2. CASE Loaded
    BY <1>1, <2>2
       DEF Loaded, Latest, Recorded, LoadedSoFar, Up, AppState
  <2>3. CASE Die
    BY <1>1, <2>3 DEF Die, Latest, Recorded, Agree, Up
  <2>4. CASE /\ app \notin Up /\ app' \notin Up
             /\ \/ dir'[j].record = dir[j].record
                \/ dir[j].record.status = "absent"
                \/ /\ dir'[j].record.status # "absent"
                   /\ dir'[j].record.updatedAt = dir[j].record.updatedAt
    BY <2>4 DEF Latest
  <2>5. QED
    BY <1>4, <2>1, <2>2, <2>3, <2>4, AroundIt
<1>5. QED
  BY <1>2, <1>3, <1>4 DEF Next

(* The deadline of a job that is not at work does not move.                *)
LEMMA DeadlineStays ==
  ASSUME IInv, RecordInv, [Next]_vars, NEW j \in Jobs, run[j] = "idle",
         req[j] \in {"answered", "over"},
         Latest(j).status # "absent", Latest(j)'.status # "absent"
  PROVE  Latest(j)'.updatedAt <= Latest(j).updatedAt
<1>1. /\ Standing(j) /\ Recorded(j)
      /\ mem[j].updatedAt \in Nat /\ dir[j].record.updatedAt \in Nat
  BY JobStands DEF RecordInv, Standing, Record, Directory
<1>2. CASE UNCHANGED vars
  BY <1>1, <1>2 DEF vars, Latest
<1>3. CASE \/ \E i \in Jobs : Accept(i) \/ RequestStep(i) \/ RunnerStep(i)
           \/ SweeperStep
  <2>1. app \in Up
    BY <1>3, LivesInProcess
  <2>2. app' = app /\ mem'[j] \in {mem[j], Absent}
    BY <1>3, InMemory
  <2>3. QED
    BY <1>1, <2>1, <2>2 DEF Latest, Absent
<1>4. CASE Boot \/ ServeStep \/ Signal \/ Deadline \/ Crash \/ Tick
  <2>1. CASE mem' = mem /\ dir' = dir /\ (app' \in Up <=> app \in Up)
    BY <1>1, <2>1 DEF Latest
  <2>2. CASE Loaded
    BY <1>1, <2>2
       DEF Loaded, Latest, Recorded, LoadedSoFar, Up, AppState
  <2>3. CASE Die
    BY <1>1, <2>3 DEF Die, Latest, Recorded, Agree, Up
  <2>4. CASE /\ app \notin Up /\ app' \notin Up
             /\ \/ dir'[j].record = dir[j].record
                \/ dir[j].record.status = "absent"
                \/ /\ dir'[j].record.status # "absent"
                   /\ dir'[j].record.updatedAt = dir[j].record.updatedAt
    BY <1>1, <2>4 DEF Latest
  <2>5. QED
    BY <1>4, <2>1, <2>2, <2>3, <2>4, AroundIt
<1>5. QED
  BY <1>2, <1>3, <1>4 DEF Next

\* Once the request is over, a directory that retention has removed is not
\* made again by a goroutine or a handler that comes late (Save, writeFile).
THEOREM NothingComesBack == Spec => NoResurrection
<1>1. IInv /\ RecordInv /\ [Next]_vars =>
        [\A j \in Jobs :
            req[j] \in {"answered", "over"} /\ ~dir[j].present
                => ~dir'[j].present]_vars
  BY RemovedStaysRemoved DEF vars
<1>2. QED
  BY <1>1, Inductive, RecordsAgree, PTL DEF Spec, NoResurrection

\* A recorded job is forgotten only when its retention window has passed,
\* whatever fails and wherever the process is stopped and started again.
THEOREM AcceptedIsRemembered == Spec => AcceptedStaysKnown
<1>1. IInv /\ RecordInv /\ [Next]_vars =>
        [\A j \in Jobs :
            Latest(j).status # "absent" /\ Latest(j)'.status = "absent"
                => Expired(Latest(j), clock)]_vars
  BY KnownUntilExpired DEF vars
<1>2. QED
  BY <1>1, Inductive, RecordsAgree, PTL DEF Spec, AcceptedStaysKnown

\* No start, stop or failed write pushes the retention deadline of a job that
\* is not at work into the future (load, DeleteExpired).
THEOREM DeadlineNeverMoves == Spec => DeadlineKept
<1>1. IInv /\ RecordInv /\ [Next]_vars =>
        [\A j \in Jobs :
            (/\ run[j] = "idle" /\ req[j] \in {"answered", "over"}
             /\ "absent" \notin {Latest(j).status, Latest(j)'.status})
                => Latest(j)'.updatedAt <= Latest(j).updatedAt]_vars
  <2> SUFFICES ASSUME IInv, RecordInv, [Next]_vars, NEW j \in Jobs,
                      run[j] = "idle", req[j] \in {"answered", "over"},
                      "absent" \notin {Latest(j).status, Latest(j)'.status}
               PROVE  Latest(j)'.updatedAt <= Latest(j).updatedAt
    BY DEF vars
  <2>1. Latest(j).status # "absent" /\ Latest(j)'.status # "absent"
    OBVIOUS
  <2>2. QED
    BY <2>1, DeadlineStays
<1>2. QED
  BY <1>1, Inductive, RecordsAgree, PTL DEF Spec, DeadlineKept

-----------------------------------------------------------------------------
(* Results.                                                                *)

(* The path that load gives back.                                          *)
LEMMA PathIsRestored ==
  ASSUME NEW d \in Directory
  PROVE  Restored(d).output =
            (d.record.status = "completed" /\ d.output # "none")
<1> DEFINE found == d.record.status = "completed" /\ d.output # "none"
           s == IF d.record.status \in Live THEN "failed" ELSE d.record.status
<1>1. d.record \in Record
  BY DEF Directory
<1>2. Restored(d) = [d.record EXCEPT !.status = s, !.output = found]
  BY DEF Restored
<1>3. found \in BOOLEAN
  OBVIOUS
<1> HIDE DEF found, s
<1>4. Restored(d).output = found
  BY <1>1, <1>2, <1>3 DEF Record
<1>5. QED
  BY <1>4 DEF found

(* CompletedIsDownloadable, of one job.                                    *)
Downloadable(j) ==
    /\ mem[j].status = "completed" /\ ~Expired(mem[j], clock)
          => mem[j].output /\ dir[j].output = "whole"
    /\ dir[j].record.status = "completed" /\ ~Expired(dir[j].record, clock)
          => dir[j].output = "whole"

(* It stays so while nobody calls a record completed or touches the result *)
(* of one that is.                                                         *)
LEMMA ResultIsLeftAlone ==
  ASSUME IInv, RecordInv, NEW j \in Jobs, Downloadable(j),
         mem'[j] = mem[j] \/ mem'[j].status # "completed",
         \/ dir'[j].record = dir[j].record
         \/ dir'[j].record.status # "completed",
         \/ dir'[j].output = dir[j].output
         \/ /\ mem[j].status # "completed"
            /\ dir[j].record.status # "completed",
         clock' \in Nat, clock <= clock'
  PROVE  Downloadable(j)'
<1>1. /\ mem[j] \in Record /\ dir[j].record \in Record
      /\ clock \in Nat /\ Retention \in Nat
  BY JobStands, RetentionAssumption DEF Standing, Directory
<1>2. ASSUME NEW r \in Record, Expired(r, clock) PROVE Expired(r, clock')
  BY <1>1, <1>2 DEF Expired, Record
<1>3. QED
  BY <1>1, <1>2 DEF Downloadable, Expired

(* Handlers: nothing is completed before it is answered.                   *)
LEMMA RequestKeepsResults ==
  ASSUME IInv, RecordInv, NEW i \in Jobs, Accept(i) \/ RequestStep(i),
         NEW j \in Jobs, Downloadable(j)
  PROVE  Downloadable(j)'
<1>1. Standing(i) /\ Recorded(i) /\ TypeOK
  BY JobStands DEF RecordInv, IInv
<1>2. mem \in [Jobs -> Record] /\ dir \in [Jobs -> Directory] /\ clock \in Nat
  BY <1>1 DEF TypeOK, StoreTypeOK
<1>3. clock' = clock
  BY DEF RequestStep, Accept, InputWritten, InputFails, CreateLocks,
         CreateReturns, StartRunner, RefuseRunner, MarkLocks, MarkReturns,
         storeVars
<1>4. /\ req[i] \in {"none"} \cup InRequest
      /\ mem[i].status # "completed" /\ dir[i].record.status # "completed"
  BY <1>1
     DEF RequestStep, Accept, InputWritten, InputFails, CreateLocks,
         CreateReturns, StartRunner, RefuseRunner, MarkLocks, MarkReturns,
         InRequest, Uploading, Standing, Recorded, Agree, UnderWay, Files
<1>5. /\ i # j => mem'[j] = mem[j] /\ dir'[j] = dir[j]
      /\ mem'[i].status # "completed" /\ dir'[i].record.status # "completed"
  <2>1. CASE CreateReturns(i) /\ CreateSucceeds(i, held[i])
    <3>1. held[i].status = "queued" /\ held[i] \in Record
      BY <1>1, <2>1 DEF CreateReturns, Standing, Uploading
    <3>2. QED
      BY <1>2, <2>1, <3>1 DEF CreateSucceeds, Persist, OnDisk, Record, Directory
  <2>2. CASE CreateReturns(i) /\ CreateFails(i)
    <3>1. PICK d \in Remains(dir[i]) : dir' = [dir EXCEPT ![i] = d]
      BY <2>2 DEF CreateFails
    <3>2. d.record \in {dir[i].record, Absent}
      BY RemainsAreEmptied
    <3>3. QED
      BY <1>2, <1>4, <2>2, <3>1, <3>2 DEF CreateFails, Absent
  <2>3. CASE MarkReturns(i)
    <3>1. held[i].status = "failed" /\ held[i] \in Record
      BY <1>1, <2>3 DEF MarkReturns, Standing, Recorded, Files
    <3>2. QED
      BY <1>2, <1>4, <2>3, <3>1
         DEF MarkReturns, Save, Persist, OnDisk, Record, Directory
  <2>4. CASE \/ Accept(i) \/ InputWritten(i) \/ InputFails(i) \/ CreateLocks(i)
             \/ StartRunner(i) \/ RefuseRunner(i) \/ MarkLocks(i)
    BY <1>2, <1>4, <2>4
       DEF Accept, InputWritten, InputFails, CreateLocks, StartRunner,
           RefuseRunner, MarkLocks, BeginInput, EndInput, Stage, storeVars,
           Directory
  <2>5. QED
    BY <2>1, <2>2, <2>3, <2>4 DEF RequestStep, CreateReturns
<1>6. QED
  BY <1>2, <1>3, <1>4, <1>5, ResultIsLeftAlone

(* Goroutines: the result is whole before the record says so.              *)
LEMMA RunnerKeepsResults ==
  ASSUME IInv, RecordInv, NEW i \in Jobs, RunnerStep(i),
         NEW j \in Jobs, Downloadable(j)
  PROVE  Downloadable(j)'
<1>1. Standing(i) /\ Recorded(i) /\ TypeOK
  BY JobStands DEF RecordInv, IInv
<1>2. mem \in [Jobs -> Record] /\ dir \in [Jobs -> Directory] /\ clock \in Nat
  BY <1>1 DEF TypeOK, StoreTypeOK
<1>3. clock' = clock
  BY DEF RunnerStep, CheckDraining, SelectSlot, SelectDraining, Park, GiveUp,
         FetchJob, ReadInput, SaveLocks, SaveReturns, ProcessSucceeds,
         ProcessFails, OutputOpened, OutputWritten, OutputFails, ReleaseSlot,
         storeVars
<1>4. CASE SaveReturns(i)
  <2>1. /\ held[i] \in Record /\ dir[i].record.status # "completed"
        /\ held[i].status = "completed" =>
              held[i].output /\ dir[i].output = "whole"
    BY <1>1, <1>4
       DEF SaveReturns, Standing, Recorded, Held, Agree, UnderWay
  <2>2. /\ mem'[i] = held[i] /\ dir'[i].output = dir[i].output
        /\ \/ dir'[i].record.status = held[i].status
           \/ dir'[i].record = dir[i].record
        /\ i # j => mem'[j] = mem[j] /\ dir'[j] = dir[j]
    BY <1>2, <1>4, <2>1
       DEF SaveReturns, Save, Persist, OnDisk, Record, Directory
  <2>3. CASE i = j
    BY <2>1, <2>2, <2>3 DEF Downloadable
  <2>4. CASE i # j
    BY <1>2, <1>3, <2>2, <2>4, ResultIsLeftAlone
  <2>5. QED
    BY <2>3, <2>4
<1>5. CASE SaveLocks(i) \/ OutputOpened(i) \/ OutputWritten(i)
  <2>1. /\ dir[i].record.status # "completed"
        /\ run[i] \in {"output", "writing"} => mem[i].status # "completed"
    BY <1>1, <1>5
       DEF SaveLocks, OutputOpened, OutputWritten, Standing, Recorded, Agree,
           UnderWay
  <2>2. /\ mem' = mem /\ dir'[j].record = dir[j].record
        /\ \/ dir'[j].output = dir[j].output
           \/ i = j /\ run[i] \in {"output", "writing"}
    BY <1>2, <1>5
       DEF SaveLocks, OutputOpened, OutputWritten, Stage, BeginOutput,
           EndOutput, Directory
  <2>3. QED
    BY <1>2, <1>3, <2>1, <2>2, ResultIsLeftAlone
<1>6. CASE \/ CheckDraining(i) \/ SelectSlot(i) \/ SelectDraining(i) \/ Park(i)
           \/ GiveUp(i) \/ FetchJob(i) \/ ReadInput(i) \/ ProcessSucceeds(i)
           \/ ProcessFails(i) \/ OutputFails(i) \/ ReleaseSlot(i)
  <2>1. mem' = mem /\ dir' = dir
    BY <1>6
       DEF CheckDraining, SelectSlot, SelectDraining, Park, GiveUp, FetchJob,
           ReadInput, ProcessSucceeds, ProcessFails, OutputFails, ReleaseSlot,
           storeVars
  <2>2. QED
    BY <1>2, <1>3, <2>1, ResultIsLeftAlone
<1>7. QED
  BY <1>4, <1>5, <1>6 DEF RunnerStep

(* The sweeper takes only results whose time is over, in memory as on disk. *)
LEMMA SweeperKeepsResults ==
  ASSUME IInv, RecordInv, SweeperStep, NEW j \in Jobs, Downloadable(j)
  PROVE  Downloadable(j)'
<1>1. Standing(j) /\ Recorded(j) /\ TypeOK
  BY JobStands DEF RecordInv, IInv
<1>2. mem \in [Jobs -> Record] /\ dir \in [Jobs -> Directory] /\ clock \in Nat
  BY <1>1 DEF TypeOK, StoreTypeOK
<1>3. clock' = clock
  BY DEF SweeperStep, BeginSweep, SweepLocks, EndSweep, StopSweeper, SweepJob,
         SweepUnlinks, SweepDeletes, SweepSkips, storeVars
<1>4. ASSUME sweeper = "removing", j \in todo
      PROVE  /\ Expired(mem[j], clock)
             /\ dir[j].record.status = "completed"
                   => Expired(dir[j].record, clock)
  <2>1. Expired(mem[j], clock)
    BY <1>1, <1>4, RetentionAssumption
       DEF RecordInv, SweptInv, Expired, Standing, Record, TypeOK
  <2>2. QED
    BY <1>1, <1>4, <2>1 DEF Expired, Standing, Recorded, Agree
<1>5. ASSUME NEW i \in Jobs, SweepUnlinks(i) PROVE Downloadable(j)'
  <2>1. /\ mem' = mem /\ sweeper = "removing" /\ i \in todo
        /\ dir'[i].record = dir[i].record \/ dir'[i].record = Absent
        /\ i # j => dir'[j] = dir[j]
    BY <1>2, <1>5 DEF SweepUnlinks, UnlinkOne, Directory
  <2>2. CASE i = j
    BY <1>3, <1>4, <2>1, <2>2 DEF Downloadable, Absent
  <2>3. CASE i # j
    BY <1>2, <1>3, <2>1, <2>3, ResultIsLeftAlone
  <2>4. QED
    BY <2>2, <2>3
<1>6. ASSUME NEW i \in Jobs, SweepDeletes(i) PROVE Downloadable(j)'
  <2>1. /\ mem'[i] = Absent /\ dir'[i] = NoDir
        /\ i # j => mem'[j] = mem[j] /\ dir'[j] = dir[j]
    BY <1>2, <1>6 DEF SweepDeletes, DeleteJob
  <2>2. CASE i = j
    BY <2>1, <2>2 DEF Downloadable, Absent, NoDir
  <2>3. CASE i # j
    BY <1>2, <1>3, <2>1, <2>3, ResultIsLeftAlone
  <2>4. QED
    BY <2>2, <2>3
<1>7. ASSUME \/ BeginSweep \/ SweepLocks \/ EndSweep \/ StopSweeper
             \/ \E i \in Jobs : SweepSkips(i)
      PROVE  Downloadable(j)'
  <2>1. mem' = mem /\ dir' = dir
    BY <1>7 DEF BeginSweep, SweepLocks, EndSweep, StopSweeper, SweepSkips,
                storeVars
  <2>2. QED
    BY <1>2, <1>3, <2>1, ResultIsLeftAlone
<1>8. QED
  BY <1>5, <1>6, <1>7 DEF SweeperStep, SweepJob

(* A start gives a completed record the path of the result it finds.       *)
LEMMA ProcessKeepsResults ==
  ASSUME IInv, RecordInv, Boot \/ ServeStep \/ Signal \/ Deadline \/ Crash \/ Tick,
         NEW j \in Jobs, Downloadable(j)
  PROVE  Downloadable(j)'
<1>1. Standing(j) /\ Recorded(j) /\ TypeOK
  BY JobStands DEF RecordInv, IInv
<1>2. mem \in [Jobs -> Record] /\ dir \in [Jobs -> Directory] /\ clock \in Nat
  BY <1>1 DEF TypeOK, StoreTypeOK
<1>3. ASSUME NEW i \in Jobs, LoadEntry(i) PROVE Downloadable(j)'
  <2>1. clock' = clock /\ app = "loading"
    BY <1>3 DEF LoadEntry
  <2>2. CASE i # j
    <3>1. mem'[j] = mem[j] /\ dir'[j] = dir[j]
      BY <1>2, <1>3, <2>2
         DEF LoadEntry, RemoveOrphan, RestoreFinished, RestoreInterrupted, Persist
    <3>2. QED
      BY <1>2, <2>1, <3>1, ResultIsLeftAlone
  <2>3. CASE i = j /\ RemoveOrphan(j)
    <3>1. PICK d \in Remains(dir[j]) : dir' = [dir EXCEPT ![j] = d]
      BY <2>3 DEF RemoveOrphan
    <3>2. d.record \in {dir[j].record, Absent}
      BY RemainsAreEmptied
    <3>3. /\ mem' = mem /\ mem[j].status = "absent"
          /\ dir'[j].record.status = "absent"
      BY <1>1, <1>2, <2>1, <2>3, <3>1, <3>2
         DEF RemoveOrphan, Recorded, LoadedSoFar, Absent
    <3>4. QED
      BY <3>3 DEF Downloadable
  <2>4. CASE i = j /\ RestoreFinished(j)
    <3>1. /\ dir' = dir /\ dir[j].record \in Record
          /\ mem'[j].status = dir[j].record.status
          /\ mem'[j].updatedAt = dir[j].record.updatedAt
          /\ mem'[j].output =
                (dir[j].record.status = "completed" /\ dir[j].output # "none")
      <4>1. /\ dir' = dir /\ mem'[j] = Restored(dir[j])
            /\ dir[j] \in Directory
            /\ dir[j].record.status \in Terminal
        BY <1>2, <2>4 DEF RestoreFinished
      <4>2. QED
        BY <4>1, WhatIsRestored, PathIsRestored DEF Directory
    <3>2. QED
      BY <2>1, <3>1 DEF Downloadable, Expired
  <2>5. CASE i = j /\ RestoreInterrupted(j)
    <3>1. /\ mem'[j].status = "failed"
          /\ dir'[j].record.status # "completed"
      <4>1. /\ mem'[j] = Restored(dir[j]) /\ dir[j].record.status \in Live
            /\ dir[j] \in Directory
            /\ \/ dir'[j].record = OnDisk(Restored(dir[j]))
               \/ dir' = dir
        BY <1>2, <2>5 DEF RestoreInterrupted, Persist, Directory
      <4>2. /\ Restored(dir[j]).status = "failed"
            /\ OnDisk(Restored(dir[j])).status = "failed"
        BY <4>1, WhatIsRestored
      <4>3. QED
        BY <4>1, <4>2
    <3>2. QED
      BY <3>1 DEF Downloadable
  <2>6. QED
    BY <1>3, <2>2, <2>3, <2>4, <2>5 DEF LoadEntry
<1>4. CASE Die
  BY <1>4 DEF Die, Downloadable, Absent
<1>5. CASE Tick
  <2>1. mem' = mem /\ dir' = dir /\ clock' = clock + 1
    BY <1>5 DEF Tick, storeVars
  <2>2. QED
    BY <1>2, <2>1, ResultIsLeftAlone
<1>6. CASE \/ Boot \/ Loaded \/ Signal \/ Deadline \/ CloseDraining
           \/ RunnersDone \/ GiveUpWaiting
  <2>1. mem' = mem /\ dir' = dir /\ clock' = clock
    BY <1>6 DEF Boot, Loaded, Signal, Deadline, CloseDraining, RunnersDone,
                GiveUpWaiting, storeVars
  <2>2. QED
    BY <1>2, <2>1, ResultIsLeftAlone
<1>7. QED
  BY <1>3, <1>4, <1>5, <1>6 DEF ServeStep, Exit, Crash

\* A job that is called completed, in memory or by what the next start will
\* read, has its whole masked document until retention may remove it,
\* whatever fails and wherever the process is stopped (runJob, load).
THEOREM CompletedHasItsDocument == Spec => []CompletedIsDownloadable
<1>1. Init => CompletedIsDownloadable
  BY DEF Init, StoreInit, CompletedIsDownloadable, Absent, NoDir
<1>2. IInv /\ RecordInv /\ CompletedIsDownloadable /\ [Next]_vars
        => CompletedIsDownloadable'
  <2> SUFFICES ASSUME IInv, RecordInv, CompletedIsDownloadable, [Next]_vars,
                      NEW j \in Jobs
               PROVE  Downloadable(j)'
    BY DEF CompletedIsDownloadable, Downloadable
  <2>1. Downloadable(j)
    BY DEF CompletedIsDownloadable, Downloadable
  <2>2. CASE UNCHANGED vars
    BY <2>1, <2>2 DEF vars, Downloadable, Expired
  <2>3. CASE Next
    BY <2>1, <2>3, RequestKeepsResults, RunnerKeepsResults,
       SweeperKeepsResults, ProcessKeepsResults DEF Next
  <2>4. QED
    BY <2>2, <2>3
<1>3. QED
  BY <1>1, <1>2, Inductive, RecordsAgree, PTL DEF Spec

(* What a stop has made sure of, and who is still to finish a live job.    *)
StopInv ==
    /\ app \in {"job_drain"} \cup Stopped =>
          draining /\ (late \/ \A j \in Jobs : req[j] \notin InRequest)
    /\ app = "drained" => \A j \in Jobs : run[j] = "idle"

InHand(j) ==
    mem[j].status \in Live =>
        \/ run[j] \notin {"idle", "releasing"}
        \/ req[j] \in {"created", "refused", "marking"}

SettleInv == StopInv /\ \A j \in Jobs : InHand(j)

LEMMA RequestSettles ==
  ASSUME IInv, RecordInv, SettleInv, NEW i \in Jobs, Accept(i) \/ RequestStep(i)
  PROVE  SettleInv'
<1>1. Standing(i) /\ Recorded(i) /\ TypeOK
  BY JobStands DEF RecordInv, IInv
<1>2. /\ mem \in [Jobs -> Record] /\ run \in [Jobs -> RunnerState]
      /\ req \in [Jobs -> RequestState]
  BY <1>1 DEF TypeOK, StoreTypeOK
<1>3. /\ UNCHANGED <<app, draining, late>>
      /\ app = "serving" \/ req[i] \in InRequest
      /\ \A j \in Jobs \ {i} :
            mem'[j] = mem[j] /\ run'[j] = run[j] /\ req'[j] = req[j]
      /\ run' = run \/ ~draining
  BY <1>2
     DEF RequestStep, Accept, InputWritten, InputFails, CreateLocks,
         CreateReturns, StartRunner, RefuseRunner, MarkLocks, MarkReturns,
         ReqTo, RunTo, CreateSucceeds, CreateFails, Save, storeVars, appVars,
         InRequest, Uploading
<1>4. StopInv'
  BY <1>1, <1>3 DEF SettleInv, StopInv, Stopped
<1>5. InHand(i)'
  <2>1. CASE CreateReturns(i)
    BY <1>1, <1>2, <2>1
       DEF CreateReturns, CreateSucceeds, CreateFails, ReqTo, InHand, Standing,
           Uploading
  <2>2. CASE MarkReturns(i)
    BY <1>1, <1>2, <2>2
       DEF MarkReturns, Save, InHand, Recorded, Files
  <2>3. CASE Accept(i) \/ InputWritten(i) \/ InputFails(i) \/ CreateLocks(i)
    BY <1>1, <2>3
       DEF Accept, InputWritten, InputFails, CreateLocks, storeVars, InHand,
           Standing, Uploading
  <2>4. CASE StartRunner(i) \/ RefuseRunner(i) \/ MarkLocks(i)
    BY <1>1, <1>2, <2>4
       DEF StartRunner, RefuseRunner, MarkLocks, ReqTo, RunTo, InHand
  <2>5. QED
    BY <2>1, <2>2, <2>3, <2>4 DEF RequestStep
<1>6. QED
  BY <1>3, <1>4, <1>5 DEF SettleInv, InHand

LEMMA RunnerSettles ==
  ASSUME IInv, RecordInv, SettleInv, NEW i \in Jobs, RunnerStep(i)
  PROVE  SettleInv'
<1>1. Standing(i) /\ Recorded(i) /\ TypeOK
  BY JobStands DEF RecordInv, IInv
<1>2. /\ mem \in [Jobs -> Record] /\ run \in [Jobs -> RunnerState]
      /\ waiting \in Seq(Jobs)
  BY <1>1 DEF TypeOK, StoreTypeOK
<1>3. UNCHANGED <<app, draining, late, req>> /\ run[i] # "idle"
  BY DEF RunnerStep, CheckDraining, SelectSlot, SelectDraining, Park, GiveUp,
         FetchJob, ReadInput, SaveLocks, SaveReturns, ProcessSucceeds,
         ProcessFails, OutputOpened, OutputWritten, OutputFails, ReleaseSlot,
         appVars
<1>4. StopInv'
  BY <1>3 DEF SettleInv, StopInv
<1>5. CASE SaveReturns(i)
  <2>1. held[i].status \in {"running"} \cup Terminal
    BY <1>1, <1>5 DEF SaveReturns, Recorded, Held
  <2>2. /\ mem'[i] = held[i]
        /\ held[i].status = "running" => run'[i] = "processing"
        /\ \A j \in Jobs \ {i} : mem'[j] = mem[j] /\ run'[j] = run[j]
    BY <1>2, <1>5 DEF SaveReturns, Save, RunTo, AfterSave
  <2>3. QED
    BY <1>3, <1>4, <2>1, <2>2 DEF SettleInv, InHand
<1>6. CASE ReleaseSlot(i)
  <2>1. mem' = mem /\ run[i] = "releasing" /\ mem[i].status \notin Live
    BY <1>1, <1>6 DEF ReleaseSlot, storeVars, SettleInv, InHand, Standing
  <2>2. CASE waiting = <<>>
    BY <1>2, <1>3, <1>4, <1>6, <2>1, <2>2
       DEF ReleaseSlot, RunTo, SettleInv, InHand
  <2>3. CASE waiting # <<>>
    <3>1. Head(waiting) \in Jobs /\ 1 \in 1 .. Len(waiting)
      BY <1>2, <2>3
    <3>2. run[Head(waiting)] = "parked"
      BY <3>1, <2>3, <1>2 DEF IInv, QueueInv
    <3>3. \A j \in Jobs : j # i => run'[j] = run[j] \/ run'[j] = "claimed"
      BY <1>2, <1>6, <2>3 DEF ReleaseSlot
    <3>4. QED
      BY <1>3, <1>4, <2>1, <3>3 DEF SettleInv, InHand
  <2>4. QED
    BY <2>2, <2>3
<1>7. CASE GiveUp(i) \/ FetchJob(i)
  <2>1. mem' = mem
    BY <1>7 DEF GiveUp, FetchJob, storeVars
  <2>2. mem[i].status \in Live => run'[i] \notin {"idle", "releasing"}
    BY <1>2, <1>7 DEF GiveUp, FetchJob, RunTo
  <2>3. \A j \in Jobs \ {i} : run'[j] = run[j]
    BY <1>2, <1>7 DEF GiveUp, FetchJob, RunTo
  <2>4. QED
    BY <1>3, <1>4, <2>1, <2>2, <2>3 DEF SettleInv, InHand
<1>8. CASE \/ CheckDraining(i) \/ SelectSlot(i) \/ SelectDraining(i) \/ Park(i)
           \/ ReadInput(i) \/ SaveLocks(i) \/ ProcessSucceeds(i)
           \/ ProcessFails(i) \/ OutputOpened(i) \/ OutputWritten(i)
           \/ OutputFails(i)
  <2>1. mem' = mem
    BY <1>8
       DEF CheckDraining, SelectSlot, SelectDraining, Park, ReadInput,
           SaveLocks, ProcessSucceeds, ProcessFails, OutputOpened,
           OutputWritten, OutputFails, storeVars
  <2>2. /\ run'[i] \notin {"idle", "releasing"}
        /\ \A j \in Jobs \ {i} : run'[j] = run[j]
    BY <1>2, <1>8
       DEF CheckDraining, SelectSlot, SelectDraining, Park, ReadInput,
           SaveLocks, ProcessSucceeds, ProcessFails, OutputOpened,
           OutputWritten, OutputFails, RunTo
  <2>3. QED
    BY <1>3, <1>4, <2>1, <2>2 DEF SettleInv, InHand
<1>9. QED
  BY <1>5, <1>6, <1>7, <1>8 DEF RunnerStep

LEMMA SweeperSettles ==
  ASSUME IInv, SettleInv, SweeperStep
  PROVE  SettleInv'
<1>1. mem \in [Jobs -> Record]
  BY DEF IInv, TypeOK, StoreTypeOK
<1>2. /\ UNCHANGED <<app, draining, late, req, run>>
      /\ \A j \in Jobs : mem'[j] \in {mem[j], Absent}
  BY <1>1
     DEF SweeperStep, BeginSweep, SweepLocks, EndSweep, StopSweeper, SweepJob,
         SweepUnlinks, SweepDeletes, SweepSkips, DeleteJob, storeVars,
         jobVars, appVars
<1>3. QED
  BY <1>2 DEF SettleInv, StopInv, InHand, Absent

LEMMA ProcessSettles ==
  ASSUME IInv, SettleInv, Boot \/ ServeStep \/ Signal \/ Deadline \/ Crash \/ Tick
  PROVE  SettleInv'
<1>1. /\ mem \in [Jobs -> Record] /\ dir \in [Jobs -> Directory]
      /\ run \in [Jobs -> RunnerState]
  BY DEF IInv, TypeOK, StoreTypeOK
<1>2. ASSUME NEW i \in Jobs, LoadEntry(i) PROVE SettleInv'
  <2>1. /\ UNCHANGED <<app, draining, late, req, run>>
        /\ \A j \in Jobs : mem'[j] = mem[j] \/ mem'[j].status \notin Live
    BY <1>1, <1>2, WhatIsRestored
       DEF LoadEntry, RemoveOrphan, RestoreFinished, RestoreInterrupted,
           jobVars, appVars
  <2>2. QED
    BY <2>1 DEF SettleInv, StopInv, InHand
<1>3. CASE Die
  BY <1>3 DEF Die, SettleInv, StopInv, InHand, Stopped, Absent
<1>4. CASE CloseDraining
  BY <1>1, <1>4
     DEF CloseDraining, storeVars, SettleInv, StopInv, InHand, Stopped
<1>5. CASE \/ Boot \/ Loaded \/ Signal \/ Deadline \/ RunnersDone
           \/ GiveUpWaiting \/ Tick
  <2>1. UNCHANGED <<mem, req, run>>
    BY <1>5 DEF Boot, Loaded, Signal, Deadline, RunnersDone, GiveUpWaiting,
                Tick, storeVars, jobVars
  <2>2. StopInv'
    BY <1>5, <2>1
       DEF Boot, Loaded, Signal, Deadline, RunnersDone, GiveUpWaiting, Tick,
           appVars, SettleInv, StopInv, Stopped
  <2>3. QED
    BY <2>1, <2>2 DEF SettleInv, InHand
<1>6. QED
  BY <1>2, <1>3, <1>4, <1>5 DEF ServeStep, Exit, Crash

(* A live job always has somebody to finish it.                            *)
LEMMA LiveIsInHand == Spec => []SettleInv
<1>1. Init => SettleInv
  BY DEF Init, StoreInit, SettleInv, StopInv, InHand, Stopped, Absent
<1>2. IInv /\ RecordInv /\ SettleInv /\ [Next]_vars => SettleInv'
  <2> SUFFICES ASSUME IInv, RecordInv, SettleInv, [Next]_vars
               PROVE  SettleInv'
    OBVIOUS
  <2>1. CASE UNCHANGED vars
    BY <2>1 DEF vars, SettleInv, StopInv, InHand
  <2>2. CASE Next
    BY <2>2, RequestSettles, RunnerSettles, SweeperSettles, ProcessSettles
       DEF Next
  <2>3. QED
    BY <2>1, <2>2
<1>3. QED
  BY <1>1, <1>2, Inductive, RecordsAgree, PTL DEF Spec

\* When Shutdown has returned nil no goroutine is left, and a job is under
\* way only in the hands of a handler that outlived the deadline: Add and
\* Wait never race, for any number of jobs (startJobRunner, Shutdown).
THEOREM DrainLeavesNothing == Spec => []DrainedIsSettled
<1>1. SettleInv => DrainedIsSettled
  BY DEF SettleInv, StopInv, InHand, DrainedIsSettled, Stopped, InRequest
<1>2. QED
  BY <1>1, LiveIsInHand, PTL

(* The three copies of a job's record, and who still works on one.         *)
Copies(j) == {mem[j], dir[j].record, held[j]}

\* A record that says what an earlier copy said of the time of acceptance.
Inherits(j, r) ==
    r.status # "absent" =>
        \E c \in Copies(j) : c.status # "absent" /\ c.createdAt = r.createdAt

CreatedInv(j) ==
    /\ \A r, s \in Copies(j) :
          "absent" \notin {r.status, s.status} => r.createdAt = s.createdAt
    /\ req[j] = "created" => held[j].status # "absent"
    /\ run[j] \in {"reading", "processing"} => held[j].status # "absent"

LEMMA CopiesInherit ==
  ASSUME NEW j \in Jobs, CreatedInv(j),
         Inherits(j, mem'[j]), Inherits(j, dir'[j].record),
         Inherits(j, held'[j]),
         req'[j] = "created" => held'[j].status # "absent",
         run'[j] \in {"reading", "processing"} => held'[j].status # "absent"
  PROVE  CreatedInv(j)'
  BY DEF CreatedInv, Inherits, Copies

LEMMA RequestKeepsCreation ==
  ASSUME IInv, RecordInv, NEW i \in Jobs, Accept(i) \/ RequestStep(i),
         NEW j \in Jobs, CreatedInv(j)
  PROVE  CreatedInv(j)'
<1>1. Standing(i) /\ Recorded(i) /\ TypeOK
  BY JobStands DEF RecordInv, IInv
<1>2. /\ mem \in [Jobs -> Record] /\ dir \in [Jobs -> Directory]
      /\ held \in [Jobs -> Record] /\ req \in [Jobs -> RequestState]
      /\ run \in [Jobs -> RunnerState] /\ clock \in Nat
  BY <1>1 DEF TypeOK, StoreTypeOK
<1>3. CASE i # j
  <2>1. /\ mem'[j] = mem[j] /\ dir'[j] = dir[j] /\ held'[j] = held[j]
        /\ req'[j] = req[j] /\ run'[j] = run[j]
    BY <1>2, <1>3
       DEF RequestStep, Accept, InputWritten, InputFails, CreateLocks,
           CreateReturns, StartRunner, RefuseRunner, MarkLocks, MarkReturns,
           ReqTo, RunTo, Hold, BeginInput, EndInput, Stage, CreateSucceeds,
           CreateFails, Save, Persist, storeVars
  <2>2. QED
    BY <2>1 DEF CreatedInv, Copies
<1>4. CASE i = j /\ Accept(j)
  <2>1. /\ mem'[j].status = "absent" /\ dir'[j].record.status = "absent"
        /\ req'[j] = "uploading" /\ run' = run /\ run[j] = "idle"
    BY <1>1, <1>2, <1>4
       DEF Accept, BeginInput, ReqTo, Standing, IInv, RequestInv, Directory,
           RunnerState, Uploading
  <2>2. QED
    BY <2>1 DEF CreatedInv, Copies
<1>5. CASE i = j /\ (CreateReturns(j) \/ MarkReturns(j))
  <2>1. /\ held[j].status # "absent" /\ run' = run
        /\ run[j] \notin {"reading", "processing"}
    BY <1>1, <1>5
       DEF CreateReturns, MarkReturns, Standing, Recorded, Files, InRequest,
           Uploading
  <2>2. /\ mem'[j] \in {mem[j], held[j]} /\ held'[j] \in {held[j], Absent}
        /\ req'[j] = "created" => held'[j] = held[j]
    BY <1>2, <1>5
       DEF CreateReturns, MarkReturns, CreateSucceeds, CreateFails, Save,
           ReqTo, Hold
  <2>3. \/ dir'[j].record \in {dir[j].record, Absent}
        \/ dir'[j].record = OnDisk(held[j])
    <3>1. CASE CreateReturns(j) /\ CreateFails(j)
      <4>1. PICK d \in Remains(dir[j]) : dir' = [dir EXCEPT ![j] = d]
        BY <3>1 DEF CreateFails
      <4>2. d.record \in {dir[j].record, Absent}
        BY RemainsAreEmptied
      <4>3. QED
        BY <1>2, <4>1, <4>2
    <3>2. CASE \/ CreateReturns(j) /\ CreateSucceeds(j, held[j])
               \/ MarkReturns(j)
      BY <1>2, <3>2
         DEF CreateSucceeds, MarkReturns, Save, Persist, Directory
    <3>3. QED
      BY <1>5, <3>1, <3>2 DEF CreateReturns
  <2>4. OnDisk(held[j]).createdAt = held[j].createdAt
    BY <1>2 DEF OnDisk, Record
  <2>5. QED
    BY <2>1, <2>2, <2>3, <2>4, CopiesInherit DEF Inherits, Copies, Absent
<1>6. CASE i = j /\ (StartRunner(j) \/ RefuseRunner(j) \/ InputFails(j))
  <2>1. mem' = mem /\ dir' = dir
    BY <1>6 DEF StartRunner, RefuseRunner, InputFails, storeVars
  <2>2. /\ held'[j] = Absent \/ held'[j] = Ended(held[j], "failed")
        /\ held'[j] # Absent => held[j].status # "absent"
        /\ req'[j] # "created" /\ run'[j] \in {run[j], "starting"}
        /\ run[j] \notin {"reading", "processing"}
    BY <1>1, <1>2, <1>6
       DEF StartRunner, RefuseRunner, InputFails, ReqTo, RunTo, Hold,
           CreatedInv, Standing, InRequest, Uploading
  <2>3. Ended(held[j], "failed").createdAt = held[j].createdAt
    BY <1>2 DEF Ended, Record
  <2>4. QED
    BY <2>1, <2>2, <2>3, CopiesInherit DEF Inherits, Copies, Absent
<1>7. CASE i = j /\ (InputWritten(j) \/ CreateLocks(j) \/ MarkLocks(j))
  <2>1. /\ mem' = mem /\ held' = held /\ run' = run
        /\ dir'[j].record = dir[j].record /\ req'[j] # "created"
    BY <1>2, <1>7
       DEF InputWritten, CreateLocks, MarkLocks, ReqTo, EndInput, Stage,
           Directory
  <2>2. QED
    BY <2>1 DEF CreatedInv, Copies
<1>8. QED
  BY <1>3, <1>4, <1>5, <1>6, <1>7 DEF RequestStep

LEMMA RunnerKeepsCreation ==
  ASSUME IInv, RecordInv, NEW i \in Jobs, RunnerStep(i),
         NEW j \in Jobs, CreatedInv(j)
  PROVE  CreatedInv(j)'
<1>1. Standing(i) /\ Recorded(i) /\ TypeOK
  BY JobStands DEF RecordInv, IInv
<1>2. /\ mem \in [Jobs -> Record] /\ dir \in [Jobs -> Directory]
      /\ held \in [Jobs -> Record] /\ waiting \in Seq(Jobs)
      /\ run \in [Jobs -> RunnerState] /\ clock \in Nat
  BY <1>1 DEF TypeOK, StoreTypeOK
<1>3. req' = req
  BY DEF RunnerStep, CheckDraining, SelectSlot, SelectDraining, Park, GiveUp,
         FetchJob, ReadInput, SaveLocks, SaveReturns, ProcessSucceeds,
         ProcessFails, OutputOpened, OutputWritten, OutputFails, ReleaseSlot
<1>4. CASE i # j
  <2>1. /\ mem'[j] = mem[j] /\ dir'[j] = dir[j] /\ held'[j] = held[j]
        /\ run'[j] = run[j] \/ run'[j] = "claimed"
    BY <1>2, <1>4
       DEF RunnerStep, CheckDraining, SelectSlot, SelectDraining, Park,
           GiveUp, FetchJob, ReadInput, SaveLocks, SaveReturns,
           ProcessSucceeds, ProcessFails, OutputOpened, OutputWritten,
           OutputFails, ReleaseSlot, RunTo, Hold, Stage, Save, Persist,
           BeginOutput, EndOutput, storeVars
  <2>2. QED
    BY <1>3, <2>1 DEF CreatedInv, Copies
<1>5. req[i] # "created"
  <2>1. run[i] # "idle"
    BY DEF RunnerStep, CheckDraining, SelectSlot, SelectDraining, Park,
           GiveUp, FetchJob, ReadInput, SaveLocks, SaveReturns,
           ProcessSucceeds, ProcessFails, OutputOpened, OutputWritten,
           OutputFails, ReleaseSlot
  <2>2. QED
    BY <1>1, <2>1 DEF Standing
<1>6. CASE i = j /\ SaveReturns(j)
  <2>1. held[j].status # "absent"
    BY <1>1, <1>6 DEF SaveReturns, Recorded, Held
  <2>2. /\ mem'[j] = held[j] /\ held'[j] \in {held[j], Absent}
        /\ dir'[j].record = dir[j].record \/ dir'[j].record = OnDisk(held[j])
        /\ run'[j] \in {"processing", "releasing", "idle"}
        /\ run'[j] = "processing" => held'[j] = held[j]
    BY <1>2, <1>6
       DEF SaveReturns, Save, Persist, Hold, RunTo, AfterSave, Directory
  <2>3. OnDisk(held[j]).createdAt = held[j].createdAt
    BY <1>2 DEF OnDisk, Record
  <2>4. QED
    BY <1>3, <1>5, <1>6, <2>1, <2>2, <2>3, CopiesInherit
       DEF Inherits, Copies, Absent
<1>7. CASE i = j /\ (SaveLocks(j) \/ OutputOpened(j))
  <2>1. /\ mem' = mem /\ held' = held /\ dir'[j].record = dir[j].record
        /\ run'[j] \in {"persisting", "writing"}
    BY <1>2, <1>7
       DEF SaveLocks, OutputOpened, Stage, BeginOutput, RunTo, Directory
  <2>2. QED
    BY <1>3, <2>1 DEF CreatedInv, Copies
<1>8. CASE i = j /\ \/ ReadInput(j) \/ ProcessSucceeds(j) \/ ProcessFails(j)
                    \/ OutputWritten(j) \/ OutputFails(j)
  <2>1. held[j].status # "absent"
    BY <1>1, <1>8
       DEF ReadInput, ProcessSucceeds, ProcessFails, OutputWritten,
           OutputFails, CreatedInv, Recorded, Held
  <2>2. /\ mem' = mem /\ dir'[j].record = dir[j].record
        /\ run'[j] \in {"saving", "output"}
    BY <1>2, <1>8
       DEF ReadInput, ProcessSucceeds, ProcessFails, OutputWritten,
           OutputFails, EndOutput, RunTo, storeVars, Directory
  <2>3. held'[j].createdAt = held[j].createdAt
    <3>1. CASE ReadInput(j)
      BY <1>2, <3>1 DEF ReadInput, Hold, Ended, Record
    <3>2. CASE ProcessSucceeds(j) \/ ProcessFails(j)
      BY <1>2, <3>2 DEF ProcessSucceeds, ProcessFails, Hold, Processed, Record
    <3>3. CASE OutputWritten(j)
      <4>1. held' = [held EXCEPT ![j].output = TRUE]
        BY <3>3 DEF OutputWritten
      <4>2. held'[j] = [held[j] EXCEPT !.output = TRUE]
        BY <1>2, <4>1
      <4>3. QED
        BY <1>2, <4>2 DEF Record
    <3>4. CASE OutputFails(j)
      BY <1>2, <3>4 DEF OutputFails, Record
    <3>5. QED
      BY <1>8, <3>1, <3>2, <3>3, <3>4
  <2>4. QED
    BY <1>3, <1>5, <1>8, <2>1, <2>2, <2>3, CopiesInherit DEF Inherits, Copies
<1>9. CASE i = j /\ (GiveUp(j) \/ FetchJob(j))
  <2>1. mem[j].status = "queued" /\ mem' = mem /\ dir' = dir
    BY <1>1, <1>9 DEF GiveUp, FetchJob, storeVars, Standing
  <2>2. /\ held'[j].status # "absent" /\ held'[j].createdAt = mem[j].createdAt
    BY <1>2, <1>9, <2>1 DEF GiveUp, FetchJob, Hold, Ended, Record
  <2>3. QED
    BY <1>3, <1>5, <1>9, <2>1, <2>2, CopiesInherit DEF Inherits, Copies
<1>10. CASE i = j /\ \/ CheckDraining(j) \/ SelectSlot(j) \/ SelectDraining(j)
                     \/ Park(j) \/ ReleaseSlot(j)
  <2>1. /\ mem' = mem /\ dir' = dir /\ held' = held
    BY <1>10
       DEF CheckDraining, SelectSlot, SelectDraining, Park, ReleaseSlot,
           storeVars
  <2>2. run'[j] \notin {"reading", "processing"}
    BY <1>2, <1>10
       DEF CheckDraining, SelectSlot, SelectDraining, Park, ReleaseSlot, RunTo
  <2>3. QED
    BY <1>3, <2>1, <2>2 DEF CreatedInv, Copies
<1>11. QED
  BY <1>4, <1>6, <1>7, <1>8, <1>9, <1>10 DEF RunnerStep

LEMMA SweeperKeepsCreation ==
  ASSUME IInv, SweeperStep, NEW j \in Jobs, CreatedInv(j)
  PROVE  CreatedInv(j)'
<1>1. mem \in [Jobs -> Record] /\ dir \in [Jobs -> Directory]
  BY DEF IInv, TypeOK, StoreTypeOK
<1>2. /\ UNCHANGED <<req, run, held>>
      /\ mem'[j] \in {mem[j], Absent}
      /\ dir'[j].record \in {dir[j].record, Absent}
  BY <1>1
     DEF SweeperStep, BeginSweep, SweepLocks, EndSweep, StopSweeper, SweepJob,
         SweepUnlinks, SweepDeletes, SweepSkips, UnlinkOne, DeleteJob, NoDir,
         Directory, storeVars, jobVars
<1>3. QED
  BY <1>2 DEF CreatedInv, Copies, Absent

LEMMA ProcessKeepsCreation ==
  ASSUME IInv, Boot \/ ServeStep \/ Signal \/ Deadline \/ Crash \/ Tick,
         NEW j \in Jobs, CreatedInv(j)
  PROVE  CreatedInv(j)'
<1>1. /\ mem \in [Jobs -> Record] /\ dir \in [Jobs -> Directory]
      /\ req \in [Jobs -> RequestState] /\ run \in [Jobs -> RunnerState]
  BY DEF IInv, TypeOK, StoreTypeOK
<1>2. ASSUME NEW i \in Jobs, LoadEntry(i) PROVE CreatedInv(j)'
  <2>1. UNCHANGED <<req, run, held>>
    BY <1>2 DEF LoadEntry, jobVars
  <2>2. CASE i # j
    <3>1. mem'[j] = mem[j] /\ dir'[j] = dir[j]
      BY <1>1, <1>2, <2>2
         DEF LoadEntry, RemoveOrphan, RestoreFinished, RestoreInterrupted, Persist
    <3>2. QED
      BY <2>1, <3>1 DEF CreatedInv, Copies
  <2>3. CASE i = j /\ RemoveOrphan(j)
    <3>1. PICK d \in Remains(dir[j]) : dir' = [dir EXCEPT ![j] = d]
      BY <2>3 DEF RemoveOrphan
    <3>2. d.record \in {dir[j].record, Absent}
      BY RemainsAreEmptied
    <3>3. mem' = mem /\ dir'[j].record \in {dir[j].record, Absent}
      BY <1>1, <2>3, <3>1, <3>2 DEF RemoveOrphan
    <3>4. QED
      BY <2>1, <3>3 DEF CreatedInv, Copies, Absent
  <2>4. CASE i = j /\ (RestoreFinished(j) \/ RestoreInterrupted(j))
    <3>1. /\ dir[j] \in Directory /\ dir[j].record \in Record
          /\ dir[j].record.status # "absent"
          /\ mem'[j] = Restored(dir[j])
          /\ dir' = dir \/ dir'[j].record = OnDisk(Restored(dir[j]))
      BY <1>1, <2>4 DEF RestoreFinished, RestoreInterrupted, Persist, Directory
    <3>2. /\ Restored(dir[j]).createdAt = dir[j].record.createdAt
          /\ OnDisk(Restored(dir[j])).createdAt = dir[j].record.createdAt
      BY <3>1 DEF Restored, OnDisk, Record
    <3>3. QED
      BY <2>1, <3>1, <3>2, CopiesInherit DEF CreatedInv, Inherits, Copies
  <2>5. QED
    BY <1>2, <2>2, <2>3, <2>4 DEF LoadEntry
<1>3. CASE Die
  <2>1. /\ mem'[j] = Absent /\ held'[j] = Absent /\ dir' = dir
        /\ req'[j] # "created" /\ run'[j] = "idle"
    BY <1>1, <1>3 DEF Die, InRequest
  <2>2. QED
    BY <2>1 DEF CreatedInv, Copies, Absent
<1>4. CASE CloseDraining
  BY <1>1, <1>4 DEF CloseDraining, storeVars, CreatedInv, Copies
<1>5. CASE \/ Boot \/ Loaded \/ Signal \/ Deadline \/ RunnersDone
           \/ GiveUpWaiting \/ Tick
  BY <1>5 DEF Boot, Loaded, Signal, Deadline, RunnersDone, GiveUpWaiting,
              Tick, storeVars, jobVars, CreatedInv, Copies
<1>6. QED
  BY <1>2, <1>3, <1>4, <1>5 DEF ServeStep, Exit, Crash

\* Memory, disk and the record a goroutine is about to save agree on when the
\* job was accepted, over any number of saves, failures and starts (runJob).
THEOREM AcceptanceIsDatedOnce == Spec => []CreationTimeKept
<1> DEFINE Dated == \A j \in Jobs : CreatedInv(j)
<1>1. Init => Dated
  BY DEF Init, StoreInit, CreatedInv, Copies, Absent, NoDir
<1>2. IInv /\ RecordInv /\ Dated /\ [Next]_vars => Dated'
  <2> SUFFICES ASSUME IInv, RecordInv, Dated, [Next]_vars, NEW j \in Jobs
               PROVE  CreatedInv(j)'
    OBVIOUS
  <2>1. CASE UNCHANGED vars
    BY <2>1 DEF vars, CreatedInv, Copies
  <2>2. CASE Next
    BY <2>2, RequestKeepsCreation, RunnerKeepsCreation, SweeperKeepsCreation,
       ProcessKeepsCreation DEF Next
  <2>3. QED
    BY <2>1, <2>2
<1>3. Dated => CreationTimeKept
  BY DEF CreatedInv, Copies, CreationTimeKept
<1> HIDE DEF Dated
<1>4. QED
  BY <1>1, <1>2, <1>3, Inductive, RecordsAgree, PTL DEF Spec

-----------------------------------------------------------------------------
(* Uploads.                                                                *)

\* NoUnreachableUpload, of one job, and what it rests on while load reads.
Reachable(j) ==
    /\ app \in Up /\ dir[j].present
          => req[j] \in Uploading \/ mem[j].status # "absent"
    /\ app = "loading" /\ dir[j].present
          => j \in todo \/ mem[j].status # "absent"

\* Neither an upload nor a removal fails half-way.
Unfailing == "input" \notin FaultyOps /\ "remove" \notin FaultyOps

(* What RemoveAll leaves of a directory when it does not fail.             *)
LEMMA NothingRemains ==
  ASSUME Unfailing, NEW d, NEW e \in Remains(d)
  PROVE  ~e.present
  BY DEF Unfailing, Remains, NoDir

(* A handler gives its upload up, or makes it a job.                       *)
LEMMA RequestKeepsReach ==
  ASSUME Unfailing, IInv, RecordInv, NEW i \in Jobs, Accept(i) \/ RequestStep(i),
         NEW j \in Jobs, Reachable(j)
  PROVE  Reachable(j)'
<1>1. Standing(i) /\ Recorded(i) /\ TypeOK
  BY JobStands DEF RecordInv, IInv
<1>2. /\ mem \in [Jobs -> Record] /\ dir \in [Jobs -> Directory]
      /\ held \in [Jobs -> Record] /\ req \in [Jobs -> RequestState]
  BY <1>1 DEF TypeOK, StoreTypeOK
<1>3. app' = app /\ todo' = todo
  BY DEF RequestStep, Accept, InputWritten, InputFails, CreateLocks,
         CreateReturns, StartRunner, RefuseRunner, MarkLocks, MarkReturns,
         appVars, sweepVars
<1>4. CASE i # j
  <2>1. mem'[j] = mem[j] /\ dir'[j] = dir[j] /\ req'[j] = req[j]
    BY <1>2, <1>4
       DEF RequestStep, Accept, InputWritten, InputFails, CreateLocks,
           CreateReturns, StartRunner, RefuseRunner, MarkLocks, MarkReturns,
           ReqTo, BeginInput, EndInput, Stage, CreateSucceeds, CreateFails,
           Save, Persist, storeVars
  <2>2. QED
    BY <1>3, <2>1 DEF Reachable
<1>5. app \in Up
  BY LivesInProcess
<1>6. CASE i = j
  <2>1. CASE Accept(j) \/ InputWritten(j) \/ CreateLocks(j)
    <3>1. req'[j] \in Uploading
      BY <1>2, <2>1 DEF Accept, InputWritten, CreateLocks, ReqTo, Uploading
    <3>2. QED
      BY <1>3, <1>5, <3>1 DEF Reachable, Up
  <2>2. CASE CreateReturns(j) /\ CreateSucceeds(j, held[j])
    <3>1. mem'[j].status # "absent"
      BY <1>1, <1>2, <1>6, <2>2
         DEF CreateReturns, CreateSucceeds, Standing, Uploading
    <3>2. QED
      BY <3>1 DEF Reachable
  <2>3. CASE CreateReturns(j) /\ CreateFails(j)
    <3>1. ~dir'[j].present
      BY <1>2, <2>3, NothingRemains DEF CreateFails
    <3>2. QED
      BY <3>1 DEF Reachable
  <2>4. CASE StartRunner(j) \/ RefuseRunner(j) \/ MarkLocks(j) \/ MarkReturns(j)
    <3>1. mem'[j].status # "absent"
      BY <1>1, <1>2, <1>6, <2>4
         DEF StartRunner, RefuseRunner, MarkLocks, MarkReturns, Save, Standing,
             Recorded, Files, storeVars
    <3>2. QED
      BY <3>1 DEF Reachable
  <2>5. ~InputFails(j)
    BY DEF InputFails, Unfailing
  <2>6. QED
    BY <1>6, <2>1, <2>2, <2>3, <2>4, <2>5 DEF RequestStep, CreateReturns
<1>7. QED
  BY <1>4, <1>6

(* A goroutine that makes a directory has its job in the store.            *)
LEMMA RunnerKeepsReach ==
  ASSUME IInv, RecordInv, NEW i \in Jobs, RunnerStep(i),
         NEW j \in Jobs, Reachable(j)
  PROVE  Reachable(j)'
<1>1. Standing(i) /\ Recorded(i) /\ TypeOK
  BY JobStands DEF RecordInv, IInv
<1>2. /\ mem \in [Jobs -> Record] /\ dir \in [Jobs -> Directory]
  BY <1>1 DEF TypeOK, StoreTypeOK
<1>3. UNCHANGED <<app, todo, req>>
  BY DEF RunnerStep, CheckDraining, SelectSlot, SelectDraining, Park, GiveUp,
         FetchJob, ReadInput, SaveLocks, SaveReturns, ProcessSucceeds,
         ProcessFails, OutputOpened, OutputWritten, OutputFails, ReleaseSlot,
         appVars, sweepVars
<1>4. CASE SaveLocks(i) \/ SaveReturns(i) \/ OutputOpened(i) \/ OutputWritten(i)
  <2>1. mem'[i].status # "absent"
    BY <1>1, <1>2, <1>4
       DEF SaveLocks, SaveReturns, OutputOpened, OutputWritten, Save, Standing,
           Recorded, Held
  <2>2. i # j => mem'[j] = mem[j] /\ dir'[j] = dir[j]
    BY <1>2, <1>4
       DEF SaveLocks, SaveReturns, OutputOpened, OutputWritten, Save, Persist,
           Stage, BeginOutput, EndOutput
  <2>3. QED
    BY <1>3, <2>1, <2>2 DEF Reachable
<1>5. CASE \/ CheckDraining(i) \/ SelectSlot(i) \/ SelectDraining(i) \/ Park(i)
           \/ GiveUp(i) \/ FetchJob(i) \/ ReadInput(i) \/ ProcessSucceeds(i)
           \/ ProcessFails(i) \/ OutputFails(i) \/ ReleaseSlot(i)
  <2>1. mem' = mem /\ dir' = dir
    BY <1>5
       DEF CheckDraining, SelectSlot, SelectDraining, Park, GiveUp, FetchJob,
           ReadInput, ProcessSucceeds, ProcessFails, OutputFails, ReleaseSlot,
           storeVars
  <2>2. QED
    BY <1>3, <2>1 DEF Reachable
<1>6. QED
  BY <1>4, <1>5 DEF RunnerStep

(* The sweeper forgets a job when its directory is gone.                   *)
LEMMA SweeperKeepsReach ==
  ASSUME IInv, SweeperStep, NEW j \in Jobs, Reachable(j)
  PROVE  Reachable(j)'
<1>1. mem \in [Jobs -> Record] /\ dir \in [Jobs -> Directory]
  BY DEF IInv, TypeOK, StoreTypeOK
<1>2. /\ req' = req /\ app' = app /\ app \in Up
      /\ \/ mem'[j] = mem[j] /\ dir'[j].present = dir[j].present
         \/ ~dir'[j].present
  <2>1. app \in Up
    BY LivesInProcess
  <2>2. QED
    BY <1>1, <2>1
       DEF SweeperStep, BeginSweep, SweepLocks, EndSweep, StopSweeper, SweepJob,
           SweepUnlinks, SweepDeletes, SweepSkips, UnlinkOne, DeleteJob, NoDir,
           Directory, storeVars, jobVars, appVars
<1>3. QED
  BY <1>2 DEF Reachable, Up

(* load removes every directory it does not restore.                       *)
LEMMA ProcessKeepsReach ==
  ASSUME Unfailing, IInv,
         Boot \/ ServeStep \/ Signal \/ Deadline \/ Crash \/ Tick,
         NEW j \in Jobs, Reachable(j)
  PROVE  Reachable(j)'
<1>1. mem \in [Jobs -> Record] /\ dir \in [Jobs -> Directory]
  BY DEF IInv, TypeOK, StoreTypeOK
<1>2. ASSUME NEW i \in Jobs, LoadEntry(i) PROVE Reachable(j)'
  <2>1. app = "loading" /\ app' = app /\ todo' = todo \ {i}
    BY <1>2 DEF LoadEntry, appVars
  <2>2. CASE i # j
    <3>1. mem'[j] = mem[j] /\ dir'[j] = dir[j]
      BY <1>1, <1>2, <2>2
         DEF LoadEntry, RemoveOrphan, RestoreFinished, RestoreInterrupted, Persist
    <3>2. QED
      BY <2>1, <2>2, <3>1 DEF Reachable, Up, AppState
  <2>3. CASE i = j /\ RemoveOrphan(j)
    <3>1. ~dir'[j].present
      BY <1>1, <2>3, NothingRemains DEF RemoveOrphan
    <3>2. QED
      BY <3>1 DEF Reachable
  <2>4. CASE i = j /\ (RestoreFinished(j) \/ RestoreInterrupted(j))
    <3>1. mem'[j].status # "absent"
      BY <1>1, <2>4, WhatIsRestored DEF RestoreFinished, RestoreInterrupted
    <3>2. QED
      BY <3>1 DEF Reachable
  <2>5. QED
    BY <1>2, <2>2, <2>3, <2>4 DEF LoadEntry
<1>3. CASE Boot
  BY <1>3 DEF Boot, Reachable, Up
<1>4. CASE Loaded
  BY <1>4 DEF Loaded, Reachable
<1>5. CASE Die
  BY <1>5 DEF Die, Reachable, Up
<1>6. CASE Signal \/ Deadline \/ Tick \/ CloseDraining \/ RunnersDone \/ GiveUpWaiting
  <2>1. UNCHANGED <<mem, dir, req, todo>>
    BY <1>6
       DEF Signal, Deadline, Tick, CloseDraining, RunnersDone, GiveUpWaiting,
           storeVars, jobVars, sweepVars
  <2>2. app' = app \/ {app, app'} \subseteq Up
    BY <1>6
       DEF Signal, Deadline, Tick, CloseDraining, RunnersDone, GiveUpWaiting,
           appVars, Up, AppState, Stopped
  <2>3. QED
    BY <2>1, <2>2 DEF Reachable, Up
<1>7. QED
  BY <1>2, <1>3, <1>4, <1>5, <1>6 DEF ServeStep, Exit, Crash

\* While neither an upload nor a removal fails half-way, every directory with
\* an upload belongs to a request in progress or to a job that retention will
\* reach, whatever else fails and however often the process starts (Create,
\* load, DeleteExpired).
THEOREM UploadsAreReached ==
  ASSUME Unfailing
  PROVE  Spec => []NoUnreachableUpload
<1> DEFINE Reached == \A j \in Jobs : Reachable(j)
<1>1. Init => Reached
  BY DEF Init, StoreInit, Reachable, NoDir
<1>2. IInv /\ RecordInv /\ Reached /\ [Next]_vars => Reached'
  <2> SUFFICES ASSUME IInv, RecordInv, Reached, [Next]_vars, NEW j \in Jobs
               PROVE  Reachable(j)'
    OBVIOUS
  <2>1. CASE UNCHANGED vars
    BY <2>1 DEF vars, Reachable
  <2>2. CASE Next
    BY <2>2, RequestKeepsReach, RunnerKeepsReach, SweeperKeepsReach,
       ProcessKeepsReach DEF Next
  <2>3. QED
    BY <2>1, <2>2
<1>3. Reached => NoUnreachableUpload
  BY DEF Reachable, NoUnreachableUpload
<1> HIDE DEF Reached
<1>4. QED
  BY <1>1, <1>2, <1>3, Inductive, RecordsAgree, PTL DEF Spec

-----------------------------------------------------------------------------
(* How far the disk may be behind memory when a write fails.               *)

\* A job that has not ended in memory has not ended on disk, one that is
\* completed has not failed there, and no result of a completed one is cut
\* short, whatever its age.
SavedSoFar(j) ==
    /\ UnderWay(j) => dir[j].record.status \notin Terminal
    /\ mem[j].status = "completed" => dir[j].record.status # "failed"
    /\ "completed" \in {mem[j].status, dir[j].record.status}
          => dir[j].output # "partial"

(* A handler's job is recorded as queued, and ends with its request.       *)
LEMMA RequestKeepsSaved ==
  ASSUME IInv, RecordInv, NEW i \in Jobs, Accept(i) \/ RequestStep(i),
         NEW j \in Jobs, SavedSoFar(j)
  PROVE  SavedSoFar(j)'
<1>1. Standing(i) /\ Recorded(i) /\ TypeOK
  BY JobStands DEF RecordInv, IInv
<1>2. /\ mem \in [Jobs -> Record] /\ dir \in [Jobs -> Directory]
      /\ held \in [Jobs -> Record] /\ req \in [Jobs -> RequestState]
      /\ run \in [Jobs -> RunnerState]
  BY <1>1 DEF TypeOK, StoreTypeOK
<1>3. CASE i # j
  <2>1. /\ mem'[j] = mem[j] /\ dir'[j] = dir[j]
        /\ req'[j] = req[j] /\ run'[j] = run[j]
    BY <1>2, <1>3
       DEF RequestStep, Accept, InputWritten, InputFails, CreateLocks,
           CreateReturns, StartRunner, RefuseRunner, MarkLocks, MarkReturns,
           ReqTo, RunTo, BeginInput, EndInput, Stage, CreateSucceeds,
           CreateFails, Save, Persist, storeVars
  <2>2. QED
    BY <2>1 DEF SavedSoFar, UnderWay
<1>4. CASE i = j
  <2>1. /\ run[j] = "idle" /\ mem[j].status \in {"absent", "queued"}
        /\ req[j] \in {"none"} \cup InRequest
    BY <1>1, <1>4
       DEF RequestStep, Accept, InputWritten, InputFails, CreateLocks,
           CreateReturns, StartRunner, RefuseRunner, MarkLocks, MarkReturns,
           Standing, Recorded, Files, InRequest, Uploading
  <2>2. dir[j].record.status \notin Terminal
    BY <2>1 DEF SavedSoFar, UnderWay
  <2>3. CASE CreateReturns(j) /\ CreateSucceeds(j, held[j])
    <3>1. held[j].status = "queued" /\ OnDisk(held[j]).status = "queued"
      BY <1>1, <1>2, <1>4, <2>3
         DEF CreateReturns, Standing, Uploading, OnDisk, Record
    <3>2. mem'[j].status = "queued" /\ dir'[j].record.status = "queued"
      BY <1>2, <2>3, <3>1 DEF CreateSucceeds, Persist, Directory
    <3>3. QED
      BY <3>2 DEF SavedSoFar
  <2>4. CASE CreateReturns(j) /\ CreateFails(j)
    <3>1. PICK d \in Remains(dir[j]) : dir' = [dir EXCEPT ![j] = d]
      BY <2>4 DEF CreateFails
    <3>2. d.record \in {dir[j].record, Absent}
      BY RemainsAreEmptied
    <3>3. mem' = mem /\ dir'[j].record.status \notin Terminal
      BY <1>2, <2>2, <2>4, <3>1, <3>2 DEF CreateFails, Absent
    <3>4. QED
      BY <2>1, <3>3 DEF SavedSoFar
  <2>5. CASE MarkReturns(j)
    <3>1. held[j].status = "failed" /\ OnDisk(held[j]).status = "failed"
      BY <1>1, <1>2, <1>4, <2>5
         DEF MarkReturns, Recorded, Files, OnDisk, Record
    <3>2. /\ mem'[j].status = "failed" /\ dir'[j].record.status # "completed"
          /\ req'[j] = "answered" /\ run' = run
      BY <1>2, <2>2, <2>5, <3>1
         DEF MarkReturns, Save, Persist, ReqTo, Directory
    <3>3. QED
      BY <2>1, <3>2 DEF SavedSoFar, UnderWay, InRequest, Uploading
  <2>6. CASE \/ Accept(j) \/ InputWritten(j) \/ InputFails(j) \/ CreateLocks(j)
             \/ StartRunner(j) \/ RefuseRunner(j) \/ MarkLocks(j)
    <3>1. mem' = mem /\ dir'[j].record = dir[j].record
      BY <1>2, <2>6
         DEF Accept, InputWritten, InputFails, CreateLocks, StartRunner,
             RefuseRunner, MarkLocks, BeginInput, EndInput, Stage, storeVars,
             Directory
    <3>2. QED
      BY <2>1, <2>2, <3>1 DEF SavedSoFar
  <2>7. QED
    BY <1>4, <2>3, <2>4, <2>5, <2>6 DEF RequestStep, CreateReturns
<1>5. QED
  BY <1>3, <1>4

(* A goroutine writes the result before it saves that the job has ended,   *)
(* and has nothing left to write afterwards.                               *)
LEMMA RunnerKeepsSaved ==
  ASSUME IInv, RecordInv, NEW i \in Jobs, RunnerStep(i),
         NEW j \in Jobs, SavedSoFar(j)
  PROVE  SavedSoFar(j)'
<1>1. Standing(i) /\ Recorded(i) /\ Standing(j) /\ TypeOK
  BY JobStands DEF RecordInv, IInv
<1>2. /\ mem \in [Jobs -> Record] /\ dir \in [Jobs -> Directory]
      /\ held \in [Jobs -> Record] /\ run \in [Jobs -> RunnerState]
      /\ waiting \in Seq(Jobs)
  BY <1>1 DEF TypeOK, StoreTypeOK
<1>3. req' = req
  BY DEF RunnerStep, CheckDraining, SelectSlot, SelectDraining, Park, GiveUp,
         FetchJob, ReadInput, SaveLocks, SaveReturns, ProcessSucceeds,
         ProcessFails, OutputOpened, OutputWritten, OutputFails, ReleaseSlot
<1>4. CASE ReleaseSlot(i)
  <2>1. mem' = mem /\ dir' = dir
    BY <1>4 DEF ReleaseSlot, storeVars
  <2>2. UnderWay(j)' => UnderWay(j)
    <3>1. CASE waiting = <<>>
      BY <1>2, <1>3, <1>4, <3>1 DEF ReleaseSlot, RunTo, UnderWay
    <3>2. CASE waiting # <<>>
      <4>1. run[Head(waiting)] = "parked" /\ Head(waiting) \in Jobs
        BY <1>2, <3>2 DEF IInv, QueueInv
      <4>2. QED
        BY <1>2, <1>3, <1>4, <3>2, <4>1 DEF ReleaseSlot, UnderWay
    <3>3. QED
      BY <3>1, <3>2
  <2>3. QED
    BY <2>1, <2>2 DEF SavedSoFar
<1>5. CASE i # j /\ ~ReleaseSlot(i)
  <2>1. /\ mem'[j] = mem[j] /\ dir'[j] = dir[j] /\ run'[j] = run[j]
    BY <1>2, <1>5
       DEF RunnerStep, CheckDraining, SelectSlot, SelectDraining, Park,
           GiveUp, FetchJob, ReadInput, SaveLocks, SaveReturns,
           ProcessSucceeds, ProcessFails, OutputOpened, OutputWritten,
           OutputFails, RunTo, Hold, Stage, Save, Persist, BeginOutput,
           EndOutput, storeVars
  <2>2. QED
    BY <1>3, <2>1 DEF SavedSoFar, UnderWay
<1>6. CASE i = j /\ ~ReleaseSlot(i)
  <2>1. /\ run[j] \notin {"idle", "releasing"} /\ mem[j].status \in Live
        /\ dir[j].record.status \notin Terminal
    <3>1. run[j] \notin {"idle", "releasing"}
      BY <1>6
         DEF RunnerStep, CheckDraining, SelectSlot, SelectDraining, Park,
             GiveUp, FetchJob, ReadInput, SaveLocks, SaveReturns,
             ProcessSucceeds, ProcessFails, OutputOpened, OutputWritten,
             OutputFails
    <3>2. mem[j].status \in Live
      BY <1>1, <3>1 DEF Standing, RunnerState, Masking
    <3>3. QED
      BY <3>1, <3>2 DEF SavedSoFar, UnderWay
  <2>2. CASE SaveReturns(j)
    <3>1. /\ held[j].status \in {"running"} \cup Terminal
          /\ held[j].status = "completed" => dir[j].output = "whole"
          /\ OnDisk(held[j]).status = held[j].status
      BY <1>1, <1>2, <1>6, <2>2
         DEF SaveReturns, Recorded, Held, OnDisk, Record
    <3>2. /\ mem'[j] = held[j] /\ dir'[j].output = dir[j].output
          /\ dir'[j].record.status \in {dir[j].record.status, held[j].status}
          /\ held[j].status # "running" => run'[j] \in {"idle", "releasing"}
      BY <1>2, <2>2, <3>1
         DEF SaveReturns, Save, Persist, RunTo, AfterSave, Directory
    <3>3. req[j] = "answered"
      BY <1>1, <2>1 DEF Standing
    <3>4. held[j].status = "running" => SavedSoFar(j)'
      BY <2>1, <3>2 DEF SavedSoFar
    <3>5. held[j].status # "running" => ~UnderWay(j)'
      BY <1>3, <3>2, <3>3 DEF UnderWay, InRequest, Uploading
    <3>6. QED
      BY <2>1, <3>1, <3>2, <3>4, <3>5 DEF SavedSoFar
  <2>3. CASE ~SaveReturns(j)
    <3>1. mem' = mem /\ dir'[j].record = dir[j].record
      BY <1>2, <1>6, <2>3
         DEF RunnerStep, CheckDraining, SelectSlot, SelectDraining, Park,
             GiveUp, FetchJob, ReadInput, SaveLocks, ProcessSucceeds,
             ProcessFails, OutputOpened, OutputWritten, OutputFails, Stage,
             BeginOutput, EndOutput, storeVars, Directory
    <3>2. QED
      BY <2>1, <3>1 DEF SavedSoFar
  <2>4. QED
    BY <2>2, <2>3
<1>7. QED
  BY <1>4, <1>5, <1>6

(* The sweeper only takes away.                                            *)
LEMMA SweeperKeepsSaved ==
  ASSUME IInv, SweeperStep, NEW j \in Jobs, SavedSoFar(j)
  PROVE  SavedSoFar(j)'
<1>1. mem \in [Jobs -> Record] /\ dir \in [Jobs -> Directory]
  BY DEF IInv, TypeOK, StoreTypeOK
<1>2. /\ UNCHANGED <<req, run>>
      /\ mem'[j] \in {mem[j], Absent}
      /\ dir'[j].record \in {dir[j].record, Absent}
      /\ dir'[j].output \in {dir[j].output, "none"}
  BY <1>1
     DEF SweeperStep, BeginSweep, SweepLocks, EndSweep, StopSweeper, SweepJob,
         SweepUnlinks, SweepDeletes, SweepSkips, UnlinkOne, DeleteJob, NoDir,
         Directory, storeVars, jobVars
<1>3. QED
  BY <1>2 DEF SavedSoFar, UnderWay, Absent

(* A start gives every job back as the disk has it.                        *)
LEMMA ProcessKeepsSaved ==
  ASSUME IInv, RecordInv,
         Boot \/ ServeStep \/ Signal \/ Deadline \/ Crash \/ Tick,
         NEW j \in Jobs, SavedSoFar(j)
  PROVE  SavedSoFar(j)'
<1>1. /\ mem \in [Jobs -> Record] /\ dir \in [Jobs -> Directory]
      /\ req \in [Jobs -> RequestState] /\ run \in [Jobs -> RunnerState]
      /\ Standing(j)
  BY JobStands DEF IInv, TypeOK, StoreTypeOK
<1>2. ASSUME NEW i \in Jobs, LoadEntry(i) PROVE SavedSoFar(j)'
  <2>1. UNCHANGED <<req, run>> /\ app = "loading"
    BY <1>2 DEF LoadEntry, jobVars
  <2>2. CASE i # j
    <3>1. mem'[j] = mem[j] /\ dir'[j] = dir[j]
      BY <1>1, <1>2, <2>2
         DEF LoadEntry, RemoveOrphan, RestoreFinished, RestoreInterrupted, Persist
    <3>2. QED
      BY <2>1, <3>1 DEF SavedSoFar, UnderWay
  <2>3. CASE i = j /\ RemoveOrphan(j)
    <3>1. PICK d \in Remains(dir[j]) : dir' = [dir EXCEPT ![j] = d]
      BY <2>3 DEF RemoveOrphan
    <3>2. /\ d.record \in {dir[j].record, Absent}
          /\ d.output \in {dir[j].output, "none"}
      <4>1. NoDir.output = "none"
        BY DEF NoDir
      <4>2. d.record \in {dir[j].record, Absent}
        BY RemainsAreEmptied
      <4>3. QED
        BY <4>1, <4>2 DEF Remains
    <3>3. /\ mem' = mem /\ dir'[j].record \in {dir[j].record, Absent}
          /\ dir'[j].output \in {dir[j].output, "none"}
      BY <1>1, <2>3, <3>1, <3>2 DEF RemoveOrphan
    <3>4. QED
      BY <2>1, <3>3 DEF SavedSoFar, UnderWay, Absent
  <2>4. CASE i = j /\ (RestoreFinished(j) \/ RestoreInterrupted(j))
    <3>1. /\ dir[j] \in Directory /\ mem'[j] = Restored(dir[j])
          /\ dir[j].record.status # "absent"
          /\ dir'[j].output = dir[j].output
          /\ dir' = dir \/ dir'[j].record = OnDisk(Restored(dir[j]))
          /\ dir[j].record.status \in Terminal => dir' = dir
      BY <1>1, <2>4 DEF RestoreFinished, RestoreInterrupted, Persist, Directory
    <3>2. /\ mem'[j].status = IF dir[j].record.status \in Live THEN "failed"
                              ELSE dir[j].record.status
          /\ dir'[j].record.status \in {dir[j].record.status, mem'[j].status}
      BY <3>1, WhatIsRestored
    <3>3. ~UnderWay(j)'
      <4>1. run[j] = "idle" /\ req[j] \notin InRequest
        BY <1>1, <2>1 DEF Standing, Up
      <4>2. req[j] # "none"
        BY <3>1 DEF IInv, RequestInv
      <4>3. QED
        BY <2>1, <4>1, <4>2 DEF UnderWay
    <3>4. QED
      BY <1>1, <3>1, <3>2, <3>3 DEF SavedSoFar, Directory, Record
  <2>5. QED
    BY <1>2, <2>2, <2>3, <2>4 DEF LoadEntry
<1>3. CASE Die
  <2>1. /\ mem'[j] = Absent /\ dir' = dir /\ run'[j] = "idle"
        /\ req'[j] \in {"none"} \cup InRequest => req[j] = "none"
    BY <1>1, <1>3 DEF Die, InRequest, Uploading
  <2>2. QED
    BY <2>1 DEF SavedSoFar, UnderWay, Absent
<1>4. CASE CloseDraining
  BY <1>1, <1>4 DEF CloseDraining, storeVars, SavedSoFar, UnderWay
<1>5. CASE \/ Boot \/ Loaded \/ Signal \/ Deadline \/ RunnersDone
           \/ GiveUpWaiting \/ Tick
  BY <1>5 DEF Boot, Loaded, Signal, Deadline, RunnersDone, GiveUpWaiting,
              Tick, storeVars, jobVars, SavedSoFar, UnderWay
<1>6. QED
  BY <1>2, <1>3, <1>4, <1>5 DEF ServeStep, Exit, Crash

SavedInv == \A j \in Jobs : SavedSoFar(j)

\* The disk falls behind memory only as SavedSoFar says, whatever fails and
\* wherever the process is stopped: an ended job is never under way again, and
\* a completed one never turns out to have failed (runJob, Save, load).
THEOREM DiskFollowsMemory == Spec => []SavedInv
<1>1. Init => SavedInv
  BY DEF Init, StoreInit, SavedInv, SavedSoFar, Absent, NoDir
<1>2. IInv /\ RecordInv /\ SavedInv /\ [Next]_vars => SavedInv'
  <2> SUFFICES ASSUME IInv, RecordInv, SavedInv, [Next]_vars, NEW j \in Jobs
               PROVE  SavedSoFar(j)'
    BY DEF SavedInv
  <2>1. CASE UNCHANGED vars
    BY <2>1 DEF vars, SavedInv, SavedSoFar, UnderWay
  <2>2. CASE Next
    BY <2>2, RequestKeepsSaved, RunnerKeepsSaved, SweeperKeepsSaved,
       ProcessKeepsSaved DEF Next, SavedInv
  <2>3. QED
    BY <2>1, <2>2
<1>3. QED
  BY <1>1, <1>2, Inductive, RecordsAgree, PTL DEF Spec

=============================================================================
