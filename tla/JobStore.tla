------------------------------ MODULE JobStore ------------------------------
(***************************************************************************)
(* The job store: the records kept in memory, the directory each job has   *)
(* on disk, the lock over both, and the effect of every store operation.   *)
(* JobService says who calls these operations and when.                    *)
(*                                                                         *)
(* A record is stored by writing a temporary file and renaming it over     *)
(* job.json.  Nothing reads the temporary file, so it is not kept: the     *)
(* rename is the step that changes the record, and a crash before it       *)
(* leaves the previous record.  The in-memory map changes at the same      *)
(* step, which is also the one that releases the lock: nobody can read the *)
(* map between the assignment in the code and the unlock.                  *)
(***************************************************************************)
EXTENDS Integers, FiniteSets, Sequences

CONSTANTS
    Jobs,       \* the job ids uuid.NewString hands out; each is used once
    Retention,  \* JobRetention in ticks of the clock; 0 switches the sweeper off
    MaxClock,   \* bound on the clock
    FaultyOps   \* which file operations may fail

ASSUME RetentionAssumption == Retention \in Nat
ASSUME ClockAssumption == MaxClock \in Nat
ASSUME FaultAssumption ==
    FaultyOps \subseteq {"input", "output", "record", "read", "remove"}
\* The values of mu that are not jobs.
ASSUME JobsAssumption == Jobs \cap {"free", "load", "sweep"} = {}

VARIABLES
    mem,    \* the records in memory
    dir,    \* the job directories on disk
    mu,     \* who holds the store's lock: a job's goroutine, "load", "sweep"
    clock   \* time.Now()

storeVars == <<mem, dir, mu>>

Live == {"queued", "running"}
Terminal == {"completed", "failed"}

\* output says whether OutputPath is set.  It is never part of job.json.
Record == [status : {"absent"} \cup Live \cup Terminal,
           createdAt : Nat, updatedAt : Nat, output : BOOLEAN]

Absent == [status |-> "absent", createdAt |-> 0, updatedAt |-> 0,
           output |-> FALSE]

File == {"none", "partial", "whole"}

Directory == [present : BOOLEAN, input : File, output : File, record : Record]

NoDir == [present |-> FALSE, input |-> "none", output |-> "none",
          record |-> Absent]

StoreTypeOK ==
    /\ mem \in [Jobs -> Record]
    /\ dir \in [Jobs -> Directory]
    /\ mu \in Jobs \cup {"free", "load", "sweep"}
    /\ clock \in Nat

StoreInit ==
    /\ mem = [j \in Jobs |-> Absent]
    /\ dir = [j \in Jobs |-> NoDir]
    /\ mu = "free"
    /\ clock = 0

-----------------------------------------------------------------------------
(* The lock.  Get and List take it shared and hold it for one step.        *)

Lock(owner) == mu = "free" /\ mu' = owner
Unlock == mu' = "free"
Readable == mu = "free"

-----------------------------------------------------------------------------
(* Documents.  os.WriteFile creates or truncates the file and then fills   *)
(* it; both operations work outside the lock.                              *)

BeginInput(j) ==
    dir' = [dir EXCEPT ![j].present = TRUE, ![j].input = "partial"]
EndInput(j) ==
    dir' = [dir EXCEPT ![j].input = "whole"]
BeginOutput(j) ==
    dir' = [dir EXCEPT ![j].present = TRUE, ![j].output = "partial"]
EndOutput(j) ==
    dir' = [dir EXCEPT ![j].output = "whole"]

(* What os.RemoveAll can leave of a directory: nothing, or, when it fails, *)
(* whatever it had not unlinked yet.                                       *)
Remains(d) ==
    {NoDir} \cup
    (IF "remove" \in FaultyOps
     THEN [present : {TRUE}, input : {d.input, "none"},
           output : {d.output, "none"}, record : {d.record, Absent}]
     ELSE {})

-----------------------------------------------------------------------------
(* Records.                                                                *)

\* What job.json keeps of a record: the paths are left out.
OnDisk(r) == [r EXCEPT !.output = FALSE]

\* Wrong on purpose: job.json is truncated and rewritten in place.
StageInPlace(j) ==
    dir' = [dir EXCEPT ![j].present = TRUE, ![j].record = Absent]

\* persistLocked up to the rename: MkdirAll, which would recreate a
\* directory that somebody has removed, and the temporary file.
Stage(j) == dir' = [dir EXCEPT ![j].present = TRUE]

Persist(j, r) == dir' = [dir EXCEPT ![j].record = OnDisk(r)]

\* Wrong on purpose: the error return leaves the lock held.
SaveKeepsLock(j, r) ==
    /\ mem' = [mem EXCEPT ![j] = r]
    /\ \/ Persist(j, r) /\ Unlock
       \/ "record" \in FaultyOps /\ UNCHANGED <<dir, mu>>

Save(j, r) ==
    /\ mem' = [mem EXCEPT ![j] = r]
    /\ \/ Persist(j, r)
       \/ "record" \in FaultyOps /\ UNCHANGED dir
    /\ Unlock

CreateSucceeds(j, r) ==
    /\ mem' = [mem EXCEPT ![j] = r]
    /\ Persist(j, r)
    /\ Unlock

\* Wrong on purpose: the upload stays behind.
CreateFailsKeepingUpload(j) ==
    /\ "record" \in FaultyOps
    /\ Unlock
    /\ UNCHANGED <<mem, dir>>

CreateFails(j) ==
    /\ "record" \in FaultyOps
    /\ \E d \in Remains(dir[j]) : dir' = [dir EXCEPT ![j] = d]
    /\ Unlock
    /\ UNCHANGED mem

-----------------------------------------------------------------------------
(* load reads one directory at a time, all of it under the lock.           *)

\* A directory without a usable record goes.
RemoveOrphan(j) ==
    /\ dir[j].record.status = "absent"
    /\ \E d \in Remains(dir[j]) : dir' = [dir EXCEPT ![j] = d]
    /\ UNCHANGED mem

\* Wrong on purpose: a restart counts as an update.
RestoredNow(d) ==
    [d.record EXCEPT
       !.status = IF @ \in Live THEN "failed" ELSE @,
       !.updatedAt = IF d.record.status \in Live THEN clock ELSE @,
       !.output = d.record.status = "completed" /\ d.output # "none"]

\* Wrong on purpose: a job under way is restored as it was.
RestoredAsIs(d) ==
    [d.record EXCEPT !.output = @ \/ d.output # "none"]

\* Wrong on purpose: the result is not looked for, although job.json does not
\* keep its path.
RestoredWithoutResult(d) ==
    [d.record EXCEPT !.status = IF @ \in Live THEN "failed" ELSE @]

\* The record in memory after a start: a job that was still under way has
\* failed, at the time it was last updated, and only a completed job gets
\* its output path back.
Restored(d) ==
    [d.record EXCEPT
       !.status = IF @ \in Live THEN "failed" ELSE @,
       !.output = d.record.status = "completed" /\ d.output # "none"]

RestoreFinished(j) ==
    /\ dir[j].record.status \in Terminal
    /\ mem' = [mem EXCEPT ![j] = Restored(dir[j])]
    /\ UNCHANGED dir

RestoreInterrupted(j) ==
    /\ dir[j].record.status \in Live
    /\ mem' = [mem EXCEPT ![j] = Restored(dir[j])]
    /\ \/ Persist(j, Restored(dir[j]))
       \/ "record" \in FaultyOps /\ UNCHANGED dir

-----------------------------------------------------------------------------
(* DeleteExpired.  The sweep holds the lock from the first job to the last *)
(* and unlinks the files of an expired job one by one, so that a crash can *)
(* leave some of them behind.                                              *)

\* Wrong on purpose: age alone decides.
ExpiredByAge(r, now) == r.status # "absent" /\ r.updatedAt < now - Retention

Expired(r, now) == r.status \in Terminal /\ r.updatedAt < now - Retention

ExpiredJobs(now) == {j \in Jobs : Expired(mem[j], now)}

UnlinkOne(j) ==
    \/ dir[j].input # "none" /\ dir' = [dir EXCEPT ![j].input = "none"]
    \/ dir[j].output # "none" /\ dir' = [dir EXCEPT ![j].output = "none"]
    \/ dir[j].record # Absent /\ dir' = [dir EXCEPT ![j].record = Absent]

DeleteJob(j) ==
    /\ dir[j].input = "none" /\ dir[j].output = "none"
    /\ dir[j].record = Absent
    /\ dir' = [dir EXCEPT ![j] = NoDir]
    /\ mem' = [mem EXCEPT ![j] = Absent]

=============================================================================
