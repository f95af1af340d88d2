----------------------------- MODULE JobLedger ------------------------------
(***************************************************************************)
(* What the job API promises a client that polls GET /v1/jobs/{id}, with   *)
(* nothing said about files, locks, slots or goroutines: the status of     *)
(* every job and how it may change.  "none" is a job that was never        *)
(* accepted, "gone" one the API answers 404 for again.                     *)
(***************************************************************************)
EXTENDS Integers, FiniteSets

CONSTANTS
    Jobs,
    MaxRunning  \* jobs that are being masked at once

VARIABLES
    status,
    unsaved     \* completed jobs of which only the process knows

ledgerVars == <<status, unsaved>>

Status == {"none", "queued", "running", "completed", "failed", "gone"}

LedgerTypeOK == status \in [Jobs -> Status] /\ unsaved \subseteq Jobs

LedgerInit == status = [j \in Jobs |-> "none"] /\ unsaved = {}

Becomes(j, from, to) ==
    /\ status[j] \in from
    /\ status' = [status EXCEPT ![j] = to]

Move(j, from, to) ==
    /\ Becomes(j, from, to)
    /\ unsaved' = unsaved \ {j}

Enqueue(j) == Move(j, {"none"}, "queued")

StartJob(j) ==
    /\ Cardinality({k \in Jobs : status[k] = "running"}) < MaxRunning
    /\ Move(j, {"queued"}, "running")

\* The record of a result can fail to reach the disk, and nobody is told.
Complete(j) ==
    /\ Becomes(j, {"running"}, "completed")
    /\ unsaved' \in {unsaved, unsaved \cup {j}}

\* A queued job fails when its upload cannot be read or the service stops.
Fail(j) == Move(j, {"queued", "running"}, "failed")

\* Retention removes finished jobs, and only those.
Forget(j) == Move(j, {"completed", "failed"}, "gone")

\* The process ends and the next one is what clients will see: nothing is
\* left under way, finished jobs stay finished, unless they were being
\* removed or were never saved, and an upload not accepted yet is lost.
AfterOutage(j) ==
    CASE status[j] = "none" -> {"none", "gone"}
      [] status[j] \in {"queued", "running"} -> {"failed"}
      [] status[j] = "completed" -> IF j \in unsaved THEN {"failed"}
                                    ELSE {"completed", "gone"}
      [] status[j] = "failed" -> {"failed", "gone"}
      [] status[j] = "gone" -> {"gone"}

Outage ==
    /\ status' \in [Jobs -> Status]
    /\ \A j \in Jobs : status'[j] \in AfterOutage(j)
    /\ unsaved' = {}

\* What is on disk of it goes first when an unsaved job is removed.
Discard(j) ==
    /\ j \in unsaved
    /\ unsaved' = unsaved \ {j}
    /\ UNCHANGED status

\* An upload that is refused with an error leaves nothing to ask for.
Reject(j) == Move(j, {"none"}, "gone")

LedgerNext ==
    \/ \E j \in Jobs :
          \/ Enqueue(j) \/ StartJob(j) \/ Complete(j) \/ Fail(j)
          \/ Forget(j) \/ Reject(j) \/ Discard(j)
    \/ Outage

LedgerSpec == LedgerInit /\ [][LedgerNext]_ledgerVars

=============================================================================
