------------------------------ MODULE JobReads ------------------------------
(***************************************************************************)
(* The reading side of the job API beside JobService: polling a job, the   *)
(* history, and the download of a result, which looks the job up under the *)
(* store's lock and opens the file after it has let go of it.  One client  *)
(* reads; it may poll, follow a link late, and never read what it is sent. *)
(***************************************************************************)
EXTENDS JobService

CONSTANTS
    DefaultHistoryLimit,    \* defaultHistoryLimit
    MaxHistoryLimit         \* maxHistoryLimit

ASSUME HistoryAssumption ==
    /\ DefaultHistoryLimit \in Nat \ {0}
    /\ MaxHistoryLimit \in Nat /\ DefaultHistoryLimit <= MaxHistoryLimit

VARIABLES
    linked,     \* the record each job was last shown with, if with a link
    subject,    \* the job whose result it asks for
    reader,     \* where that request is
    reply       \* how it is answered: an error, or the file that is sent

readVars == <<linked, subject, reader, reply>>
allVars == <<vars, readVars>>

ReadsTypeOK ==
    /\ linked \in [Jobs -> Record]
    /\ subject \in Jobs
    /\ reader \in {"idle", "looking", "found", "sending"}
    /\ reply \in IF reader = "sending" THEN {"partial", "whole"}
                ELSE {"none", "not_found", "error"}

ReadsInit ==
    /\ Init
    /\ linked = [j \in Jobs |-> Absent]
    /\ subject \in Jobs
    /\ reader = "idle"
    /\ reply = "none"

\* The one rule of all handlers for download_url, and of the download itself.
HasResult(r) == r.status = "completed" /\ r.output

Link(r) == IF HasResult(r) THEN r ELSE Absent

-----------------------------------------------------------------------------
(* Looking.  A reader waits for the lock and sees the map in one step.     *)

\* handleGetJob; an unknown job is answered 404.
Poll(j) ==
    /\ app = "serving"
    /\ Readable
    /\ linked' = [linked EXCEPT ![j] = Link(mem[j])]
    /\ UNCHANGED <<vars, subject, reader, reply>>

\* Anything but a positive number gets the default page.
HistoryLimit(asked) ==
    IF asked <= 0 THEN DefaultHistoryLimit
    ELSE IF asked > MaxHistoryLimit THEN MaxHistoryLimit ELSE asked

\* The order of jobs updated at the same time is the map's, which is any.
Listings(limit) ==
    LET known == {j \in Jobs : mem[j].status # "absent"}
        n == Cardinality(known)
        sorted == {s \in [1 .. n -> known] :
                      \A i, k \in 1 .. n : i < k =>
                          s[i] # s[k] /\ mem[s[i]].updatedAt >= mem[s[k]].updatedAt}
    IN  {SubSeq(s, 1, IF limit < n THEN limit ELSE n) : s \in sorted}

\* handleHistory.
ListJobs ==
    /\ app = "serving"
    /\ Readable
    /\ \E asked \in -1 .. MaxHistoryLimit + 1 :
          \E page \in Listings(HistoryLimit(asked)) :
             linked' = [j \in Jobs |->
                           IF \E i \in DOMAIN page : page[i] = j
                             THEN Link(mem[j]) ELSE linked[j]]
    /\ UNCHANGED <<vars, subject, reader, reply>>

-----------------------------------------------------------------------------
(* Downloading.                                                            *)

\* The client asks for a result, whether or not it was shown a link.
Ask(j) ==
    /\ app = "serving"
    /\ reader = "idle"
    /\ reader' = "looking"
    /\ subject' = j
    /\ reply' = "none"
    /\ UNCHANGED <<vars, linked>>

AnswerWith(r) ==
    /\ reader' = "idle"
    /\ reply' = r
    /\ UNCHANGED <<vars, linked, subject>>

LookUp ==
    /\ reader = "looking"
    /\ Readable
    /\ IF HasResult(mem[subject])
         THEN reader' = "found" /\ UNCHANGED <<vars, linked, subject, reply>>
         ELSE AnswerWith("not_found")

\* What is open stays readable when the sweeper unlinks it.
OpenResult ==
    /\ reader = "found"
    /\ IF dir[subject].output = "none"
         THEN AnswerWith("not_found")
         ELSE /\ reader' = "sending"
              /\ reply' = dir[subject].output
              /\ UNCHANGED <<vars, linked, subject>>

OpenFails == "read" \in FaultyOps /\ reader = "found" /\ AnswerWith("error")

\* The client has read it all, or has gone away.
SendEnds == reader = "sending" /\ AnswerWith("none")

ReadStep == LookUp \/ OpenResult \/ OpenFails

-----------------------------------------------------------------------------
(* The service meanwhile.                                                  *)

\* Wrong on purpose: the stop waits for every response to be read.
StopWaitsForEver == app = "http_drain" /\ app' = "job_drain" => reader = "idle"

\* server.Shutdown waits for a download in flight too, until its deadline.
StopWaits ==
    app = "http_drain" /\ app' = "job_drain" => late \/ reader = "idle"

\* A connection ends with its process.  A result that was shown but never
\* saved is not there after a restart, and the client has to ask again.
ReaderSees ==
    IF app # "down" /\ app' = "down"
      THEN /\ reader' = "idle"
           /\ reply' = "none"
           /\ linked' = [j \in Jobs |->
                         IF j \in LedgerUnsaved THEN Absent ELSE linked[j]]
           /\ UNCHANGED subject
      ELSE UNCHANGED readVars

ReadsNext ==
    \/ \E j \in Jobs : Poll(j) \/ Ask(j)
    \/ ListJobs \/ ReadStep \/ SendEnds
    \/ Next /\ StopWaits /\ ReaderSees

\* WriteTimeout is unset: nothing makes a client read what it is sent.
ReadsFairness ==
    /\ \A j \in Jobs : SF_vars(RequestStep(j)) /\ SF_vars(RunnerStep(j))
    /\ SF_vars(SweepLocks)
    /\ WF_vars(SweeperStep)
    /\ WF_vars(ServeStep /\ StopWaits)
    /\ SF_readVars(LookUp)
    /\ WF_readVars(ReadStep)

ReadsSpec == ReadsInit /\ [][ReadsNext]_allVars /\ ReadsFairness

-----------------------------------------------------------------------------
(* Properties.                                                             *)

\* A result that is sent is the whole masked document, although its file is
\* opened after the lock has been let go of (handleGetJobResult).
ServedIsWhole == reader = "sending" => reply = "whole"

\* A link that a client was shown, by a poll or in the history, answers 404
\* only after the retention window of the record it was shown with: no
\* restart, stop or sweep breaks it earlier, although job.json does not keep
\* the path of the result (handleGetJob, handleGetJobResult, load).
LinkHonoured ==
    [][reader # "idle" /\ reply' = "not_found" /\ linked[subject] # Absent
          => Expired(linked[subject], clock)]_allVars

\* A client that never reads what it is sent keeps neither the process from
\* stopping once the deadline has passed, nor the sweeper from removing what
\* has expired (App.Serve; ExpiredIsDeleted under the same fairness).
StalledClientHoldsNothing == app = "http_drain" /\ late ~> app = "down"

-----------------------------------------------------------------------------
(* What a comment says and the code does not do.                           *)

\* service.go, runJob: CreatedAt is carried over because otherwise "the
\* history would be ordered by when work began rather than by when the client
\* handed the document over".
HistoryByAcceptance ==
    \A page \in Listings(MaxHistoryLimit) :
        \A i, k \in DOMAIN page :
            i < k => mem[page[i]].createdAt >= mem[page[k]].createdAt

=============================================================================
