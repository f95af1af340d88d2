----------------------------- MODULE MCJobReads -----------------------------
(* Small instances of JobReads. *)
EXTENDS JobReads

CONSTANTS a, b

OneJob == {a}
TwoJobs == {a, b}
\* Every failure that removal is not part of: RemoveAll and uploads succeed.
RecordFaults == {"output", "record", "read"}
NoFaults == {}

=============================================================================
