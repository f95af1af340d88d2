---------------------------- MODULE MCJobService ----------------------------
(* Small instances of JobService. *)
EXTENDS JobService, TLC

CONSTANTS a, b

TwoJobs == {a, b}
AllFaults == {"input", "output", "record", "read", "remove"}
\* Every failure that removal is not part of: RemoveAll and uploads succeed.
RecordFaults == {"output", "record", "read"}
NoFaults == {}

Symmetry == Permutations(Jobs)

=============================================================================
