--------------------------- MODULE MCJobRunLease ---------------------------
(* Instances of JobRunLease for TLC.                                       *)
EXTENDS JobRunLease

CONSTANTS w1, p1, p2

\* Two goroutines of one process, which may overlap, and one of another.
ThreeRunners == {<<p1, 1>>, <<p1, 2>>, <<p2, 1>>}

\* A rolling deploy: the new build of p2 has dropped the job.
OldBuildOnly == {p1} \X Windows
=============================================================================
