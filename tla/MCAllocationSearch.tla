-------------------------- MODULE MCAllocationSearch --------------------------
(* Constants of the TLC instance of AllocationSearch. *)
EXTENDS AllocationSearch

\* One more than the rows is refused; 14 looks are the most two columns and three
\* rows can take.
UpToRefused == 0..R + 1
AroundTheLimits == 0..7 \cup {14}
=============================================================================
