----------------------------- MODULE MCGpuLease -----------------------------
(* Small instances of GpuLease: every runner may take every job.           *)
EXTENDS GpuLease, TLC

AnyRunner == [r \in Runners |-> Jobs]

Symmetry == Permutations(Jobs) \cup Permutations(Leases) \cup Permutations(Calls)
              \cup Permutations(Runners)
=============================================================================
