------------------------------ MODULE MCGpuWait -----------------------------
(* Small instances of GpuWait: every runner may take every job.            *)
EXTENDS GpuWait

AnyRunner == [r \in Runners |-> Jobs]
=============================================================================
