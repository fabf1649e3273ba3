------------------------------- MODULE Faults -------------------------------
(* What may go wrong from outside: a database error, a crash, a shutdown,  *)
(* a lost session, a failed call.  Each module names its kinds.            *)
EXTENDS Integers

CONSTANTS FaultKinds, (* which faults happen: "db", "crash", "stop", ...   *)
          MaxFaults   (* bound on how many of them happen                  *)

ASSUME FaultsAssumption == MaxFaults \in Nat

VARIABLE faults       (* faults so far, bounded by MaxFaults               *)

Fault(kind) ==
  /\ kind \in FaultKinds
  /\ faults < MaxFaults
  /\ faults' = faults + 1
=============================================================================
