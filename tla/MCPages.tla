------------------------------ MODULE MCPages ------------------------------
(* Three stages stand for all, one of them not to be cancelled.  The page  *)
(* of a job needs two faults: a lost stream and a part of a replay.        *)
EXTENDS Pages, TLC

MCStages == <<"pending", "separating", "packaging">>
MCEndsAt == "pending" :> 0 @@ "separating" :> 76 @@ "packaging" :> 99

MCVisitFaults ==
  "job" :> 2 @@ "session" :> 1 @@ "upload" :> 1 @@ "jobs" :> 1 @@ "users" :> 1 @@ "profile" :> 1 @@ "toasts" :> 0
=============================================================================
