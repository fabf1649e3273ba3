------------------------------- MODULE Admin -------------------------------
(***************************************************************************)
(* Managing users (web/src/routes/AdminUsers.tsx with internal/auth): an   *)
(* administrator changes roles and statuses in a table that is patched     *)
(* before the server answers and put back when it refuses, while another   *)
(* administrator may be demoting the first.                                *)
(* Fault kinds: "network" (a request or its answer is lost).               *)
(***************************************************************************)
EXTENDS Integers, Functions, Faults

CONSTANTS Me,     (* the administrator at the page                          *)
          Users,  (* every account                                          *)
          Changed (* bound on the searches and changes at the page          *)

ASSUME AdminAssumption == Me \in Users /\ Changed \in Nat

VARIABLES users, (* the server: role and status of each account             *)
          calls, (* a change under way of this page, and of a rival         *)
          table, (* the queries by search: rows, fetch, error, out of date  *)
          desk   (* the search, the dialog, the row captured, changes done  *)

adminVars == <<users, calls, table, desk>>

Changes == {[set |-> "status", to |-> "active"], [set |-> "status", to |-> "inactive"],
            [set |-> "role", to |-> "admin"], [set |-> "role", to |-> "user"]}
Approval == [set |-> "status", to |-> "active"]
NoCall == [user |-> Me, change |-> Approval, phase |-> "none"]
NoTable == [rows |-> <<>>, known |-> FALSE, fetch |-> "none", read |-> <<>>, error |-> FALSE, old |-> FALSE]
NoDialog == [user |-> Me, change |-> Approval, seen |-> <<>>]

Searches == [all |-> Users, some |-> Users \ {Me}]

AdminInit ==
  /\ \E ann \in [role : {"user", "admin"}, status : {"active", "pending"}] :
       users = [u \in Users |-> IF u = Me THEN [role |-> "admin", status |-> "active"] ELSE ann]
  /\ calls = [mine |-> NoCall, rival |-> NoCall]
  /\ table = [k \in DOMAIN Searches |-> IF k = "all" THEN [NoTable EXCEPT !.fetch = "sent"] ELSE NoTable]
  /\ desk = [q |-> "all", dialog |-> NoDialog, captured |-> <<>>, done |-> 0]

-----------------------------------------------------------------------------
(* The server                                                              *)

IsAdmin(u) == users[u] = [role |-> "admin", status |-> "active"]

\* Mutant of Locks: the administrators are counted without a lock.
LocksNothing(who) == TRUE

\* SELECT ... FOR UPDATE waits for the other transaction to end.
Locks(who) == \A other \in DOMAIN calls \ {who} : calls[other].phase # "locked"

\* updateGuarded counts the administrators before it takes one away.
IsGuarded(change) == change.to \in {"inactive", "user"}

Authorize(who) ==
  /\ calls[who].phase = "sent"
  /\ \E by \in IF who = "mine" THEN {Me} ELSE Users \ {Me} :
       calls' = [calls EXCEPT ![who].phase = IF IsAdmin(by) THEN "allowed" ELSE "refused"]
  /\ UNCHANGED <<users, table, desk, faults>>

CountAdmins(who) ==
  /\ calls[who].phase = "allowed" /\ IsGuarded(calls[who].change) /\ Locks(who)
  /\ calls' = [calls EXCEPT ![who].phase =
       IF {u \in Users : IsAdmin(u)} = {calls[who].user} THEN "refused" ELSE "locked"]
  /\ UNCHANGED <<users, table, desk, faults>>

Commit(who) ==
  LET c == calls[who] IN
  /\ c.phase = "locked" \/ (c.phase = "allowed" /\ ~IsGuarded(c.change))
  /\ users' = [users EXCEPT ![c.user][c.change.set] = c.change.to]
  /\ calls' = [calls EXCEPT ![who].phase = "done"]
  /\ UNCHANGED <<table, desk, faults>>

\* Another administrator demotes or deactivates this one, from elsewhere;
\* bound: once.
Rivals ==
  /\ calls.rival.phase = "none"
  /\ \E change \in {c \in Changes : IsGuarded(c)} :
       calls' = [calls EXCEPT !.rival = [user |-> Me, change |-> change, phase |-> "sent"]]
  /\ UNCHANGED <<users, table, desk, faults>>

-----------------------------------------------------------------------------
(* The table                                                               *)

FetchUsers ==
  \E k \in DOMAIN Searches :
    /\ table[k].fetch = "sent"
    /\ table' = [table EXCEPT ![k].fetch = IF IsAdmin(Me) THEN "back" ELSE "failed",
                              ![k].read = IF IsAdmin(Me) THEN Restrict(users, Searches[k]) ELSE <<>>]
    /\ UNCHANGED <<users, calls, desk, faults>>

LoseUsers ==
  \E k \in DOMAIN Searches :
    /\ table[k].fetch \in {"sent", "back"} /\ Fault("network")
    /\ table' = [table EXCEPT ![k].fetch = "failed", ![k].read = <<>>]
    /\ UNCHANGED <<users, calls, desk>>

\* An answer replaces the rows, changes that were made since included.
Differs(rows) == \E u \in DOMAIN rows \ {Me} : rows[u] # users[u]

UsersLand ==
  \E k \in DOMAIN Searches :
    /\ table[k].fetch \in {"back", "failed"}
    /\ table' = [table EXCEPT ![k] =
         IF @.fetch = "failed" THEN [@ EXCEPT !.fetch = "none", !.error = TRUE]
         ELSE [NoTable EXCEPT !.rows = table[k].read, !.known = TRUE, !.old = Differs(table[k].read)]]
    /\ UNCHANGED <<users, calls, desk, faults>>

\* A search is a query of its own; one made before is fetched again.
Search(k) ==
  /\ desk.dialog = NoDialog /\ k # desk.q /\ desk.done < Changed
  /\ desk' = [desk EXCEPT !.q = k, !.done = @ + 1]
  /\ table' = [table EXCEPT ![k].fetch = IF @ = "none" THEN "sent" ELSE @]
  /\ UNCHANGED <<users, calls, faults>>

TryUsersAgain ==
  /\ table[desk.q].error /\ table[desk.q].fetch = "none"
  /\ table' = [table EXCEPT ![desk.q].fetch = "sent", ![desk.q].error = @ /\ table[desk.q].known]
  /\ UNCHANGED <<users, calls, desk, faults>>

\* The rows of the table under a filter; the tiles count all of them.
Rows(f) ==
  LET t == table[desk.q]
      passes(u) == CASE f = "pending" -> t.rows[u].status = "pending"
                     [] f = "active" -> t.rows[u].status = "active"
                     [] f = "admins" -> t.rows[u].role = "admin"
                     [] OTHER -> TRUE IN
  IF t.error THEN {} ELSE {u \in DOMAIN t.rows : passes(u)}
Row(u) == table[desk.q].rows[u]

\* Mutant of Patched: a row is patched on the list that is open only.
PatchedHere(u, row) ==
  [table EXCEPT ![desk.q].rows = IF u \in DOMAIN @ THEN [@ EXCEPT ![u] = row] ELSE @]

\* patch: the row in every list that has it.
Patched(u, row) ==
  [k \in DOMAIN table |->
     [table[k] EXCEPT !.rows = IF u \in DOMAIN @ THEN [@ EXCEPT ![u] = row] ELSE @]]

-----------------------------------------------------------------------------
(* Changing a user                                                         *)

BusyRow(u) == calls.mine.phase # "none" /\ calls.mine.user = u

\* The button of the row, and its menu.
ButtonOf(u) ==
  IF Row(u).status # "active" THEN {Approval}
  ELSE {[set |-> "role", to |-> IF Row(u).role = "admin" THEN "user" ELSE "admin"]}
MenuOf(u) ==
  {c \in Changes :
     \/ c = Approval /\ Row(u).status = "pending"
     \/ c.set = "role" /\ c.to # Row(u).role
     \/ c.to = "inactive" /\ Row(u).status # "inactive"}
OnOneself(u, c) == u = Me /\ c.to \in {"user", "inactive"}
RowControls(u) == IF BusyRow(u) THEN {} ELSE {c \in ButtonOf(u) \cup MenuOf(u) : ~OnOneself(u, c)}

\* mutate: the patch first, then the request with the row as it was seen;
\* one change at a time is modelled.
Mutate(u, c, seen) ==
  /\ calls' = [calls EXCEPT !.mine = [user |-> u, change |-> c, phase |-> "sent"]]
  /\ table' = Patched(u, [seen EXCEPT ![c.set] = c.to])
  /\ UNCHANGED <<users, faults>>

ApproveUser(f, u) ==
  /\ desk.dialog = NoDialog /\ calls.mine.phase = "none" /\ desk.done < Changed
  /\ u \in Rows(f) /\ Approval \in RowControls(u)
  /\ Mutate(u, Approval, Row(u))
  /\ desk' = [desk EXCEPT !.captured = Row(u), !.done = @ + 1]

AskChange(f, u) ==
  /\ desk.dialog = NoDialog /\ desk.done < Changed /\ u \in Rows(f)
  /\ \E c \in RowControls(u) \ {Approval} : desk' = [desk EXCEPT !.dialog = [user |-> u, change |-> c, seen |-> Row(u)]]
  /\ UNCHANGED <<users, calls, table, faults>>

DeclineChange ==
  /\ desk.dialog # NoDialog /\ desk' = [desk EXCEPT !.dialog = NoDialog]
  /\ UNCHANGED <<users, calls, table, faults>>

ConfirmChange ==
  LET d == desk.dialog IN
  /\ d # NoDialog /\ calls.mine.phase = "none"
  /\ Mutate(d.user, d.change, d.seen)
  /\ desk' = [desk EXCEPT !.dialog = NoDialog, !.captured = d.seen, !.done = @ + 1]

LoseChange ==
  /\ calls.mine.phase \in {"sent", "done"} /\ Fault("network")
  /\ calls' = [calls EXCEPT !.mine.phase = "refused"]
  /\ UNCHANGED <<users, table, desk>>

\* What the row becomes: the answer, or the row as it was captured.
RowAfter(c) == IF c.phase = "refused" THEN desk.captured ELSE users[c.user]

ChangeLands ==
  LET c == calls.mine IN
  /\ c.phase \in {"done", "refused"}
  /\ table' = [k \in DOMAIN table |->
       [Patched(c.user, RowAfter(c))[k] EXCEPT !.old = @ \/ (c.phase = "refused" /\ desk.captured # users[c.user])]]
  /\ calls' = [calls EXCEPT !.mine = NoCall] /\ desk' = [desk EXCEPT !.captured = <<>>]
  /\ UNCHANGED <<users, faults>>

-----------------------------------------------------------------------------
AdminNext ==
  \/ \E who \in {"mine", "rival"} : Authorize(who) \/ CountAdmins(who) \/ Commit(who)
  \/ Rivals \/ FetchUsers \/ LoseUsers \/ UsersLand \/ TryUsersAgain
  \/ \E k \in DOMAIN Searches : Search(k)
  \/ \E f \in {"all", "active", "pending", "admins"}, u \in Users : ApproveUser(f, u) \/ AskChange(f, u)
  \/ DeclineChange \/ ConfirmChange \/ LoseChange \/ ChangeLands

-----------------------------------------------------------------------------
(* Properties                                                              *)

\* Two administrators who demote or deactivate each other at the same time
\* never leave none: each was an administrator when its request came, and
\* only the count under the lock tells (store.go:262-288).
AdminRemains == \E u \in Users : IsAdmin(u)

\* Once no change is under way, each list shows of every other account what
\* the server has, whatever was refused or put back in between and whichever
\* search was open; but for a list whose answer was read before a change and
\* came after it, or an account whose answer was lost (AdminUsers.tsx:104-120
\* neither drops the fetches under way nor asks again).
TableIsTrue ==
  calls.mine.phase = "none" =>
    \A k \in DOMAIN table : ~table[k].old => ~Differs(table[k].rows)
=============================================================================
