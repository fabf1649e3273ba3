---------------------------- MODULE Pages_proofs ----------------------------
(***************************************************************************)
(* Proofs about the pages of the web application, for any jobs, accounts,  *)
(* files, presets, names, faults and bounds on the visits.  A page is      *)
(* proved by itself; a visit to the others leaves its state alone.         *)
(***************************************************************************)
EXTENDS Pages, WellFoundedInduction, TLAPS

-----------------------------------------------------------------------------
(* The visits                                                              *)

\* A step of the application is one of the page's own, or leaves it alone.
LEMMA PagesMove ==
  ASSUME [PagesNext]_pagesVars
  PROVE  /\ JobPageNext \/ UNCHANGED jobPageVars
         /\ SessionNext \/ UNCHANGED sessionVars
         /\ UploadNext \/ UNCHANGED uploadVars
         /\ ListNext \/ UNCHANGED listVars
         /\ AdminNext \/ UNCHANGED adminVars
         /\ ProfileNext \/ UNCHANGED profileVars
         /\ ToastsNext \/ UNCHANGED toasts
<1>1. CASE UNCHANGED pagesVars
  BY <1>1 DEF pagesVars
<1>2. CASE PagesNext
  <2>1. CASE visit = "job" /\ JobPageNext /\ Rest("job")
    BY <2>1 DEF Rest
  <2>2. CASE visit = "session" /\ SessionNext /\ Rest("session")
    BY <2>2 DEF Rest
  <2>3. CASE visit = "upload" /\ UploadNext /\ Rest("upload")
    BY <2>3 DEF Rest
  <2>4. CASE visit = "jobs" /\ ListNext /\ Rest("jobs")
    BY <2>4 DEF Rest
  <2>5. CASE visit = "users" /\ AdminNext /\ Rest("users")
    BY <2>5 DEF Rest
  <2>6. CASE visit = "profile" /\ ProfileNext /\ Rest("profile")
    BY <2>6 DEF Rest
  <2>7. CASE visit = "toasts" /\ ToastsNext /\ Rest("toasts")
    BY <2>7 DEF Rest
  <2> QED
    BY <1>2, <2>1, <2>2, <2>3, <2>4, <2>5, <2>6, <2>7 DEF PagesNext
<1> QED
  BY <1>1, <1>2

-----------------------------------------------------------------------------
(* Users administration                                                    *)

Phases == {"none", "sent", "allowed", "locked", "refused", "done"}
Account == [role : {"user", "admin"}, status : {"active", "inactive", "pending"}]
Call == [user : Users, change : Changes, phase : Phases]
Callers == {"mine", "rival"}

AdminTypes ==
  /\ users \in [Users -> Account]
  /\ calls \in [mine : Call, rival : Call]
  /\ desk.dialog.user \in Users /\ desk.dialog.change \in Changes

\* An administrator stays beside the one that a counted change takes away,
\* and no two changes have counted at the same time.
Others(c) == \E u \in Users \ {c.user} : IsAdmin(u)
AdminIInv ==
  /\ AdminTypes
  /\ AdminRemains
  /\ \A who \in Callers : calls[who].phase = "locked" => Others(calls[who])
  /\ calls.mine.phase # "locked" \/ calls.rival.phase # "locked"

LEMMA AdminStarts ==
  ASSUME PagesInit
  PROVE  AdminIInv
<1>1. AdminInit /\ Me \in Users
  BY AdminAssumption DEF PagesInit
<1>2. NoCall \in Call
  BY <1>1 DEF NoCall, Call, Phases, Approval, Changes
<1>3. calls = [mine |-> NoCall, rival |-> NoCall] /\ desk.dialog = NoDialog
  BY <1>1 DEF AdminInit
<1>4. users \in [Users -> Account] /\ IsAdmin(Me)
  BY <1>1 DEF AdminInit, Account, IsAdmin
<1>5. NoDialog.user \in Users /\ NoDialog.change \in Changes /\ NoCall.phase = "none"
  BY <1>1 DEF NoDialog, NoCall, Approval, Changes
<1>6. AdminTypes
  BY <1>2, <1>3, <1>4, <1>5 DEF AdminTypes
<1> QED
  BY <1>1, <1>3, <1>4, <1>5, <1>6 DEF AdminIInv, AdminRemains, Callers

\* A request whose phase changes: it may be locked only beside another
\* administrator, and while the other request is not.
LEMMA PhaseMoves ==
  ASSUME AdminIInv, NEW who \in Callers, NEW p \in Phases,
         calls' = [calls EXCEPT ![who].phase = p], UNCHANGED users,
         desk'.dialog = desk.dialog,
         p = "locked" => Others(calls[who]) /\ Locks(who)
  PROVE  AdminIInv'
<1>1. AdminTypes /\ calls \in [mine : Call, rival : Call] /\ calls[who] \in Call
  BY DEF AdminIInv, AdminTypes, Callers
<1>2. /\ calls' \in [mine : Call, rival : Call]
      /\ calls'[who].phase = p /\ calls'[who].user = calls[who].user
      /\ \A w \in Callers : w # who => calls'[w] = calls[w]
  BY <1>1 DEF Call, Callers
<1>3. AdminTypes'
  BY <1>1, <1>2 DEF AdminTypes
<1>4. \A u \in Users : IsAdmin(u)' <=> IsAdmin(u)
  BY DEF IsAdmin
<1>5. AdminRemains'
  BY <1>4 DEF AdminIInv, AdminRemains
<1>6. \A w \in Callers : calls'[w].user = calls[w].user
  BY <1>2
<1>7. ASSUME NEW w \in Callers, calls'[w].phase = "locked" PROVE Others(calls[w])'
  <2>1. Others(calls[w])
    BY <1>2, <1>7 DEF AdminIInv
  <2> QED
    BY <2>1, <1>4, <1>6 DEF Others
<1>8. calls'.mine.phase # "locked" \/ calls'.rival.phase # "locked"
  <2>1. DOMAIN calls = {"mine", "rival"}
    BY <1>1
  <2> QED
    BY <1>1, <1>2, <2>1 DEF AdminIInv, Callers, Locks
<1> QED
  BY <1>3, <1>5, <1>7, <1>8 DEF AdminIInv

\* The lock counts the administrators: one of them is not the one to go.
LEMMA CountLeavesOne ==
  ASSUME AdminIInv, NEW who \in Callers, {u \in Users : IsAdmin(u)} # {calls[who].user}
  PROVE  Others(calls[who])
BY DEF AdminIInv, AdminRemains, Others

\* A change that was not counted takes no administrator away.
LEMMA UnguardedKeeps ==
  ASSUME AdminIInv, NEW who \in Callers, ~IsGuarded(calls[who].change),
         users' = [users EXCEPT ![calls[who].user][calls[who].change.set] = calls[who].change.to]
  PROVE  \A u \in Users : IsAdmin(u) => IsAdmin(u)'
<1>1. AdminTypes /\ calls[who] \in Call /\ users \in [Users -> Account]
  BY DEF AdminIInv, AdminTypes, Callers
<1> DEFINE c == calls[who]
<1>2. c.user \in Users /\ c.change \in Changes
  BY <1>1 DEF Call
<1>3. \/ c.change.set = "status" /\ c.change.to = "active"
      \/ c.change.set = "role" /\ c.change.to = "admin"
  BY <1>2 DEF IsGuarded, Changes
<1>4. users[c.user] \in Account
  BY <1>1, <1>2
<1>5. ASSUME NEW u \in Users, IsAdmin(u) PROVE IsAdmin(u)'
  <2>1. CASE u # c.user
    BY <1>1, <1>2, <1>5, <2>1 DEF IsAdmin
  <2>2. CASE u = c.user
    <3>1. users'[u] = [users[u] EXCEPT ![c.change.set] = c.change.to]
      BY <1>1, <1>2, <2>2
    <3>2. users[u].role = "admin" /\ users[u].status = "active" /\ users[u] \in Account
      BY <1>4, <1>5, <2>2 DEF IsAdmin
    <3>3. users'[u] = users[u]
      BY <1>3, <3>1, <3>2 DEF Account
    <3> QED
      BY <1>5, <3>3 DEF IsAdmin
  <2> QED
    BY <2>1, <2>2
<1> QED
  BY <1>5

\* A change that was made leaves another administrator, if it was counted.
LEMMA CommitLeavesOne ==
  ASSUME AdminIInv, NEW who \in Callers, Commit(who)
  PROVE  /\ AdminRemains'
         /\ users' \in [Users -> Account]
         /\ \A w \in Callers \ {who} : calls[w].phase = "locked" => Others(calls[w])'
<1>1. AdminTypes /\ calls[who] \in Call /\ users \in [Users -> Account] /\ calls \in [mine : Call, rival : Call]
  BY DEF AdminIInv, AdminTypes, Callers
<1>2. PICK c : c = calls[who]
  OBVIOUS
<1>3. c.user \in Users /\ c.change \in Changes
  BY <1>1, <1>2 DEF Call
<1>4. /\ c.phase = "locked" \/ (c.phase = "allowed" /\ ~IsGuarded(c.change))
      /\ users' = [users EXCEPT ![c.user][c.change.set] = c.change.to]
  BY <1>2 DEF Commit
<1>5. users' \in [Users -> Account]
  <2>1. \/ c.change.set = "status" /\ c.change.to \in {"active", "inactive"}
        \/ c.change.set = "role" /\ c.change.to \in {"admin", "user"}
    BY <1>3 DEF Changes
  <2>2. users[c.user] \in Account
    BY <1>1, <1>3
  <2>3. [users[c.user] EXCEPT ![c.change.set] = c.change.to] \in Account
    BY <2>1, <2>2 DEF Account
  <2> QED
    BY <1>1, <1>3, <1>4, <2>3
<1>6. \A u \in Users \ {c.user} : IsAdmin(u)' <=> IsAdmin(u)
  BY <1>1, <1>3, <1>4 DEF IsAdmin
<1>7. CASE c.phase = "locked"
  <2>1. PICK u \in Users \ {c.user} : IsAdmin(u)
    BY <1>2, <1>7 DEF AdminIInv, Others
  <2>2. \A w \in Callers \ {who} : calls[w].phase # "locked"
    BY <1>2, <1>7 DEF AdminIInv, Callers
  <2> QED
    BY <1>5, <1>6, <2>1, <2>2 DEF AdminRemains
<1>8. CASE ~IsGuarded(c.change)
  <2>1. \A u \in Users : IsAdmin(u) => IsAdmin(u)'
    BY <1>2, <1>4, <1>8, UnguardedKeeps
  <2>2. AdminRemains'
    BY <2>1 DEF AdminIInv, AdminRemains
  <2>3. ASSUME NEW w \in Callers \ {who}, calls[w].phase = "locked" PROVE Others(calls[w])'
    <3>1. Others(calls[w])
      BY <2>3 DEF AdminIInv
    <3>2. calls'[w] = calls[w]
      BY <1>1, <2>3 DEF Commit, Callers
    <3> QED
      BY <2>1, <3>1, <3>2 DEF Others
  <2> QED
    BY <1>5, <2>2, <2>3
<1> QED
  BY <1>4, <1>7, <1>8

\* A change whose request is another: no request was locked by it.
LEMMA MineMoves ==
  ASSUME AdminIInv, NEW who \in Callers, NEW c \in Call, c.phase # "locked",
         calls' = [calls EXCEPT ![who] = c], UNCHANGED users,
         desk'.dialog.user \in Users, desk'.dialog.change \in Changes
  PROVE  AdminIInv'
<1>1. AdminTypes /\ calls \in [mine : Call, rival : Call]
  BY DEF AdminIInv, AdminTypes
<1>2. /\ calls' \in [mine : Call, rival : Call]
      /\ calls'[who] = c
      /\ \A w \in Callers : w # who => calls'[w] = calls[w]
  BY <1>1 DEF Callers
<1>3. AdminTypes'
  BY <1>1, <1>2 DEF AdminTypes
<1>4. \A u \in Users : IsAdmin(u)' <=> IsAdmin(u)
  BY DEF IsAdmin
<1>5. AdminRemains'
  BY <1>4 DEF AdminIInv, AdminRemains
<1>6. ASSUME NEW w \in Callers, calls'[w].phase = "locked" PROVE Others(calls[w])'
  <2>1. Others(calls[w]) /\ calls'[w] = calls[w]
    BY <1>2, <1>6 DEF AdminIInv
  <2> QED
    BY <2>1, <1>4 DEF Others
<1>7. calls'.mine.phase # "locked" \/ calls'.rival.phase # "locked"
  BY <1>1, <1>2 DEF Callers
<1> QED
  BY <1>3, <1>5, <1>6, <1>7 DEF AdminIInv

\* The server's steps.
LEMMA ServerKeepsAdmins ==
  ASSUME AdminIInv, NEW who \in Callers,
         Authorize(who) \/ CountAdmins(who) \/ Commit(who) \/ Rivals
  PROVE  AdminIInv'
<1>1. AdminTypes /\ calls \in [mine : Call, rival : Call] /\ calls[who] \in Call
  BY DEF AdminIInv, AdminTypes, Callers
<1>2. CASE Authorize(who)
  <2>1. PICK p \in {"allowed", "refused"} : calls' = [calls EXCEPT ![who].phase = p]
    BY <1>2 DEF Authorize
  <2>2. p \in Phases /\ p # "locked" /\ UNCHANGED <<users, desk>>
    BY <1>2, <2>1 DEF Authorize, Phases
  <2> QED
    BY <2>1, <2>2, PhaseMoves
<1>3. CASE CountAdmins(who)
  <2>1. PICK p \in {"refused", "locked"} :
          /\ calls' = [calls EXCEPT ![who].phase = p]
          /\ p = "locked" => {u \in Users : IsAdmin(u)} # {calls[who].user}
    BY <1>3 DEF CountAdmins
  <2>2. p \in Phases /\ UNCHANGED <<users, desk>> /\ Locks(who)
    BY <1>3, <2>1 DEF CountAdmins, Phases
  <2>3. p = "locked" => Others(calls[who])
    BY <2>1, CountLeavesOne
  <2>4. desk'.dialog = desk.dialog
    BY <2>2
  <2> QED
    BY <2>1, <2>2, <2>3, <2>4, PhaseMoves
<1>4. CASE Commit(who)
  <2>1. AdminRemains' /\ users' \in [Users -> Account]
    BY <1>4, CommitLeavesOne
  <2>2. \A w \in Callers \ {who} : calls[w].phase = "locked" => Others(calls[w])'
    BY <1>4, CommitLeavesOne
  <2>3. calls' = [calls EXCEPT ![who].phase = "done"] /\ UNCHANGED desk
    BY <1>4 DEF Commit
  <2>4. /\ calls' \in [mine : Call, rival : Call] /\ calls'[who].phase = "done"
        /\ \A w \in Callers : w # who => calls'[w] = calls[w]
    BY <1>1, <2>3 DEF Call, Callers, Phases
  <2>5. AdminTypes'
    BY <1>1, <2>1, <2>3, <2>4 DEF AdminTypes
  <2>6. \A w \in Callers : calls'[w].phase = "locked" => w # who /\ calls[w].phase = "locked"
    BY <2>4
  <2>7. ASSUME NEW w \in Callers, calls'[w].phase = "locked" PROVE Others(calls[w])'
    BY <2>2, <2>6, <2>7
  <2>8. calls'.mine.phase # "locked" \/ calls'.rival.phase # "locked"
    BY <2>4 DEF Callers
  <2> QED
    BY <2>1, <2>5, <2>7, <2>8 DEF AdminIInv
<1>5. CASE Rivals
  <2>1. PICK change \in Changes : calls' = [calls EXCEPT !.rival = [user |-> Me, change |-> change, phase |-> "sent"]]
    BY <1>5 DEF Rivals
  <2>2. PICK c : c = [user |-> Me, change |-> change, phase |-> "sent"]
    OBVIOUS
  <2>3. c \in Call /\ c.phase # "locked"
    BY <2>1, <2>2, AdminAssumption DEF Call, Phases
  <2>4. calls' = [calls EXCEPT !["rival"] = c] /\ UNCHANGED <<users, desk>>
    BY <1>5, <2>1, <2>2 DEF Rivals
  <2>5. "rival" \in Callers /\ desk'.dialog.user \in Users /\ desk'.dialog.change \in Changes
    BY <1>1, <2>4 DEF AdminTypes, Callers
  <2> QED
    BY <2>3, <2>4, <2>5, MineMoves
<1> QED
  BY <1>2, <1>3, <1>4, <1>5

LEMMA ControlsAreChanges ==
  ASSUME NEW u, NEW c \in RowControls(u)
  PROVE  c \in Changes
<1>1. c \in ButtonOf(u) \cup MenuOf(u)
  BY DEF RowControls
<1>2. CASE c \in ButtonOf(u)
  BY <1>2 DEF ButtonOf, Approval, Changes
<1>3. CASE c \in MenuOf(u)
  BY <1>3 DEF MenuOf
<1> QED
  BY <1>1, <1>2, <1>3

\* A change that the page sends.
LEMMA MutateKeepsAdmins ==
  ASSUME AdminIInv, NEW u \in Users, NEW change \in Changes, NEW seen,
         Mutate(u, change, seen), desk'.dialog.user \in Users, desk'.dialog.change \in Changes
  PROVE  AdminIInv'
<1>1. PICK c : c = [user |-> u, change |-> change, phase |-> "sent"]
  OBVIOUS
<1>2. c \in Call /\ c.phase # "locked"
  BY <1>1 DEF Call, Phases
<1>3. calls' = [calls EXCEPT !["mine"] = c] /\ UNCHANGED users /\ "mine" \in Callers
  BY <1>1 DEF Mutate, Callers
<1> QED
  BY <1>2, <1>3, MineMoves

\* The page's steps, and those of its table.
LEMMA PageKeepsAdmins ==
  ASSUME AdminIInv,
         \/ FetchUsers \/ LoseUsers \/ UsersLand \/ TryUsersAgain
         \/ \E k \in DOMAIN Searches : Search(k)
         \/ \E f \in {"all", "active", "pending", "admins"}, u \in Users : ApproveUser(f, u) \/ AskChange(f, u)
         \/ DeclineChange \/ ConfirmChange \/ LoseChange \/ ChangeLands
  PROVE  AdminIInv'
<1>0. /\ desk.dialog.user \in Users /\ desk.dialog.change \in Changes
      /\ NoDialog.user \in Users /\ NoDialog.change \in Changes
      /\ NoCall \in Call /\ NoCall.phase # "locked" /\ "mine" \in Callers
  BY AdminAssumption DEF AdminIInv, AdminTypes, NoDialog, NoCall, Call, Phases, Approval, Changes, Callers
<1>1. ASSUME UNCHANGED <<users, calls>>, desk'.dialog.user \in Users, desk'.dialog.change \in Changes
      PROVE  AdminIInv'
  BY <1>1 DEF AdminIInv, AdminTypes, AdminRemains, IsAdmin, Others
<1>2. CASE FetchUsers \/ LoseUsers \/ UsersLand \/ TryUsersAgain
  <2>1. UNCHANGED <<users, calls>>
    BY <1>2 DEF FetchUsers, LoseUsers, UsersLand, TryUsersAgain
  <2>2. desk'.dialog = desk.dialog
    <3>1. UNCHANGED desk \/ TryUsersAgain
      BY <1>2 DEF FetchUsers, LoseUsers, UsersLand
    <3> QED
      BY <3>1 DEF TryUsersAgain
  <2> QED
    BY <1>0, <1>1, <2>1, <2>2
<1>3. ASSUME NEW k \in DOMAIN Searches, Search(k) PROVE AdminIInv'
  <2>1. UNCHANGED <<users, calls>> /\ desk' = [desk EXCEPT !.q = k, !.done = @ + 1]
    BY <1>3 DEF Search
  <2>2. desk'.dialog = desk.dialog
    BY <2>1
  <2> QED
    BY <1>0, <1>1, <2>1, <2>2
<1>4. ASSUME NEW f, NEW u \in Users, ApproveUser(f, u) PROVE AdminIInv'
  <2>1. /\ desk' = [desk EXCEPT !.captured = Row(u), !.done = @ + 1]
        /\ Mutate(u, Approval, Row(u)) /\ Approval \in Changes
    BY <1>4, ControlsAreChanges DEF ApproveUser
  <2>2. desk'.dialog = desk.dialog
    BY <2>1
  <2> QED
    BY <1>0, <2>1, <2>2, MutateKeepsAdmins
<1>5. ASSUME NEW f, NEW u \in Users, AskChange(f, u) PROVE AdminIInv'
  <2>1. PICK c \in RowControls(u) : desk' = [desk EXCEPT !.dialog = [user |-> u, change |-> c, seen |-> Row(u)]]
    BY <1>5 DEF AskChange
  <2>2. UNCHANGED <<users, calls>> /\ c \in Changes
    BY <1>5, ControlsAreChanges DEF AskChange
  <2>3. desk'.dialog = [user |-> u, change |-> c, seen |-> Row(u)]
    BY <2>1, <1>0
  <2>4. desk'.dialog.user = u /\ desk'.dialog.change = c
    BY <2>3
  <2> QED
    BY <1>1, <2>2, <2>4
<1>6. CASE DeclineChange
  <2>1. UNCHANGED <<users, calls>> /\ desk' = [desk EXCEPT !.dialog = NoDialog]
    BY <1>6 DEF DeclineChange
  <2>2. desk'.dialog = NoDialog
    BY <2>1
  <2> QED
    BY <1>0, <1>1, <2>1, <2>2
<1>7. CASE ConfirmChange
  <2>1. /\ Mutate(desk.dialog.user, desk.dialog.change, desk.dialog.seen)
        /\ desk' = [desk EXCEPT !.dialog = NoDialog, !.captured = desk.dialog.seen, !.done = @ + 1]
    BY <1>7 DEF ConfirmChange
  <2>2. desk'.dialog = NoDialog
    BY <2>1
  <2> QED
    BY <1>0, <2>1, <2>2, MutateKeepsAdmins
<1>8. CASE LoseChange
  <2>1. calls' = [calls EXCEPT !["mine"].phase = "refused"] /\ UNCHANGED <<users, desk>>
    BY <1>8 DEF LoseChange
  <2>2. "refused" \in Phases /\ desk'.dialog = desk.dialog
    BY <2>1 DEF Phases
  <2> QED
    BY <1>0, <2>1, <2>2, PhaseMoves
<1>9. CASE ChangeLands
  <2>1. calls' = [calls EXCEPT !["mine"] = NoCall] /\ desk' = [desk EXCEPT !.captured = <<>>] /\ UNCHANGED users
    BY <1>9 DEF ChangeLands
  <2>2. desk'.dialog = desk.dialog
    BY <2>1
  <2> QED
    BY <1>0, <2>1, <2>2, MineMoves
<1> QED
  BY <1>2, <1>3, <1>4, <1>5, <1>6, <1>7, <1>8, <1>9

LEMMA AdminKeeps ==
  ASSUME AdminIInv, AdminNext \/ UNCHANGED adminVars
  PROVE  AdminIInv'
<1>1. CASE UNCHANGED adminVars
  BY <1>1 DEF adminVars, AdminIInv, AdminTypes, AdminRemains, IsAdmin, Others
<1>2. ASSUME NEW who \in Callers, Authorize(who) \/ CountAdmins(who) \/ Commit(who) \/ Rivals PROVE AdminIInv'
  BY <1>2, ServerKeepsAdmins
<1>3. CASE \E who \in Callers : Authorize(who) \/ CountAdmins(who) \/ Commit(who)
  BY <1>2, <1>3
<1>4. CASE Rivals
  BY <1>2, <1>4 DEF Callers
<1>5. AdminNext => \/ \E who \in Callers : Authorize(who) \/ CountAdmins(who) \/ Commit(who)
                   \/ Rivals \/ FetchUsers \/ LoseUsers \/ UsersLand \/ TryUsersAgain
                   \/ \E k \in DOMAIN Searches : Search(k)
                   \/ \E f \in {"all", "active", "pending", "admins"}, u \in Users : ApproveUser(f, u) \/ AskChange(f, u)
                   \/ DeclineChange \/ ConfirmChange \/ LoseChange \/ ChangeLands
  BY DEF AdminNext, Callers
<1> QED
  BY <1>1, <1>3, <1>4, <1>5, PageKeepsAdmins

\* Two administrators who demote or deactivate each other never leave none,
\* for any accounts: of two requests only one counts under the lock at a time,
\* and a request that counts leaves another administrator beside the one it
\* takes away (store.go:262-288).
THEOREM AdminsAreLeft == PagesSpec => []AdminRemains
<1>1. PagesInit => AdminIInv
  BY AdminStarts
<1>2. AdminIInv /\ [PagesNext]_pagesVars => AdminIInv'
  BY AdminKeeps, PagesMove
<1>3. AdminIInv => AdminRemains
  BY DEF AdminIInv
<1> QED
  BY <1>1, <1>2, <1>3, PTL DEF PagesSpec

-----------------------------------------------------------------------------
(* The landing page                                                        *)

FormFields == {"mode", "file", "error", "over", "url", "video", "mixed", "quality", "transcribe", "lapsed"}

\* A video on show is of the link, unless the link was changed meanwhile; and
\* of the link are the previews under way.
UploadIInv ==
  /\ DOMAIN form = FormFields /\ DOMAIN form.video = {"kind", "of"}
  /\ UploadTypeOK
  /\ gone \in {"no", "leaving", "yes"} /\ account \in {"anonymous", "owner"} /\ asks \subseteq Videos
  /\ account = "anonymous" /\ form.transcribe => form.lapsed
  /\ TranscribeAvailable /\ form.transcribe /\ ~form.lapsed => form.quality \in SixStems
  /\ form.video.kind = "fetching" => form.video.of = "none"
  /\ ~form.mixed => asks \subseteq {form.url} /\ form.video.of \in {"none", form.url}

LEMMA UploadStarts ==
  ASSUME PagesInit
  PROVE  UploadIInv
<1>1. UploadInit
  BY DEF PagesInit
<1>2. /\ DOMAIN form = FormFields /\ form.video = NoVideo /\ form.mode = "file" /\ form.file = "none"
      /\ form.url = "none" /\ ~form.mixed /\ form.quality = "high" /\ ~form.transcribe
      /\ audio = "none" /\ asks = {} /\ post = "none" /\ account \in {"anonymous", "owner"} /\ gone = "no"
  BY <1>1 DEF UploadInit, FormFields
<1>3. DOMAIN form.video = {"kind", "of"} /\ form.video.kind = "idle" /\ form.video.of = "none"
  BY <1>2 DEF NoVideo
<1>4. UploadTypeOK
  BY <1>2, <1>3 DEF UploadTypeOK, Presets
<1> QED
  BY <1>2, <1>3, <1>4 DEF UploadIInv

LEMMA FileKeeps ==
  ASSUME UploadIInv,
         \/ \E f \in AudioFiles \cup BadFiles : ChooseFile(f)
         \/ DragOver \/ ClearError \/ RemoveFile \/ Decoded \/ PlayPreview
  PROVE  UploadIInv'
<1>1. ASSUME NEW f \in AudioFiles \cup BadFiles, ChooseFile(f) PROVE UploadIInv'
  <2>1. /\ DOMAIN form = FormFields /\ form.file = "none" /\ Here
        /\ UNCHANGED <<asks, post, account, gone>>
    BY <1>1 DEF UploadIInv, ChooseFile, FormShown
  <2>2. /\ DOMAIN form' = FormFields
        /\ \A x \in FormFields \ {"file", "error", "over"} : form'[x] = form[x]
    <3>1. CASE f \in BadFiles
      BY <1>1, <2>1, <3>1 DEF ChooseFile, FormFields
    <3>2. CASE f \notin BadFiles
      BY <1>1, <2>1, <3>2 DEF ChooseFile, FormFields
    <3> QED
      BY <3>1, <3>2
  <2>3. /\ form'.mode = form.mode /\ form'.quality = form.quality /\ form'.url = form.url /\ form'.video = form.video
        /\ form'.mixed = form.mixed /\ form'.transcribe = form.transcribe /\ form'.lapsed = form.lapsed
    BY <2>2 DEF FormFields
  <2>4. \/ form'.file = "none" /\ audio' = audio
        \/ form'.file \in AudioFiles /\ audio' = IF Creating THEN "none" ELSE "decoding"
    BY <1>1, <2>1 DEF ChooseFile, FormFields
  <2>5. form'.file \in AudioFiles \cup {"none"} /\ (audio' # "none" <=> (form'.file # "none" /\ FormShown'))
    BY <2>1, <2>4, UploadAssumption DEF UploadIInv, UploadTypeOK, FormShown, Here, Creating
  <2>6. UploadTypeOK'
    BY <2>1, <2>3, <2>5 DEF UploadIInv, UploadTypeOK, Presets
  <2> QED
    BY <2>1, <2>2, <2>3, <2>6 DEF UploadIInv, TranscribeAvailable
<1>2. CASE DragOver
  BY <1>2 DEF DragOver, UploadIInv, UploadTypeOK, FormShown, Here, Creating, Presets, TranscribeAvailable, FormFields
<1>3. CASE ClearError
  BY <1>3 DEF ClearError, UploadIInv, UploadTypeOK, FormShown, Here, Creating, Presets, TranscribeAvailable, FormFields
<1>4. CASE RemoveFile
  BY <1>4 DEF RemoveFile, Unmounted, UploadIInv, UploadTypeOK, FormShown, Here, Creating, Presets, TranscribeAvailable, FormFields
<1>5. CASE Decoded
  BY <1>5 DEF Decoded, UploadIInv, UploadTypeOK, FormShown, Here, Creating, Presets, TranscribeAvailable, FormFields
<1>6. CASE PlayPreview
  BY <1>6 DEF PlayPreview, UploadIInv, UploadTypeOK, FormShown, Here, Creating, Presets, TranscribeAvailable, FormFields
<1> QED
  BY <1>1, <1>2, <1>3, <1>4, <1>5, <1>6

LEMMA VideoKeeps ==
  ASSUME UploadIInv,
         \/ \E m \in {"file", "url"} : ChooseMode(m)
         \/ \E u \in Videos : EditUrl(u) \/ PreviewLands(u)
         \/ FetchPreview \/ UseVideo \/ RejectVideo
  PROVE  UploadIInv'
<1>1. ASSUME NEW m \in {"file", "url"}, ChooseMode(m) PROVE UploadIInv'
  BY <1>1 DEF ChooseMode, Unmounted, NoVideo, UploadIInv, UploadTypeOK, FormShown, Here, Creating, Presets, TranscribeAvailable, FormFields
<1>2. ASSUME NEW u \in Videos, EditUrl(u) PROVE UploadIInv'
  BY <1>2 DEF EditUrl, Edited, NoVideo, UploadIInv, UploadTypeOK, FormShown, Here, Creating, Presets, TranscribeAvailable, FormFields
<1>3. ASSUME NEW u \in Videos, PreviewLands(u) PROVE UploadIInv'
  BY <1>3 DEF PreviewLands, NoVideo, UploadIInv, UploadTypeOK, FormShown, Here, Creating, Presets, TranscribeAvailable, FormFields
<1>4. CASE FetchPreview
  BY <1>4 DEF FetchPreview, UploadIInv, UploadTypeOK, FormShown, Here, Creating, Presets, TranscribeAvailable, FormFields
<1>5. CASE UseVideo
  BY <1>5 DEF UseVideo, UploadIInv, UploadTypeOK, FormShown, Here, Creating, Presets, TranscribeAvailable, FormFields
<1>6. CASE RejectVideo
  BY <1>6 DEF RejectVideo, NoVideo, UploadIInv, UploadTypeOK, FormShown, Here, Creating, Presets, TranscribeAvailable, FormFields
<1> QED
  BY <1>1, <1>2, <1>3, <1>4, <1>5, <1>6

LEMMA PresetKeeps ==
  ASSUME UploadIInv,
         \/ \E q \in {"high"} \cup SixStems : PickQuality(q)
         \/ \E on \in BOOLEAN : Transcribe(on)
         \/ LoseAccount \/ GainAccount
  PROVE  UploadIInv'
<1>1. ASSUME NEW q \in {"high"} \cup SixStems, PickQuality(q) PROVE UploadIInv'
  BY <1>1 DEF PickQuality, UploadIInv, UploadTypeOK, FormShown, Here, Creating, Presets, TranscribeAvailable, FormFields
<1>2. ASSUME NEW on \in BOOLEAN, Transcribe(on) PROVE UploadIInv'
  BY <1>2, UploadAssumption DEF Transcribe, Transcribed, UploadIInv, UploadTypeOK, FormShown, Here, Creating, Presets, TranscribeAvailable, FormFields
<1>3. CASE LoseAccount
  BY <1>3, UploadAssumption DEF LoseAccount, UploadIInv, UploadTypeOK, FormShown, Here, Creating, Presets, TranscribeAvailable, FormFields
<1>4. CASE GainAccount
  BY <1>4, UploadAssumption DEF GainAccount, UploadIInv, UploadTypeOK, FormShown, Here, Creating, Presets, TranscribeAvailable, FormFields
<1> QED
  BY <1>1, <1>2, <1>3, <1>4

LEMMA PostKeeps ==
  ASSUME UploadIInv,
         SubmitJob \/ PostLost \/ Abort \/ Unload \/ PostServed \/ PostLands
  PROVE  UploadIInv'
<1>1. CASE SubmitJob
  BY <1>1 DEF SubmitJob, Unmounted, UploadIInv, UploadTypeOK, FormShown, Here, Creating, Presets, TranscribeAvailable, FormFields
<1>2. CASE PostLost
  BY <1>2 DEF PostLost, UploadIInv, UploadTypeOK, FormShown, Here, Creating, Presets, TranscribeAvailable, FormFields
<1>3. CASE Abort
  BY <1>3 DEF Abort, UploadIInv, UploadTypeOK, FormShown, Here, Creating, Presets, TranscribeAvailable, FormFields
<1>4. CASE Unload
  BY <1>4 DEF Unload, Unmounted, UploadIInv, UploadTypeOK, FormShown, Here, Creating, Presets, TranscribeAvailable, FormFields
<1>5. CASE PostServed
  BY <1>5 DEF PostServed, UploadIInv, UploadTypeOK, FormShown, Here, Creating, Presets, TranscribeAvailable, FormFields
<1>6. CASE PostLands
  BY <1>6 DEF PostLands, UploadIInv, UploadTypeOK, FormShown, Here, Creating, Presets, TranscribeAvailable, FormFields
<1> QED
  BY <1>1, <1>2, <1>3, <1>4, <1>5, <1>6

LEMMA UploadKeeps ==
  ASSUME UploadIInv, UploadNext \/ UNCHANGED uploadVars
  PROVE  UploadIInv'
<1>1. CASE UNCHANGED uploadVars
  BY <1>1 DEF uploadVars, UploadIInv, UploadTypeOK, FormShown, Here, Creating, Presets, TranscribeAvailable
<1>2. CASE UploadNext
  BY <1>2, FileKeeps, VideoKeeps, PresetKeeps, PostKeeps DEF UploadNext
<1> QED
  BY <1>1, <1>2

\* What is sent was shown, and is served: both follow from the invariant.
LEMMA InputIsRight ==
  ASSUME UploadIInv
  PROVE  /\ Input.shown # "none" /\ ~form.mixed => Input.url = Input.shown
         /\ Input.transcribe /\ ~form.lapsed => Input.quality \in SixStems
<1>1. /\ Input.shown = IF form.mode = "file" THEN "none" ELSE form.video.of
      /\ Input.url = IF form.mode = "file" THEN "none" ELSE form.url
      /\ Input.transcribe = (TranscribeAvailable /\ form.transcribe) /\ Input.quality = form.quality
  BY DEF Input
<1>2. ~form.mixed => form.video.of \in {"none", form.url}
  BY DEF UploadIInv
<1>3. TranscribeAvailable /\ form.transcribe /\ ~form.lapsed => form.quality \in SixStems
  BY DEF UploadIInv
<1> QED
  BY <1>1, <1>2, <1>3

\* A job is made of the video that was shown and confirmed, and asked for with
\* a preset that serves it, and a preview sounds only with its file on show,
\* for any files, links, presets and accounts (Landing.tsx,
\* QualityPicker.tsx:45-47).
THEOREM JobsAreAskedAsShown == PagesSpec => AskedAsShown
<1>1. PagesInit => UploadIInv
  BY UploadStarts
<1>2. UploadIInv /\ [PagesNext]_pagesVars => UploadIInv'
  BY UploadKeeps, PagesMove
<1>3. UploadIInv => UploadTypeOK
  BY DEF UploadIInv
<1>4. UploadIInv => [Sends /\ Input.shown # "none" /\ ~form.mixed => Input.url = Input.shown]_uploadVars
  BY InputIsRight
<1>5. UploadIInv => [Sends /\ Input.transcribe /\ ~form.lapsed => Input.quality \in SixStems]_uploadVars
  BY InputIsRight
<1>6. PagesSpec => []UploadIInv
  BY <1>1, <1>2, PTL DEF PagesSpec
<1>7. PagesSpec => []UploadTypeOK
  BY <1>3, <1>6, PTL
<1>8. PagesSpec => ShownIsMade
  BY <1>4, <1>6, PTL DEF ShownIsMade
<1>9. PagesSpec => TranscribedHasSix
  BY <1>5, <1>6, PTL DEF TranscribedHasSix
<1> QED
  BY <1>7, <1>8, <1>9 DEF AskedAsShown

-----------------------------------------------------------------------------
(* Notifications                                                           *)

ToastItem == [kind : Kinds, timer : BOOLEAN, on : SUBSET {"pointer", "focus"}]

\* Of the toasts that are shown, there are never more than places.
ToastsIInv ==
  /\ toasts \in [items : Seq(ToastItem), queue : Seq(Kinds)]
  /\ Len(toasts.items) <= MaxVisible
  /\ NoPlaceIsWasted /\ NoneStaysForEver

LEMMA FreshIsToast ==
  ASSUME NEW kind \in Kinds
  PROVE  /\ Fresh(kind) \in ToastItem
         /\ Fresh(kind).kind # "error" => Fresh(kind).timer
<1>1. PICK r : r = [kind |-> kind, timer |-> FALSE, on |-> {}]
  OBVIOUS
<1>2. r \in ToastItem /\ r.kind = kind
  BY <1>1 DEF ToastItem
<1>3. Fresh(kind) = [r EXCEPT !.timer = kind # "error"]
  BY <1>1, <1>2 DEF Fresh, Armed
<1> QED
  BY <1>2, <1>3 DEF ToastItem

\* Taking one toast away leaves the others.
LEMMA RemovedOne ==
  ASSUME NEW S, NEW s \in Seq(S), NEW i \in DOMAIN s
  PROVE  /\ RemoveAt(s, i) \in Seq(S) /\ Len(RemoveAt(s, i)) = Len(s) - 1
         /\ \A k \in DOMAIN RemoveAt(s, i) : \E j \in DOMAIN s : RemoveAt(s, i)[k] = s[j]
<1> DEFINE a == SubSeq(s, 1, i - 1)
           b == SubSeq(s, i + 1, Len(s))
<1>1. i \in 1..Len(s) /\ Len(s) \in Nat
  OBVIOUS
<1>2. /\ a \in Seq(S) /\ Len(a) = i - 1 /\ \A k \in 1..Len(a) : a[k] = s[k]
  BY <1>1
<1>3. /\ b \in Seq(S) /\ Len(b) = Len(s) - i /\ \A k \in 1..Len(b) : b[k] = s[k + i]
  BY <1>1
<1>4. RemoveAt(s, i) = a \o b
  BY DEF RemoveAt
<1> HIDE DEF a, b
<1>5. a \o b \in Seq(S) /\ Len(a \o b) = Len(s) - 1
  BY <1>1, <1>2, <1>3
<1>6. ASSUME NEW k \in DOMAIN (a \o b) PROVE \E j \in DOMAIN s : (a \o b)[k] = s[j]
  <2>1. k \in 1..Len(s) - 1
    BY <1>5, <1>6
  <2>2. CASE k <= i - 1
    BY <1>1, <1>2, <1>3, <2>1, <2>2
  <2>3. CASE k > i - 1
    <3>1. (a \o b)[k] = b[k - (i - 1)] /\ k - (i - 1) \in 1..Len(b)
      BY <1>1, <1>2, <1>3, <2>1, <2>3
    <3>2. PICK l : l = k - (i - 1)
      OBVIOUS
    <3>3. l \in 1..Len(b) /\ (a \o b)[k] = b[l] /\ l + i = k + 1
      BY <1>1, <2>1, <3>1, <3>2
    <3>4. b[l] = s[k + 1]
      BY <1>3, <3>3
    <3>5. k + 1 \in DOMAIN s
      BY <1>1, <2>1
    <3> QED
      BY <3>3, <3>4, <3>5
  <2> QED
    BY <1>1, <2>1, <2>2, <2>3
<1> QED
  BY <1>4, <1>5, <1>6

\* The rows that are shown, and those that wait, after one of them changed.
NoItemStays(items) ==
  \A i \in DOMAIN items : items[i].kind # "error" /\ items[i].on = {} => items[i].timer

\* A free place is taken.
LEMMA PromotedKeeps ==
  ASSUME NEW items \in Seq(ToastItem), NEW queue \in Seq(Kinds), NEW t,
         t = [items |-> items, queue |-> queue],
         NoItemStays(items), Len(items) <= MaxVisible, queue # <<>> => Len(items) + 1 >= MaxVisible,
         toasts' = Promoted(t)
  PROVE  ToastsIInv'
<1>1. t.items = items /\ t.queue = queue /\ MaxVisible \in Nat /\ Len(items) \in Nat
  BY ToastsAssumption
<1>2. CASE Len(items) < MaxVisible /\ queue # <<>>
  <2>1. PICK x : x = Fresh(Head(queue))
    OBVIOUS
  <2>2. Head(queue) \in Kinds /\ Tail(queue) \in Seq(Kinds)
    BY <1>2
  <2>3. x \in ToastItem /\ (x.kind # "error" => x.timer)
    BY <2>1, <2>2, FreshIsToast
  <2>4. toasts' = [items |-> Append(items, x), queue |-> Tail(queue)]
    BY <1>1, <1>2, <2>1 DEF Promoted
  <2>5. toasts'.items = Append(items, x) /\ toasts'.queue = Tail(queue)
    BY <2>4
  <2>6. PICK new : new = Append(items, x)
    OBVIOUS
  <2>7. new \in Seq(ToastItem) /\ Len(new) = Len(items) + 1 /\ NoItemStays(new)
    BY <2>3, <2>6 DEF NoItemStays
  <2>8. Len(new) = MaxVisible
    BY <1>1, <1>2, <2>7
  <2>9. toasts'.items = new /\ toasts' \in [items : Seq(ToastItem), queue : Seq(Kinds)]
    <3>1. PICK q : q = Tail(queue)
      OBVIOUS
    <3>2. toasts' = [items |-> new, queue |-> q] /\ q \in Seq(Kinds)
      BY <2>2, <2>4, <2>6, <3>1
    <3> QED
      BY <2>7, <3>2
  <2> QED
    BY <1>1, <2>7, <2>8, <2>9 DEF ToastsIInv, NoPlaceIsWasted, NoneStaysForEver, NoItemStays
<1>3. CASE ~(Len(items) < MaxVisible /\ queue # <<>>)
  <2>1. toasts' = t
    BY <1>1, <1>3 DEF Promoted
  <2>2. toasts'.items = items /\ toasts'.queue = queue /\ toasts' \in [items : Seq(ToastItem), queue : Seq(Kinds)]
    BY <2>1
  <2>3. queue # <<>> => Len(items) = MaxVisible
    BY <1>1, <1>3
  <2> QED
    BY <2>2, <2>3 DEF ToastsIInv, NoPlaceIsWasted, NoneStaysForEver, NoItemStays
<1> QED
  BY <1>2, <1>3

\* A toast that changes on its place.
LEMMA ItemKeeps ==
  ASSUME ToastsIInv, NEW i \in DOMAIN toasts.items, NEW x \in ToastItem,
         x.kind # "error" /\ x.on = {} => x.timer,
         toasts' = [toasts EXCEPT !.items[i] = x]
  PROVE  ToastsIInv'
<1>1. PICK items : items = toasts.items
  OBVIOUS
<1>2. items \in Seq(ToastItem) /\ toasts \in [items : Seq(ToastItem), queue : Seq(Kinds)] /\ i \in DOMAIN items
  BY <1>1 DEF ToastsIInv
<1>3. PICK new : new = [items EXCEPT ![i] = x]
  OBVIOUS
<1>4. /\ new \in Seq(ToastItem) /\ Len(new) = Len(items) /\ DOMAIN new = DOMAIN items
      /\ new[i] = x /\ \A k \in DOMAIN items : k # i => new[k] = items[k]
  BY <1>2, <1>3
<1>5. toasts' = [toasts EXCEPT !.items = new]
  BY <1>1, <1>2, <1>3
<1>6. toasts'.items = new /\ toasts'.queue = toasts.queue /\ toasts' \in [items : Seq(ToastItem), queue : Seq(Kinds)]
  BY <1>2, <1>4, <1>5
<1>7. NoneStaysForEver'
  BY <1>1, <1>4, <1>6 DEF ToastsIInv, NoneStaysForEver
<1> QED
  BY <1>1, <1>4, <1>6, <1>7 DEF ToastsIInv, NoPlaceIsWasted

LEMMA ToastsKeep ==
  ASSUME ToastsIInv, ToastsNext \/ UNCHANGED toasts
  PROVE  ToastsIInv'
<1>1. CASE UNCHANGED toasts
  BY <1>1 DEF ToastsIInv, NoPlaceIsWasted, NoneStaysForEver
<1>2. PICK items, queue : items = toasts.items /\ queue = toasts.queue
  OBVIOUS
<1>3. /\ toasts \in [items : Seq(ToastItem), queue : Seq(Kinds)]
      /\ items \in Seq(ToastItem) /\ queue \in Seq(Kinds) /\ NoItemStays(items)
      /\ Len(items) <= MaxVisible /\ Len(items) \in Nat /\ MaxVisible \in Nat
      /\ queue # <<>> => Len(items) = MaxVisible
  BY <1>2, ToastsAssumption DEF ToastsIInv, NoneStaysForEver, NoItemStays, NoPlaceIsWasted
<1>4. ASSUME NEW kind \in Kinds, Toast(kind) PROVE ToastsIInv'
  <2>1. CASE Len(items) >= MaxVisible
    <3>1. toasts' = [toasts EXCEPT !.queue = Append(queue, kind)]
      BY <1>2, <1>4, <2>1 DEF Toast
    <3>2. Append(queue, kind) \in Seq(Kinds)
      BY <1>3
    <3>3. toasts'.items = items /\ toasts' \in [items : Seq(ToastItem), queue : Seq(Kinds)]
      BY <1>2, <1>3, <3>1, <3>2
    <3> QED
      BY <1>3, <2>1, <3>3 DEF ToastsIInv, NoPlaceIsWasted, NoneStaysForEver, NoItemStays
  <2>2. CASE Len(items) < MaxVisible
    <3>1. PICK x : x = Fresh(kind)
      OBVIOUS
    <3>2. x \in ToastItem /\ (x.kind # "error" => x.timer)
      BY <3>1, FreshIsToast
    <3>3. PICK new : new = Append(items, x)
      OBVIOUS
    <3>4. new \in Seq(ToastItem) /\ Len(new) = Len(items) + 1 /\ NoItemStays(new)
      BY <1>3, <3>2, <3>3 DEF NoItemStays
    <3>5. toasts' = [toasts EXCEPT !.items = new]
      BY <1>2, <1>3, <1>4, <2>2, <3>1, <3>3 DEF Toast
    <3>6. toasts'.items = new /\ toasts'.queue = queue /\ toasts' \in [items : Seq(ToastItem), queue : Seq(Kinds)]
      BY <1>2, <1>3, <3>4, <3>5
    <3>7. queue = <<>> /\ Len(new) <= MaxVisible
      BY <1>3, <2>2, <3>4
    <3> QED
      BY <3>4, <3>6, <3>7 DEF ToastsIInv, NoPlaceIsWasted, NoneStaysForEver, NoItemStays
  <2> QED
    BY <1>3, <2>1, <2>2
<1>5. ASSUME NEW i \in DOMAIN items, Removed(i) PROVE ToastsIInv'
  <2>1. PICK new : new = RemoveAt(items, i)
    OBVIOUS
  <2>2. new \in Seq(ToastItem) /\ Len(new) = Len(items) - 1
    BY <1>3, <2>1, RemovedOne
  <2>3. \A k \in DOMAIN new : \E j \in DOMAIN items : new[k] = items[j]
    BY <1>3, <2>1, RemovedOne
  <2>4. NoItemStays(new)
    BY <1>3, <2>3 DEF NoItemStays
  <2>5. [toasts EXCEPT !.items = RemoveAt(@, i)] = [toasts EXCEPT !.items = new]
    BY <1>2, <1>3, <2>1
  <2>6. PICK t : t = [items |-> new, queue |-> queue]
    OBVIOUS
  <2>7. [toasts EXCEPT !.items = new] = t
    BY <1>2, <1>3, <2>6
  <2>8. toasts' = Promoted(t)
    BY <1>5, <2>5, <2>7 DEF Removed
  <2>9. Len(new) <= MaxVisible /\ (queue # <<>> => Len(new) + 1 >= MaxVisible)
    BY <1>3, <2>2
  <2> QED
    BY <1>3, <2>2, <2>4, <2>6, <2>8, <2>9, PromotedKeeps
<1>6. ASSUME NEW i \in DOMAIN items, NEW how \in {"pointer", "focus"}, Pause(i, how) PROVE ToastsIInv'
  <2>1. PICK r : r = items[i]
    OBVIOUS
  <2>2. PICK x : x = PausedBy(r, how)
    OBVIOUS
  <2>3. x \in ToastItem /\ x.on # {}
    <3>1. r \in ToastItem
      BY <1>3, <1>6, <2>1
    <3> QED
      BY <2>2, <3>1 DEF ToastItem, PausedBy
  <2>4. toasts' = [toasts EXCEPT !.items[i] = x]
    BY <1>2, <1>3, <1>6, <2>1, <2>2 DEF Pause
  <2> QED
    BY <1>2, <2>3, <2>4, ItemKeeps
<1>7. ASSUME NEW i \in DOMAIN items, NEW how \in {"pointer", "focus"}, Resume(i, how) PROVE ToastsIInv'
  <2>1. PICK r : r = items[i]
    OBVIOUS
  <2>2. PICK x : x = ResumedBy(r, how)
    OBVIOUS
  <2>3. x \in ToastItem /\ (x.kind # "error" /\ x.on = {} => x.timer)
    <3>1. r \in ToastItem
      BY <1>3, <1>7, <2>1
    <3>2. PICK y : y = [r EXCEPT !.on = @ \ {how}]
      OBVIOUS
    <3>3. y \in ToastItem /\ x = Rearmed(y)
      BY <2>2, <3>1, <3>2 DEF ToastItem, ResumedBy
    <3> QED
      BY <3>3 DEF ToastItem, Rearmed, Armed
  <2>4. toasts' = [toasts EXCEPT !.items[i] = x]
    BY <1>2, <1>3, <1>7, <2>1, <2>2 DEF Resume
  <2> QED
    BY <1>2, <2>3, <2>4, ItemKeeps
<1> QED
  BY <1>1, <1>2, <1>4, <1>5, <1>6, <1>7 DEF ToastsNext, ToastsRun, DismissToast, TimeUp

LEMMA ToastsStart ==
  ASSUME PagesInit
  PROVE  ToastsIInv
<1>1. toasts.items = <<>> /\ toasts.queue = <<>> /\ toasts = [items |-> <<>>, queue |-> <<>>]
  BY DEF PagesInit, ToastsInit
<1>2. toasts \in [items : Seq(ToastItem), queue : Seq(Kinds)]
  BY <1>1
<1> QED
  BY <1>1, <1>2, ToastsAssumption DEF ToastsIInv, NoPlaceIsWasted, NoneStaysForEver

-----------------------------------------------------------------------------
(* Signing in                                                              *)

ClaimSteps == {"none", "sent", "unauthorized", "claimed", "dead", "lost", "settled"}
Server == [session : BOOLEAN, account : {"active", "pending"}, owner : [Mine -> {"nobody", "anon", "me", "gone"}]]
Document == [route : Routes, isolated : BOOLEAN, signin : BOOLEAN, next : BOOLEAN, asked : BOOLEAN]

\* A token is of a job that was made, and a claim that was decided is of one
\* that needs no token any more.
Tokens ==
  /\ srv \in Server /\ claims \subseteq Mine /\ claiming \in [Mine -> ClaimSteps]
  /\ ClaimIsKept
  /\ \A j \in Mine : j \in claims \/ claiming[j] # "none" => srv.owner[j] # "nobody"
  /\ \A j \in Mine : claiming[j] \in {"claimed", "dead"} => srv.owner[j] # "anon"

\* On the page of a job nobody signs in.
Documents ==
  /\ doc \in Document /\ JobPageIsIsolated
  /\ DOMAIN me = {"user", "loading", "fetch"} /\ me.user \in {"none", "user"} /\ me.loading \in BOOLEAN
  /\ DOMAIN dlg = {"open", "after", "mode", "banner", "gis", "popup"}
  /\ dlg.open \in BOOLEAN /\ dlg.popup \in BOOLEAN /\ dlg.after \in {"none", "job", "jobs"}
  /\ DOMAIN login = {"via", "answer"} /\ login.via \in {"none", "password", "google", "register"}
  /\ doc.isolated => ~Busy /\ ~dlg.open /\ ~dlg.popup

\* Jobs are claimed by a dialog that signed someone in.
Together ==
  /\ login.answer # "claiming" => claiming = NoClaims
  /\ ~Busy => login.answer = "none"
  /\ login.via \in {"password", "register"} => dlg.open

SessionIInv == Tokens /\ Documents /\ Together

LEMMA SessionIsRight ==
  ASSUME SessionIInv
  PROVE  SessionInv
<1>1. SessionTypeOK
  BY DEF SessionIInv, Tokens, Documents, Together, SessionTypeOK, Server, Document
<1>2. ClaimIsKept /\ JobPageIsIsolated /\ DialogCanPopUp
  BY DEF SessionIInv, Tokens, Documents, DialogCanPopUp
<1> QED
  BY <1>1, <1>2 DEF SessionInv

\* A document that is loaded keeps nothing in memory.
LEMMA LoadedKeeps ==
  ASSUME SessionIInv, NEW route \in Routes, NEW signin \in BOOLEAN, NEW next \in BOOLEAN,
         Loaded(route, signin, next), UNCHANGED claims, srv' \in Server, srv'.owner = srv.owner
  PROVE  SessionIInv'
<1>1. /\ DOMAIN Closed = {"open", "after", "mode", "banner", "gis", "popup"}
      /\ ~Closed.open /\ ~Closed.popup /\ Closed.after = "none"
      /\ DOMAIN NoLogin = {"via", "answer"} /\ NoLogin.via = "none" /\ NoLogin.answer = "none"
      /\ NoClaims \in [Mine -> ClaimSteps] /\ \A j \in Mine : NoClaims[j] = "none"
  BY DEF Closed, NoLogin, NoClaims, ClaimSteps
<1>2. dlg' = Closed /\ login' = NoLogin /\ claiming' = NoClaims
  BY DEF Loaded
<1>3. doc' = [route |-> route, isolated |-> (route = "job"), signin |-> signin, next |-> next, asked |-> FALSE]
  BY DEF Loaded, NeedsIsolation
<1>4. doc' \in Document /\ doc'.route = route /\ doc'.isolated = (route = "job")
  BY <1>3 DEF Document
<1>5. DOMAIN me' = {"user", "loading", "fetch"} /\ me'.user \in {"none", "user"} /\ me'.loading \in BOOLEAN
  BY DEF Loaded
<1>6. Tokens'
  BY <1>1, <1>2 DEF SessionIInv, Tokens, ClaimIsKept
<1>7. Documents'
  <2>1. /\ DOMAIN dlg' = {"open", "after", "mode", "banner", "gis", "popup"}
        /\ dlg'.open = FALSE /\ dlg'.popup = FALSE /\ dlg'.after = "none"
    BY <1>2 DEF Closed
  <2>2. DOMAIN login' = {"via", "answer"} /\ login'.via = "none"
    BY <1>2 DEF NoLogin
  <2>3. JobPageIsIsolated'
    BY <1>4 DEF JobPageIsIsolated
  <2>4. ~Busy'
    BY <2>2 DEF Busy
  <2> QED
    BY <1>4, <1>5, <2>1, <2>2, <2>3, <2>4 DEF Documents
<1>8. Together'
  BY <1>1, <1>2 DEF Together, NoClaims
<1> QED
  BY <1>6, <1>7, <1>8 DEF SessionIInv

LEMMA SessionStarts ==
  ASSUME PagesInit
  PROVE  SessionIInv
<1>1. SessionInit
  BY DEF PagesInit
<1>2. /\ DOMAIN Closed = {"open", "after", "mode", "banner", "gis", "popup"}
      /\ ~Closed.open /\ ~Closed.popup /\ Closed.after = "none"
      /\ DOMAIN NoLogin = {"via", "answer"} /\ NoLogin.via = "none" /\ NoLogin.answer = "none"
      /\ NoClaims \in [Mine -> ClaimSteps] /\ \A j \in Mine : NoClaims[j] = "none"
  BY DEF Closed, NoLogin, NoClaims, ClaimSteps
<1>3. dlg = Closed /\ login = NoLogin /\ claiming = NoClaims /\ claims = {}
  BY <1>1 DEF SessionInit
<1>4. srv \in Server /\ \A j \in Mine : srv.owner[j] = "nobody"
  BY <1>1 DEF SessionInit, Server
<1>5. doc \in Document /\ doc.route = "home" /\ ~doc.isolated
  BY <1>1 DEF SessionInit, Document, Routes
<1>6. DOMAIN me = {"user", "loading", "fetch"} /\ me.user \in {"none", "user"} /\ me.loading \in BOOLEAN
  BY <1>1 DEF SessionInit
<1>7. Tokens
  BY <1>2, <1>3, <1>4 DEF Tokens, ClaimIsKept
<1>8. Documents
  <2>1. /\ DOMAIN dlg = {"open", "after", "mode", "banner", "gis", "popup"}
        /\ dlg.open = FALSE /\ dlg.popup = FALSE /\ dlg.after = "none"
    BY <1>3 DEF Closed
  <2>2. DOMAIN login = {"via", "answer"} /\ login.via = "none"
    BY <1>3 DEF NoLogin
  <2>3. JobPageIsIsolated
    BY <1>5 DEF JobPageIsIsolated
  <2> QED
    BY <1>5, <1>6, <2>1, <2>2, <2>3 DEF Documents
<1>9. Together
  BY <1>2, <1>3 DEF Together
<1> QED
  BY <1>7, <1>8, <1>9 DEF SessionIInv

\* The steps that touch neither tokens nor claims.
LEMMA DocumentsMove ==
  ASSUME SessionIInv, Documents', Together', UNCHANGED <<srv, claims, claiming>>
  PROVE  SessionIInv'
BY DEF SessionIInv, Tokens, ClaimIsKept

LEMMA DocumentKeeps ==
  ASSUME SessionIInv,
         \/ \E route \in Routes : Navigate(route) \/ Open(route)
         \/ MeServed \/ MeLands \/ MeLost \/ Focus \/ SignOut \/ Redirect
  PROVE  SessionIInv'
<1>0. srv \in Server
  BY DEF SessionIInv, Tokens
<1>1. ASSUME NEW route \in Routes, Navigate(route) PROVE SessionIInv'
  <2>1. CASE CrossesIsolation(route)
    BY <1>0, <1>1, <2>1, LoadedKeeps DEF Navigate, Gone
  <2>2. CASE ~CrossesIsolation(route)
    <3>1. /\ doc' = [doc EXCEPT !.route = route, !.asked = FALSE]
          /\ UNCHANGED <<me, login, claiming, dlg, srv, claims>>
      BY <1>1, <2>2 DEF Navigate, Gone
    <3>2. doc' \in Document /\ doc'.isolated = doc.isolated /\ doc'.route = route
      BY <3>1 DEF SessionIInv, Documents, Document
    <3>3. doc'.isolated <=> route = "job"
      BY <2>2, <3>2 DEF CrossesIsolation, NeedsIsolation, SessionIInv, Documents, Document
    <3>4. Documents' /\ Together'
      BY <3>1, <3>2, <3>3 DEF SessionIInv, Documents, Together, JobPageIsIsolated, Busy, NoClaims
    <3> QED
      BY <3>1, <3>4, DocumentsMove
  <2> QED
    BY <2>1, <2>2
<1>2. ASSUME NEW route \in Routes, Open(route) PROVE SessionIInv'
  BY <1>0, <1>2, LoadedKeeps DEF Open
<1>3. ASSUME UNCHANGED <<doc, dlg, login, srv, claims, claiming>>,
             DOMAIN me' = {"user", "loading", "fetch"}, me'.user \in {"none", "user"}, me'.loading \in BOOLEAN
      PROVE  SessionIInv'
  <2>1. Documents' /\ Together'
    BY <1>3 DEF SessionIInv, Documents, Together, JobPageIsIsolated, Busy, NoClaims
  <2> QED
    BY <1>3, <2>1, DocumentsMove
<1>4. DOMAIN me = {"user", "loading", "fetch"} /\ me.user \in {"none", "user"} /\ me.loading \in BOOLEAN
  BY DEF SessionIInv, Documents
<1>5. CASE MeServed
  BY <1>3, <1>4, <1>5 DEF MeServed
<1>6. CASE MeLands
  BY <1>3, <1>4, <1>6 DEF MeLands
<1>7. CASE MeLost
  BY <1>3, <1>4, <1>7 DEF MeLost
<1>8. CASE Focus
  BY <1>3, <1>4, <1>8 DEF Focus
<1>9. CASE SignOut
  <2>1. PICK session \in BOOLEAN : srv' = [srv EXCEPT !.session = session]
    BY <1>0, <1>9 DEF SignOut, Server
  <2>2. srv' \in Server /\ srv'.owner = srv.owner /\ UNCHANGED claims
    BY <1>0, <1>9, <2>1 DEF SignOut, Server
  <2>3. CASE Loaded("home", FALSE, FALSE)
    BY <2>2, <2>3, LoadedKeeps DEF Routes
  <2>4. CASE /\ ~CrossesIsolation("home")
             /\ doc' = [doc EXCEPT !.route = "home", !.asked = FALSE]
             /\ me' = [me EXCEPT !.user = "none"]
             /\ UNCHANGED <<dlg, login, claiming>>
    <3>1. doc' \in Document /\ doc'.isolated = doc.isolated /\ doc'.route = "home"
      BY <2>4 DEF SessionIInv, Documents, Document, Routes
    <3>2. doc'.isolated <=> doc'.route = "job"
      BY <2>4, <3>1 DEF CrossesIsolation, NeedsIsolation, SessionIInv, Documents, Document
    <3>3. Documents' /\ Together'
      BY <2>4, <3>1, <3>2 DEF SessionIInv, Documents, Together, JobPageIsIsolated, Busy, NoClaims
    <3>4. Tokens'
      BY <2>2, <2>4 DEF SessionIInv, Tokens, ClaimIsKept
    <3> QED
      BY <3>3, <3>4 DEF SessionIInv
  <2>5. CASE me' = [me EXCEPT !.user = "none"] /\ UNCHANGED <<doc, dlg, login, claiming>>
    <3>1. Documents' /\ Together'
      BY <1>4, <2>5 DEF SessionIInv, Documents, Together, JobPageIsIsolated, Busy, NoClaims
    <3>2. Tokens'
      BY <2>2, <2>5 DEF SessionIInv, Tokens, ClaimIsKept
    <3> QED
      BY <3>1, <3>2 DEF SessionIInv
  <2> QED
    BY <1>9, <2>3, <2>4, <2>5 DEF SignOut
<1>10. CASE Redirect
  <2>1. doc' \in Document /\ doc'.isolated = doc.isolated /\ doc'.route = "jobs" /\ doc.route = "admin"
    BY <1>10 DEF Redirect, SessionIInv, Documents, Document, Routes
  <2>2. UNCHANGED <<srv, claims, me, dlg, login, claiming>>
    BY <1>10 DEF Redirect
  <2>3. Documents' /\ Together'
    BY <2>1, <2>2 DEF SessionIInv, Documents, Together, JobPageIsIsolated, Busy, NoClaims
  <2> QED
    BY <2>2, <2>3, DocumentsMove
<1> QED
  BY <1>1, <1>2, <1>5, <1>6, <1>7, <1>8, <1>9, <1>10

\* The dialog, closed and opened.
DialogShape(d) ==
  /\ DOMAIN d = {"open", "after", "mode", "banner", "gis", "popup"}
  /\ d.open \in BOOLEAN /\ d.popup \in BOOLEAN /\ d.after \in {"none", "job", "jobs"}

LEMMA ClosedDialog ==
  ASSUME NEW popup \in BOOLEAN
  PROVE  /\ DialogShape([Closed EXCEPT !.popup = popup])
         /\ ~[Closed EXCEPT !.popup = popup].open /\ [Closed EXCEPT !.popup = popup].popup = popup
<1>1. PICK c : c = Closed
  OBVIOUS
<1>2. DialogShape(c) /\ ~c.open
  BY <1>1 DEF Closed, DialogShape
<1>3. PICK d : d = [c EXCEPT !.popup = popup]
  OBVIOUS
<1>4. DialogShape(d) /\ ~d.open /\ d.popup = popup
  BY <1>2, <1>3 DEF DialogShape
<1> QED
  BY <1>1, <1>3, <1>4

LEMMA OpenedDialog ==
  ASSUME NEW after \in {"none", "job", "jobs"}
  PROVE  DialogShape([Closed EXCEPT !.open = TRUE, !.after = after, !.gis = "loading"])
<1>1. PICK c : c = Closed
  OBVIOUS
<1>2. DialogShape(c)
  BY <1>1 DEF Closed, DialogShape
<1>3. PICK d : d = [c EXCEPT !.open = TRUE, !.after = after, !.gis = "loading"]
  OBVIOUS
<1>4. DialogShape(d)
  BY <1>2, <1>3 DEF DialogShape
<1> QED
  BY <1>1, <1>3, <1>4

\* The dialog of a document that is not isolated may become any dialog, as
\* long as a request of it keeps it open.
LEMMA DialogMoves ==
  ASSUME SessionIInv, ~doc.isolated, ~doc'.isolated, doc'.route # "job", doc' \in Document,
         DialogShape(dlg'), UNCHANGED <<srv, claims, me, claiming>>,
         DOMAIN login' = {"via", "answer"}, login'.via \in {"none", "password", "google", "register"},
         login'.answer # "claiming" => claiming = NoClaims, ~Busy' => login'.answer = "none",
         login'.via \in {"password", "register"} => dlg'.open
  PROVE  SessionIInv'
<1>1. doc'.isolated = FALSE
  BY DEF Document
<1>2. Documents'
  BY <1>1 DEF SessionIInv, Documents, JobPageIsIsolated, DialogShape
<1>3. Together'
  BY DEF Together, NoClaims
<1> QED
  BY <1>2, <1>3, DocumentsMove

\* The same with the request as it is.
LEMMA DialogMovesOnly ==
  ASSUME SessionIInv, ~doc.isolated, DialogShape(dlg'), UNCHANGED <<srv, claims, me, claiming, login, doc>>,
         login.via \in {"password", "register"} => dlg'.open
  PROVE  SessionIInv'
<1>1. doc' \in Document /\ ~doc'.isolated /\ doc'.route # "job"
  BY DEF SessionIInv, Documents, JobPageIsIsolated
<1>2. /\ DOMAIN login' = {"via", "answer"} /\ login'.via \in {"none", "password", "google", "register"}
      /\ login'.answer # "claiming" => claiming = NoClaims
      /\ login'.via \in {"password", "register"} => dlg'.open
  BY DEF SessionIInv, Documents, Together
<1>3. ~Busy' => login'.answer = "none"
  BY DEF SessionIInv, Together, Busy
<1> QED
  BY <1>1, <1>2, <1>3, DialogMoves

LEMMA OpeningKeeps ==
  ASSUME SessionIInv, SignIn \/ TakeHandOff \/ Prompt
  PROVE  SessionIInv'
<1>0. /\ srv \in Server /\ doc \in Document /\ JobPageIsIsolated /\ DialogShape(dlg)
      /\ DOMAIN login = {"via", "answer"} /\ login.via \in {"none", "password", "google", "register"}
      /\ login.answer # "claiming" => claiming = NoClaims
      /\ login.via \in {"password", "register"} => dlg.open
  BY DEF SessionIInv, Tokens, Documents, Together, DialogShape
<1>1. CASE SignIn
  <2>1. PICK after \in {"none", "jobs"} : SignInOpened(after) /\ UNCHANGED <<srv, claims>> /\ ~dlg.open
    BY <1>1 DEF SignIn
  <2>2. CASE doc.isolated
    <3>1. Loaded("jobs", TRUE, TRUE)
      BY <2>1, <2>2 DEF SignInOpened
    <3> QED
      BY <1>0, <2>1, <3>1, LoadedKeeps DEF Routes
  <2>3. CASE ~doc.isolated
    <3>1. /\ dlg' = [Closed EXCEPT !.open = TRUE, !.after = after, !.gis = "loading"]
          /\ UNCHANGED <<doc, me, login, claiming>>
      BY <2>1, <2>3 DEF SignInOpened
    <3>2. DialogShape(dlg')
      BY <3>1, OpenedDialog
    <3>3. login.via \notin {"password", "register"}
      BY <1>0, <2>1
    <3> QED
      BY <2>1, <2>3, <3>1, <3>2, <3>3, DialogMovesOnly
  <2> QED
    BY <2>2, <2>3
<1>2. CASE TakeHandOff
  <2>1. doc.route = "jobs" /\ ~doc.isolated /\ UNCHANGED <<srv, claims>>
    BY <1>0, <1>2 DEF TakeHandOff, JobPageIsIsolated
  <2>2. CASE Loaded("job", FALSE, FALSE)
    BY <1>0, <2>1, <2>2, LoadedKeeps DEF Routes
  <2>3. CASE /\ doc' = [doc EXCEPT !.signin = FALSE, !.next = FALSE, !.asked = TRUE]
             /\ dlg' = IF me.user # "none" THEN dlg
                       ELSE [Closed EXCEPT !.open = TRUE, !.gis = "loading",
                                           !.after = IF doc.next THEN "job" ELSE "none"]
             /\ UNCHANGED <<me, login, claiming>>
    <3>1. doc' \in Document /\ ~doc'.isolated /\ doc'.route # "job"
      BY <1>0, <2>1, <2>3 DEF Document
    <3>2. PICK after \in {"none", "job"} : after = IF doc.next THEN "job" ELSE "none"
      OBVIOUS
    <3>3. PICK opened : opened = [Closed EXCEPT !.open = TRUE, !.after = after, !.gis = "loading"]
      OBVIOUS
    <3>4. opened = [Closed EXCEPT !.open = TRUE, !.gis = "loading", !.after = after]
      BY <3>3
    <3>5. DialogShape(opened) /\ opened.open
      BY <3>3, OpenedDialog DEF Closed
    <3>6. dlg' = dlg \/ dlg' = opened
      BY <2>3, <3>2, <3>4
    <3>7. DialogShape(dlg') /\ (login'.via \in {"password", "register"} => dlg'.open)
      BY <1>0, <2>3, <3>5, <3>6
    <3>8. ~Busy' => login'.answer = "none"
      BY <2>3 DEF SessionIInv, Together, Busy
    <3> QED
      BY <1>0, <2>1, <2>3, <3>1, <3>7, <3>8, DialogMoves
  <2> QED
    BY <1>2, <2>2, <2>3 DEF TakeHandOff
<1>3. CASE Prompt
  <2>1. doc.route \in Guarded /\ ~doc.isolated /\ ~dlg.open /\ UNCHANGED <<srv, claims, me, login, claiming>>
    BY <1>0, <1>3 DEF Prompt, JobPageIsIsolated, Guarded
  <2>2. doc' \in Document /\ ~doc'.isolated /\ doc'.route # "job"
    BY <1>0, <1>3, <2>1 DEF Prompt, Document, Guarded
  <2>4. PICK c : c = Closed
    OBVIOUS
  <2>5. DialogShape(dlg')
    <3>1. DialogShape(c)
      BY <2>4 DEF Closed, DialogShape
    <3>2. dlg' = [c EXCEPT !.open = TRUE, !.gis = "loading"]
      BY <1>3, <2>4 DEF Prompt
    <3> QED
      BY <3>1, <3>2 DEF DialogShape
  <2>6. login'.via \notin {"password", "register"}
    BY <1>0, <2>1
  <2>7. ~Busy' => login'.answer = "none"
    BY <2>1 DEF SessionIInv, Together, Busy
  <2> QED
    BY <1>0, <2>1, <2>2, <2>5, <2>6, <2>7, DialogMoves
<1> QED
  BY <1>1, <1>2, <1>3

LEMMA DialogKeeps ==
  ASSUME SessionIInv,
         \/ GisLoads \/ SwitchMode \/ GoogleFallback \/ Dismiss \/ SeeApproval
         \/ Submit \/ AskGoogle \/ Credential
  PROVE  SessionIInv'
<1>0. /\ doc \in Document /\ JobPageIsIsolated /\ DialogShape(dlg)
      /\ DOMAIN login = {"via", "answer"} /\ login.via \in {"none", "password", "google", "register"}
      /\ login.answer # "claiming" => claiming = NoClaims
      /\ login.via \in {"password", "register"} => dlg.open
      /\ dlg.open \/ dlg.popup => ~doc.isolated
      /\ ~Busy => login.answer = "none"
  BY DEF SessionIInv, Documents, Together, DialogShape
<1>1. (doc.route # "job" /\ doc.isolated \in BOOLEAN) \/ doc.isolated
  BY <1>0 DEF JobPageIsIsolated, Document
<1>2. CASE GisLoads
  <2>1. DialogShape(dlg') /\ dlg'.open = dlg.open /\ ~doc.isolated /\ UNCHANGED <<srv, claims, doc, me, login, claiming>>
    BY <1>0, <1>2 DEF GisLoads, DialogShape
  <2> QED
    BY <1>0, <2>1, DialogMovesOnly
<1>3. CASE SwitchMode
  <2>1. DialogShape(dlg') /\ dlg'.open = dlg.open /\ ~doc.isolated /\ UNCHANGED <<srv, claims, doc, me, login, claiming>>
    BY <1>0, <1>3 DEF SwitchMode, Offered, DialogShape
  <2> QED
    BY <1>0, <2>1, DialogMovesOnly
<1>4. CASE GoogleFallback
  <2>1. DialogShape(dlg') /\ dlg'.open = dlg.open /\ ~doc.isolated /\ UNCHANGED <<srv, claims, doc, me, login, claiming>>
    BY <1>0, <1>4 DEF GoogleFallback, Offered, DialogShape
  <2> QED
    BY <1>0, <2>1, DialogMovesOnly
<1>5. CASE Dismiss
  <2>1. dlg' = [Closed EXCEPT !.popup = dlg.popup] /\ dlg.popup \in BOOLEAN
    BY <1>0, <1>5 DEF Dismiss, DialogShape
  <2>2. DialogShape(dlg')
    BY <2>1, ClosedDialog
  <2>3. ~doc.isolated /\ login.via = "none" /\ UNCHANGED <<srv, claims, doc, me, login, claiming>>
    BY <1>0, <1>5 DEF Dismiss, Offered, Busy
  <2> QED
    BY <2>2, <2>3, DialogMovesOnly
<1>6. CASE SeeApproval
  <2>1. dlg' = [Closed EXCEPT !.popup = dlg.popup] /\ dlg.popup \in BOOLEAN
    BY <1>0, <1>6 DEF SeeApproval, DialogShape
  <2>2. DialogShape(dlg')
    BY <2>1, ClosedDialog
  <2>3. /\ ~doc.isolated /\ login.via = "none" /\ UNCHANGED <<srv, claims, me, login, claiming>>
        /\ login.answer = "none"
    BY <1>0, <1>6 DEF SeeApproval, Offered, Busy
  <2>4. doc' \in Document /\ ~doc'.isolated /\ doc'.route # "job"
    BY <1>0, <1>6, <2>3 DEF SeeApproval, Document, Routes
  <2> QED
    BY <1>0, <2>2, <2>3, <2>4, DialogMoves
<1>7. CASE Submit
  <2>1. DialogShape(dlg') /\ dlg'.open /\ ~doc.isolated /\ UNCHANGED <<srv, claims, doc, me, claiming>>
    BY <1>0, <1>7 DEF Submit, Offered, DialogShape
  <2>2. PICK via \in {"password", "register"} : login' = [via |-> via, answer |-> "none"]
    BY <1>7 DEF Submit
  <2>3. DOMAIN login' = {"via", "answer"} /\ login'.via = via /\ login'.answer = "none"
    BY <2>2
  <2>4. claiming = NoClaims
    BY <1>0, <1>7 DEF Submit, Offered
  <2> QED
    BY <1>0, <1>1, <2>1, <2>3, <2>4, DialogMoves
<1>8. CASE AskGoogle
  <2>1. DialogShape(dlg') /\ dlg'.open = dlg.open /\ ~doc.isolated /\ UNCHANGED <<srv, claims, doc, me, login, claiming>>
    BY <1>0, <1>8 DEF AskGoogle, Offered, DialogShape
  <2> QED
    BY <1>0, <2>1, DialogMovesOnly
<1>9. CASE Credential
  <2>1. DialogShape(dlg') /\ dlg'.open = dlg.open /\ ~doc.isolated /\ UNCHANGED <<srv, claims, doc, me, claiming>>
    BY <1>0, <1>9 DEF Credential, DialogShape
  <2>2. CASE Busy
    <3>1. UNCHANGED login
      BY <1>9, <2>2 DEF Credential
    <3> QED
      BY <1>0, <2>1, <3>1, DialogMovesOnly
  <2>3. CASE ~Busy
    <3>1. login' = [via |-> "google", answer |-> "none"]
      BY <1>9, <2>3 DEF Credential
    <3>2. DOMAIN login' = {"via", "answer"} /\ login'.via = "google" /\ login'.answer = "none"
      BY <3>1
    <3>3. claiming = NoClaims
      BY <1>0, <2>3
    <3> QED
      BY <1>0, <1>1, <2>1, <3>2, <3>3, DialogMoves
  <2> QED
    BY <2>2, <2>3
<1> QED
  BY <1>2, <1>3, <1>4, <1>5, <1>6, <1>7, <1>8, <1>9

LEMMA AnswerKeeps ==
  ASSUME SessionIInv, LoginServed \/ LoginLost \/ WaitsForApproval \/ Refused
  PROVE  SessionIInv'
<1>0. /\ doc \in Document /\ JobPageIsIsolated /\ DialogShape(dlg)
      /\ DOMAIN login = {"via", "answer"} /\ login.via \in {"none", "password", "google", "register"}
      /\ login.answer # "claiming" => claiming = NoClaims
      /\ login.via \in {"password", "register"} => dlg.open
      /\ Busy => ~doc.isolated
      /\ ~Busy => login.answer = "none"
  BY DEF SessionIInv, Documents, Together, DialogShape
<1>1. NoLogin.via = "none" /\ NoLogin.answer = "none" /\ DOMAIN NoLogin = {"via", "answer"}
  BY DEF NoLogin
<1>2. CASE LoginServed
  <2>1. /\ DOMAIN login' = {"via", "answer"} /\ login'.via = login.via /\ login'.answer \in {"wrong", "pending", "ok"}
        /\ Busy /\ login.answer = "none"
    BY <1>0, <1>2 DEF LoginServed
  <2>2. srv' \in Server /\ srv'.owner = srv.owner
    <3>1. PICK answer : srv' = [srv EXCEPT !.session = @ \/ (answer = "ok" /\ login.via # "register"),
                             !.account = IF answer = "ok" /\ login.via = "register" THEN "pending" ELSE @]
      BY <1>2 DEF LoginServed
    <3> QED
      BY <3>1 DEF SessionIInv, Tokens, Server
  <2>3. UNCHANGED <<claims, doc, me, dlg, claiming>>
    BY <1>2 DEF LoginServed
  <2>4. Tokens'
    BY <2>2, <2>3 DEF SessionIInv, Tokens, ClaimIsKept
  <2>5. Busy'
    BY <2>1 DEF Busy
  <2>6. Documents' /\ Together'
    BY <1>0, <2>1, <2>3, <2>5 DEF SessionIInv, Documents, Together, JobPageIsIsolated, NoClaims
  <2> QED
    BY <2>4, <2>6 DEF SessionIInv
<1>3. CASE LoginLost
  <2>1. /\ DOMAIN login' = {"via", "answer"} /\ login'.via = login.via /\ login'.answer = "lost"
        /\ Busy /\ login.answer # "claiming" /\ UNCHANGED <<srv, claims, doc, me, dlg, claiming>>
    BY <1>0, <1>3 DEF LoginLost
  <2>2. Busy'
    BY <2>1 DEF Busy
  <2>3. Documents' /\ Together'
    BY <1>0, <2>1, <2>2 DEF SessionIInv, Documents, Together, JobPageIsIsolated, NoClaims
  <2> QED
    BY <2>1, <2>3, DocumentsMove
<1>4. CASE WaitsForApproval
  <2>1. dlg' = [Closed EXCEPT !.popup = dlg.popup] /\ dlg.popup \in BOOLEAN
    BY <1>0, <1>4 DEF WaitsForApproval, DialogShape
  <2>2. DialogShape(dlg')
    BY <2>1, ClosedDialog
  <2>3. Busy /\ login.answer # "claiming" /\ login' = NoLogin /\ UNCHANGED <<srv, claims, me, claiming>>
    BY <1>0, <1>4 DEF WaitsForApproval, Busy
  <2>4. doc' \in Document /\ ~doc'.isolated /\ doc'.route # "job"
    BY <1>0, <1>4, <2>3 DEF WaitsForApproval, Document, Routes
  <2> QED
    BY <1>0, <1>1, <2>2, <2>3, <2>4, DialogMoves
<1>5. CASE Refused
  <2>1. Busy /\ login.answer # "claiming" /\ login' = NoLogin /\ UNCHANGED <<srv, claims, me, claiming, doc>>
    BY <1>0, <1>5 DEF Refused, Busy
  <2>2. DialogShape(dlg')
    BY <1>0, <1>5 DEF Refused, DialogShape
  <2>3. doc' \in Document /\ ~doc'.isolated /\ doc'.route # "job"
    BY <1>0, <2>1 DEF JobPageIsIsolated
  <2> QED
    BY <1>0, <1>1, <2>1, <2>2, <2>3, DialogMoves
<1> QED
  BY <1>2, <1>3, <1>4, <1>5

LEMMA ClaimsKeep ==
  ASSUME SessionIInv,
         \/ SignedIn \/ AllClaimed
         \/ \E j \in Mine : ClaimServed(j) \/ ClaimLost(j) \/ ClaimLands(j)
  PROVE  SessionIInv'
<1>0. /\ Tokens /\ Documents /\ Together
      /\ srv \in Server /\ claims \subseteq Mine /\ claiming \in [Mine -> ClaimSteps]
      /\ doc \in Document /\ JobPageIsIsolated /\ DialogShape(dlg)
      /\ DOMAIN login = {"via", "answer"} /\ login.via \in {"none", "password", "google", "register"}
      /\ login.answer # "claiming" => claiming = NoClaims
      /\ Busy => ~doc.isolated
      /\ ~Busy => login.answer = "none"
  BY DEF SessionIInv, Tokens, Documents, Together, DialogShape
<1>1. CASE SignedIn
  <2>1. /\ DOMAIN login' = {"via", "answer"} /\ login'.via = login.via /\ login'.answer = "claiming" /\ Busy
        /\ UNCHANGED <<srv, claims, doc, dlg>>
    BY <1>0, <1>1 DEF SignedIn
  <2>2. DOMAIN me' = {"user", "loading", "fetch"} /\ me'.user \in {"none", "user"} /\ me'.loading \in BOOLEAN
    BY <1>1 DEF SignedIn, SessionIInv, Documents
  <2>3. claiming' = [j \in Mine |-> IF j \in claims THEN "sent" ELSE "none"]
    BY <1>1 DEF SignedIn
  <2>4. Tokens'
    BY <1>0, <2>1, <2>3 DEF Tokens, ClaimIsKept, ClaimSteps
  <2>5. Busy'
    BY <2>1 DEF Busy
  <2>6. Documents'
    BY <1>0, <2>1, <2>2, <2>5 DEF Documents, JobPageIsIsolated
  <2>7. Together'
    BY <1>0, <2>1, <2>5 DEF Together
  <2> QED
    BY <2>4, <2>6, <2>7 DEF SessionIInv
<1>2. CASE AllClaimed
  <2>1. Busy /\ ~doc.isolated /\ UNCHANGED <<srv, claims>> /\ Followed(dlg.after)
    BY <1>0, <1>2 DEF AllClaimed
  <2>2. CASE dlg.after = "job"
    <3>1. Loaded("job", FALSE, FALSE)
      BY <2>1, <2>2 DEF Followed
    <3> QED
      BY <1>0, <2>1, <3>1, LoadedKeeps DEF Routes
  <2>3. CASE dlg.after # "job"
    <3>1. /\ dlg' = [Closed EXCEPT !.popup = dlg.popup] /\ login' = NoLogin /\ claiming' = NoClaims
          /\ doc' = IF dlg.after = "jobs" THEN [doc EXCEPT !.route = "jobs"] ELSE doc
          /\ UNCHANGED me
      BY <2>1, <2>3 DEF Followed
    <3>2. DialogShape(dlg') /\ ~dlg'.open
      BY <1>0, <3>1, ClosedDialog DEF DialogShape
    <3>3. NoLogin.via = "none" /\ NoLogin.answer = "none" /\ DOMAIN NoLogin = {"via", "answer"}
      BY DEF NoLogin
    <3>4. doc' \in Document /\ doc'.isolated = FALSE /\ doc'.route # "job"
      BY <1>0, <2>1, <3>1 DEF Document, Routes, JobPageIsIsolated
    <3>5. Tokens'
      BY <1>0, <2>1, <3>1 DEF Tokens, ClaimIsKept, NoClaims, ClaimSteps
    <3>6. Documents'
      BY <1>0, <3>1, <3>2, <3>3, <3>4 DEF Documents, JobPageIsIsolated, DialogShape
    <3>7. Together'
      BY <3>1, <3>3 DEF Together, NoClaims
    <3> QED
      BY <3>5, <3>6, <3>7 DEF SessionIInv
  <2> QED
    BY <2>2, <2>3
<1>3. ASSUME NEW j \in Mine, ClaimServed(j) \/ ClaimLost(j) \/ ClaimLands(j) PROVE SessionIInv'
  <2>1. UNCHANGED <<doc, me, dlg, login>> /\ claiming[j] # "none"
    BY <1>3 DEF ClaimServed, ClaimLost, ClaimLands
  <2>2. login.answer = "claiming"
    BY <1>0, <2>1 DEF NoClaims
  <2>3. Documents' /\ Together'
    BY <1>0, <2>1, <2>2 DEF Documents, Together, JobPageIsIsolated, Busy
  <2>4. CASE ClaimServed(j)
    <3>1. claiming' \in [Mine -> ClaimSteps] /\ \A k \in Mine \ {j} : claiming'[k] = claiming[k]
      BY <1>0, <2>4 DEF ClaimServed, ClaimSteps
    <3>2. /\ srv' \in Server /\ claims' = claims
          /\ \A k \in Mine \ {j} : srv'.owner[k] = srv.owner[k]
          /\ srv'.owner[j] = IF srv.session /\ srv.owner[j] = "anon" THEN "me" ELSE srv.owner[j]
      BY <1>0, <2>4 DEF ClaimServed, Server
    <3>3. claiming'[j] = CASE ~srv.session -> "unauthorized" [] srv.session /\ srv.owner[j] = "anon" -> "claimed" [] OTHER -> "dead"
      BY <1>0, <2>4 DEF ClaimServed
    <3>4. claiming'[j] \in {"claimed", "dead"} => srv'.owner[j] # "anon"
      BY <3>2, <3>3
    <3>5. srv'.owner[j] = "anon" => j \in claims
      BY <1>0, <3>2 DEF Tokens, ClaimIsKept
    <3>6. srv'.owner[j] # "nobody"
      BY <1>0, <2>1, <3>2 DEF Tokens
    <3>7. Tokens'
      BY <1>0, <3>1, <3>2, <3>4, <3>5, <3>6 DEF Tokens, ClaimIsKept
    <3> QED
      BY <2>3, <3>7 DEF SessionIInv
  <2>5. CASE ClaimLost(j)
    <3>1. claiming' \in [Mine -> ClaimSteps] /\ claiming'[j] = "lost" /\ \A k \in Mine \ {j} : claiming'[k] = claiming[k]
      BY <1>0, <2>5 DEF ClaimLost, ClaimSteps
    <3>2. UNCHANGED <<srv, claims>>
      BY <2>5 DEF ClaimLost
    <3>3. Tokens'
      BY <1>0, <2>1, <3>1, <3>2 DEF Tokens, ClaimIsKept
    <3> QED
      BY <2>3, <3>3 DEF SessionIInv
  <2>6. CASE ClaimLands(j)
    <3>1. claiming' \in [Mine -> ClaimSteps] /\ claiming'[j] = "settled" /\ \A k \in Mine \ {j} : claiming'[k] = claiming[k]
      BY <1>0, <2>6 DEF ClaimLands, ClaimSteps
    <3>2. UNCHANGED srv /\ claims' \in {claims, claims \ {j}} /\ (claims' # claims => claiming[j] \in {"claimed", "dead"})
      BY <2>6 DEF ClaimLands, Forgets
    <3>3. srv.owner[j] = "anon" => claims' = claims
      BY <1>0, <3>2 DEF Tokens
    <3>4. Tokens'
      BY <1>0, <2>1, <3>1, <3>2, <3>3 DEF Tokens, ClaimIsKept
    <3> QED
      BY <2>3, <3>4 DEF SessionIInv
  <2> QED
    BY <1>3, <2>4, <2>5, <2>6
<1> QED
  BY <1>1, <1>2, <1>3

LEMMA ServerKeeps ==
  ASSUME SessionIInv,
         \/ \E j \in Mine : AnonymousList(j) \/ MakeJob(j) \/ Expire(j)
         \/ EndSession \/ Approve
  PROVE  SessionIInv'
<1>0. Tokens /\ Documents /\ Together /\ srv \in Server /\ claims \subseteq Mine /\ claiming \in [Mine -> ClaimSteps]
  BY DEF SessionIInv, Tokens
<1>1. UNCHANGED <<doc, me, dlg, login, claiming>>
  BY DEF AnonymousList, MakeJob, Expire, EndSession, Approve
<1>2. Documents' /\ Together'
  BY <1>0, <1>1 DEF Documents, Together, JobPageIsIsolated, Busy, NoClaims
<1>3. ASSUME NEW j \in Mine, AnonymousList(j) PROVE Tokens'
  BY <1>0, <1>1, <1>3 DEF AnonymousList, Tokens, ClaimIsKept
<1>4. ASSUME NEW j \in Mine, MakeJob(j) PROVE Tokens'
  <2>1. /\ srv' \in Server /\ \A k \in Mine \ {j} : srv'.owner[k] = srv.owner[k]
        /\ srv'.owner[j] = IF srv.session THEN "me" ELSE "anon"
        /\ claims' = IF srv.session THEN claims ELSE claims \cup {j}
        /\ srv.owner[j] = "nobody"
    BY <1>0, <1>4 DEF MakeJob, Server
  <2>2. claiming[j] = "none" /\ claims' \subseteq Mine
    BY <1>0, <2>1 DEF Tokens
  <2> QED
    BY <1>0, <1>1, <2>1, <2>2 DEF Tokens, ClaimIsKept
<1>5. ASSUME NEW j \in Mine, Expire(j) PROVE Tokens'
  <2>1. /\ srv' \in Server /\ \A k \in Mine \ {j} : srv'.owner[k] = srv.owner[k]
        /\ srv'.owner[j] = "gone" /\ claims' = claims
    BY <1>0, <1>5 DEF Expire, Server
  <2> QED
    BY <1>0, <1>1, <2>1 DEF Tokens, ClaimIsKept
<1>6. CASE EndSession \/ Approve
  <2>1. srv' \in Server /\ srv'.owner = srv.owner /\ claims' = claims
    BY <1>0, <1>6 DEF EndSession, Approve, Server
  <2>2. Tokens'
    BY <1>0, <1>1, <2>1 DEF Tokens, ClaimIsKept
  <2> QED
    BY <1>2, <2>2 DEF SessionIInv
<1> QED
  BY <1>2, <1>3, <1>4, <1>5, <1>6 DEF SessionIInv

LEMMA SessionKeeps ==
  ASSUME SessionIInv, SessionNext \/ UNCHANGED sessionVars
  PROVE  SessionIInv'
<1>1. CASE UNCHANGED sessionVars
  BY <1>1 DEF sessionVars, SessionIInv, Tokens, Documents, Together, ClaimIsKept, JobPageIsIsolated, Busy, NoClaims
<1>2. CASE SessionNext
  BY <1>2, DocumentKeeps, OpeningKeeps, DialogKeeps, AnswerKeeps, ClaimsKeep, ServerKeeps DEF SessionNext
<1> QED
  BY <1>1, <1>2

-----------------------------------------------------------------------------
(* The profile                                                             *)

\* What is shown is what is stored, until a save is made; then it is what was
\* typed, which cannot change any more.
ProfileIInv ==
  /\ DOMAIN wire = {"fetch", "save", "missed"} /\ wire.missed \in BOOLEAN
  /\ DOMAIN draft = {"editing", "typed", "error"}
  /\ wire.save # "saved" /\ ~wire.missed => shows = [profile |-> stored, user |-> stored]
  /\ wire.save = "saved" => stored = draft.typed
  /\ wire.save # "none" => draft.editing
  /\ DOMAIN shows = {"profile", "user"}

LEMMA ProfileStarts ==
  ASSUME PagesInit
  PROVE  ProfileIInv
BY DEF PagesInit, ProfileInit, ProfileIInv

LEMMA ProfileKeeps ==
  ASSUME ProfileIInv, ProfileNext \/ UNCHANGED profileVars
  PROVE  ProfileIInv'
<1>1. CASE UNCHANGED profileVars
  BY <1>1 DEF profileVars, ProfileIInv
<1>2. CASE ProfileServed
  BY <1>2 DEF ProfileServed, ProfileIInv
<1>3. CASE ProfileLands
  <2>1. /\ DOMAIN wire' = {"fetch", "save", "missed"} /\ wire'.save = wire.save
        /\ wire'.missed = (wire.missed \/ wire.fetch # stored)
        /\ shows' = [shows EXCEPT !.profile = wire.fetch] /\ UNCHANGED <<stored, draft>>
    BY <1>3 DEF ProfileLands, ProfileIInv
  <2>2. DOMAIN shows' = {"profile", "user"}
    BY <2>1 DEF ProfileIInv
  <2>3. ASSUME wire.save # "saved", ~wire'.missed PROVE shows' = [profile |-> stored, user |-> stored]
    <3>1. shows = [profile |-> stored, user |-> stored] /\ wire.fetch = stored
      BY <2>1, <2>3 DEF ProfileIInv
    <3>2. [shows EXCEPT !.profile = stored] = shows
      BY <3>1
    <3> QED
      BY <2>1, <3>1, <3>2
  <2> QED
    BY <2>1, <2>2, <2>3 DEF ProfileIInv
<1>4. CASE StartEdit
  BY <1>4 DEF StartEdit, ProfileIInv
<1>5. CASE CancelEdit
  BY <1>5 DEF CancelEdit, ProfileIInv
<1>6. CASE SubmitProfile
  BY <1>6 DEF SubmitProfile, ProfileIInv
<1>7. CASE SaveServed
  BY <1>7 DEF SaveServed, ProfileIInv
<1>8. CASE SaveLost
  BY <1>8 DEF SaveLost, ProfileIInv
<1>9. CASE SaveLands
  BY <1>9 DEF SaveLands, SavedAs, ProfileIInv
<1>10. ASSUME NEW n, TypeName(n) PROVE ProfileIInv'
  BY <1>10 DEF TypeName, ProfileIInv
<1> QED
  BY <1>1, <1>2, <1>3, <1>4, <1>5, <1>6, <1>7, <1>8, <1>9, <1>10 DEF ProfileNext

-----------------------------------------------------------------------------
(* The table of the users                                                  *)

TableFields == {"rows", "known", "fetch", "read", "error", "old"}

\* A list that is not known to be out of date is right but for the row whose
\* change is under way; of the rival's changes only this account hears.
RowIsRight(rows, u) ==
  \/ calls.mine.phase # "none" /\ u = calls.mine.user
  \/ rows[u] = users[u]
TableIInv ==
  /\ calls.rival.user = Me
  /\ DOMAIN table = {"all", "some"} /\ \A k \in DOMAIN table : DOMAIN table[k] = TableFields
  /\ \A k \in DOMAIN table : ~table[k].old => \A u \in DOMAIN table[k].rows \ {Me} : RowIsRight(table[k].rows, u)

LEMMA TableStarts ==
  ASSUME PagesInit
  PROVE  TableIInv
<1>1. AdminInit
  BY DEF PagesInit
<1>2. calls.rival = NoCall /\ NoCall.user = Me
  BY <1>1 DEF AdminInit, NoCall
<1>3. PICK t : t = NoTable
  OBVIOUS
<1>4. DOMAIN t = TableFields /\ t.rows = <<>>
  BY <1>3 DEF NoTable, TableFields
<1>5. table = [k \in {"all", "some"} |-> IF k = "all" THEN [t EXCEPT !.fetch = "sent"] ELSE t]
  BY <1>1, <1>3 DEF AdminInit, Searches
<1>6. \A k \in {"all", "some"} : DOMAIN table[k] = TableFields /\ table[k].rows = <<>>
  BY <1>4, <1>5 DEF TableFields
<1> QED
  BY <1>2, <1>5, <1>6 DEF TableIInv

\* Where no row and no account changes, the table stays right.
LEMMA RowsStay ==
  ASSUME AdminIInv, TableIInv, UNCHANGED users,
         DOMAIN table' = DOMAIN table, calls'.rival.user = calls.rival.user,
         \A k \in DOMAIN table : /\ DOMAIN table'[k] = TableFields /\ table'[k].rows = table[k].rows
                                 /\ table'[k].old = table[k].old,
         calls.mine.phase # "none" => calls'.mine.phase # "none" /\ calls'.mine.user = calls.mine.user
  PROVE  TableIInv'
BY DEF TableIInv, RowIsRight

LEMMA ServerKeepsTable ==
  ASSUME AdminIInv, TableIInv, NEW who \in Callers,
         Authorize(who) \/ CountAdmins(who) \/ Commit(who) \/ Rivals
  PROVE  TableIInv'
<1>0. calls \in [mine : Call, rival : Call] /\ users \in [Users -> Account] /\ UNCHANGED table
  BY DEF AdminIInv, AdminTypes, Authorize, CountAdmins, Commit, Rivals
<1>1. ASSUME NEW p \in Phases \ {"none"}, calls' = [calls EXCEPT ![who].phase = p]
      PROVE  /\ calls'.rival.user = calls.rival.user
             /\ calls.mine.phase # "none" => calls'.mine.phase # "none" /\ calls'.mine.user = calls.mine.user
             /\ calls'.mine.user = calls.mine.user
             /\ who = "mine" => calls'.mine.phase # "none"
  BY <1>0, <1>1 DEF Call, Callers
<1>2. CASE Authorize(who)
  <2>1. PICK p \in {"allowed", "refused"} : calls' = [calls EXCEPT ![who].phase = p]
    BY <1>2 DEF Authorize
  <2>2. p \in Phases \ {"none"} /\ UNCHANGED users
    BY <1>2, <2>1 DEF Authorize, Phases
  <2> QED
    BY <1>0, <1>1, <2>1, <2>2, RowsStay DEF TableIInv
<1>3. CASE CountAdmins(who)
  <2>1. PICK p \in {"refused", "locked"} : calls' = [calls EXCEPT ![who].phase = p]
    BY <1>3 DEF CountAdmins
  <2>2. p \in Phases \ {"none"} /\ UNCHANGED users
    BY <1>3, <2>1 DEF CountAdmins, Phases
  <2> QED
    BY <1>0, <1>1, <2>1, <2>2, RowsStay DEF TableIInv
<1>4. CASE Commit(who)
  <2>1. PICK c : c = calls[who]
    OBVIOUS
  <2>2. /\ c \in Call /\ c.phase \in {"locked", "allowed"}
        /\ users' = [users EXCEPT ![c.user][c.change.set] = c.change.to]
        /\ calls' = [calls EXCEPT ![who].phase = "done"]
    BY <1>0, <1>4, <2>1 DEF Commit, Callers
  <2>3. \A u \in Users \ {c.user} : users'[u] = users[u]
    BY <1>0, <2>2
  <2>4. DOMAIN users = Users /\ DOMAIN users' = Users
    BY <1>0, <2>2
  <2>5. \A u : u # c.user => users'[u] = users[u]
    BY <1>0, <2>2, <2>4
  <2>6. "done" \in Phases \ {"none"}
    BY DEF Phases
  <2>7. /\ calls'.rival.user = calls.rival.user /\ calls'.mine.user = calls.mine.user
        /\ calls.mine.phase # "none" => calls'.mine.phase # "none"
        /\ who = "mine" => calls'.mine.phase # "none"
    BY <1>1, <2>2, <2>6
  <2>8. c.user = Me \/ (c.user = calls'.mine.user /\ calls'.mine.phase # "none")
    BY <1>0, <2>1, <2>7 DEF TableIInv, Callers
  <2> QED
    BY <1>0, <2>5, <2>7, <2>8 DEF TableIInv, RowIsRight
<1>5. CASE Rivals
  <2>1. PICK change : calls' = [calls EXCEPT !.rival = [user |-> Me, change |-> change, phase |-> "sent"]]
    BY <1>5 DEF Rivals
  <2>2. calls'.rival.user = Me /\ calls'.mine = calls.mine /\ UNCHANGED users
    BY <1>0, <1>5, <2>1 DEF Rivals
  <2> QED
    BY <1>0, <2>2, RowsStay DEF TableIInv
<1> QED
  BY <1>2, <1>3, <1>4, <1>5

\* A row that is patched, in every list that has it.
LEMMA PatchedRows ==
  ASSUME TableIInv, NEW u, NEW row_, NEW k \in DOMAIN table
  PROVE  /\ DOMAIN Patched(u, row_) = DOMAIN table
         /\ DOMAIN Patched(u, row_)[k] = TableFields
         /\ DOMAIN Patched(u, row_)[k].rows = DOMAIN table[k].rows
         /\ \A v \in DOMAIN table[k].rows : Patched(u, row_)[k].rows[v] = IF v = u THEN row_ ELSE table[k].rows[v]
         /\ Patched(u, row_)[k].old = table[k].old
<1>1. PICK t : t = table[k]
  OBVIOUS
<1>2. DOMAIN t = TableFields
  BY <1>1 DEF TableIInv
<1>3. PICK rows : rows = IF u \in DOMAIN t.rows THEN [t.rows EXCEPT ![u] = row_] ELSE t.rows
  OBVIOUS
<1>4. Patched(u, row_)[k] = [t EXCEPT !.rows = rows]
  BY <1>1, <1>3 DEF Patched
<1>5. DOMAIN rows = DOMAIN t.rows /\ \A v \in DOMAIN t.rows : rows[v] = IF v = u THEN row_ ELSE t.rows[v]
  BY <1>3
<1>6. DOMAIN Patched(u, row_) = DOMAIN table
  BY DEF Patched
<1>7. DOMAIN [t EXCEPT !.rows = rows] = TableFields /\ [t EXCEPT !.rows = rows].rows = rows /\ [t EXCEPT !.rows = rows].old = t.old
  BY <1>2 DEF TableFields
<1> QED
  BY <1>1, <1>4, <1>5, <1>6, <1>7

LEMMA FetchKeepsTable ==
  ASSUME AdminIInv, TableIInv,
         \/ FetchUsers \/ LoseUsers \/ UsersLand \/ TryUsersAgain
         \/ \E k \in DOMAIN Searches : Search(k)
  PROVE  TableIInv'
<1>0. /\ DOMAIN table = {"all", "some"} /\ DOMAIN Searches = {"all", "some"}
      /\ \A k \in DOMAIN table : DOMAIN table[k] = TableFields
  BY DEF TableIInv, Searches
<1>1. UNCHANGED <<users, calls>>
  BY DEF FetchUsers, LoseUsers, UsersLand, TryUsersAgain, Search
<1>2. ASSUME DOMAIN table' = DOMAIN table,
             \A k \in DOMAIN table : /\ DOMAIN table'[k] = TableFields /\ table'[k].rows = table[k].rows
                                     /\ table'[k].old = table[k].old
      PROVE  TableIInv'
  BY <1>1, <1>2, RowsStay
<1>3. CASE FetchUsers
  <2>1. PICK k \in DOMAIN Searches : \E f, r : table' = [table EXCEPT ![k].fetch = f, ![k].read = r]
    BY <1>3 DEF FetchUsers
  <2> QED
    BY <1>0, <1>2, <2>1 DEF TableFields
<1>4. CASE LoseUsers
  <2>1. PICK k \in DOMAIN Searches : table' = [table EXCEPT ![k].fetch = "failed", ![k].read = <<>>]
    BY <1>4 DEF LoseUsers
  <2> QED
    BY <1>0, <1>2, <2>1 DEF TableFields
<1>5. CASE TryUsersAgain
  <2>1. PICK q, e : table' = [table EXCEPT ![q].fetch = "sent", ![q].error = e]
    BY <1>5 DEF TryUsersAgain
  <2> QED
    BY <1>0, <1>2, <2>1 DEF TableFields
<1>6. ASSUME NEW k \in DOMAIN Searches, Search(k) PROVE TableIInv'
  <2>1. table' = [table EXCEPT ![k].fetch = IF table[k].fetch = "none" THEN "sent" ELSE table[k].fetch]
    BY <1>0, <1>6 DEF Search, TableFields
  <2>2. PICK f : f = IF table[k].fetch = "none" THEN "sent" ELSE table[k].fetch
    OBVIOUS
  <2>3. table' = [table EXCEPT ![k].fetch = f]
    BY <2>1, <2>2
  <2> QED
    BY <1>0, <1>2, <2>3 DEF TableFields
<1>7. CASE UsersLand
  <2>0. PICK k \in DOMAIN table : \E new :
          /\ table' = [table EXCEPT ![k] = new]
          /\ new = IF table[k].fetch = "failed" THEN [table[k] EXCEPT !.fetch = "none", !.error = TRUE]
                   ELSE [NoTable EXCEPT !.rows = table[k].read, !.known = TRUE, !.old = Differs(table[k].read)]
    BY <1>0, <1>7 DEF UsersLand
  <2>1. PICK new :
          /\ table' = [table EXCEPT ![k] = new]
          /\ new = IF table[k].fetch = "failed" THEN [table[k] EXCEPT !.fetch = "none", !.error = TRUE]
                   ELSE [NoTable EXCEPT !.rows = table[k].read, !.known = TRUE, !.old = Differs(table[k].read)]
    BY <2>0
  <2>2. DOMAIN table' = DOMAIN table /\ table'[k] = new /\ \A l \in DOMAIN table : l # k => table'[l] = table[l]
    BY <2>1
  <2>3. CASE table[k].fetch = "failed"
    <3>1. DOMAIN new = TableFields /\ new.rows = table[k].rows /\ new.old = table[k].old
      BY <1>0, <2>1, <2>3 DEF TableFields
    <3> QED
      BY <1>0, <1>2, <2>2, <3>1
  <2>4. CASE table[k].fetch # "failed"
    <3>1. PICK t : t = NoTable
      OBVIOUS
    <3>2. DOMAIN t = TableFields
      BY <3>1 DEF NoTable, TableFields
    <3>3. PICK d \in BOOLEAN : d = Differs(table[k].read)
      BY DEF Differs
    <3>4. new = [t EXCEPT !.rows = table[k].read, !.known = TRUE, !.old = d]
      BY <2>1, <2>4, <3>1, <3>3
    <3>5. DOMAIN new = TableFields /\ new.rows = table[k].read /\ new.old = d
      BY <3>2, <3>4 DEF TableFields
    <3>6. ~new.old => \A u \in DOMAIN new.rows \ {Me} : new.rows[u] = users[u]
      BY <3>3, <3>5 DEF Differs
    <3>7. \A l \in DOMAIN table : ~table'[l].old => \A u \in DOMAIN table'[l].rows \ {Me} : RowIsRight(table'[l].rows, u)
      BY <2>2, <3>6 DEF TableIInv, RowIsRight
    <3> QED
      BY <1>0, <1>1, <2>2, <3>5, <3>7 DEF TableIInv, RowIsRight
  <2> QED
    BY <2>3, <2>4
<1> QED
  BY <1>3, <1>4, <1>5, <1>6, <1>7

\* A change that the page sends is patched into every list.
LEMMA MutateKeepsTable ==
  ASSUME AdminIInv, TableIInv, NEW u, NEW change, NEW seen,
         calls.mine.phase = "none", Mutate(u, change, seen)
  PROVE  TableIInv'
<1>1. PICK r : table' = Patched(u, r)
  BY DEF Mutate
<1>2. /\ calls'.rival = calls.rival /\ calls'.mine.phase = "sent" /\ calls'.mine.user = u /\ UNCHANGED users
  <2>1. DOMAIN calls = {"mine", "rival"}
    BY DEF AdminIInv, AdminTypes
  <2> QED
    BY <2>1 DEF Mutate
<1>3. \A k \in DOMAIN table : ~table[k].old => \A v \in DOMAIN table[k].rows \ {Me} : table[k].rows[v] = users[v]
  BY DEF TableIInv, RowIsRight
<1>4. DOMAIN table' = DOMAIN table
  BY <1>1 DEF Patched
<1>5. ASSUME NEW k \in DOMAIN table PROVE
        /\ DOMAIN table'[k] = TableFields
        /\ ~table'[k].old => \A v \in DOMAIN table'[k].rows \ {Me} : RowIsRight(table[k].rows, v)'
  <2>1. /\ DOMAIN table'[k] = TableFields /\ DOMAIN table'[k].rows = DOMAIN table[k].rows
        /\ table'[k].old = table[k].old
        /\ \A v \in DOMAIN table[k].rows : table'[k].rows[v] = IF v = u THEN r ELSE table[k].rows[v]
    BY <1>1, PatchedRows
  <2> QED
    BY <1>2, <1>3, <2>1 DEF RowIsRight
<1> QED
  BY <1>2, <1>4, <1>5 DEF TableIInv

LEMMA ChangeKeepsTable ==
  ASSUME AdminIInv, TableIInv,
         \/ \E f \in {"all", "active", "pending", "admins"}, u \in Users : ApproveUser(f, u) \/ AskChange(f, u)
         \/ DeclineChange \/ ConfirmChange \/ LoseChange \/ ChangeLands
  PROVE  TableIInv'
<1>0. calls \in [mine : Call, rival : Call] /\ \A k \in DOMAIN table : DOMAIN table[k] = TableFields
  BY DEF AdminIInv, AdminTypes, TableIInv
<1>1. ASSUME UNCHANGED <<users, calls, table>> PROVE TableIInv'
  BY <1>1 DEF TableIInv, RowIsRight
<1>2. ASSUME NEW f, NEW u \in Users, ApproveUser(f, u) PROVE TableIInv'
  BY <1>2, MutateKeepsTable DEF ApproveUser
<1>3. ASSUME NEW f, NEW u \in Users, AskChange(f, u) PROVE TableIInv'
  BY <1>1, <1>3 DEF AskChange
<1>4. CASE DeclineChange
  BY <1>1, <1>4 DEF DeclineChange
<1>5. CASE ConfirmChange
  BY <1>5, MutateKeepsTable DEF ConfirmChange
<1>6. CASE LoseChange
  <2>1. calls' = [calls EXCEPT !.mine.phase = "refused"] /\ UNCHANGED <<users, table>>
    BY <1>6 DEF LoseChange
  <2>2. calls'.rival.user = calls.rival.user /\ calls'.mine.phase = "refused" /\ calls'.mine.user = calls.mine.user
    BY <1>0, <2>1 DEF Call
  <2> QED
    BY <1>0, <2>1, <2>2, RowsStay
<1>7. CASE ChangeLands
  <2>1. PICK c, r : c = calls.mine /\ r = RowAfter(c)
    OBVIOUS
  <2>2. /\ UNCHANGED users /\ calls' = [calls EXCEPT !.mine = NoCall] /\ c.phase \in {"done", "refused"}
        /\ table' = [k \in DOMAIN table |->
             [Patched(c.user, r)[k] EXCEPT !.old = @ \/ (c.phase = "refused" /\ desk.captured # users[c.user])]]
    BY <1>7, <2>1 DEF ChangeLands
  <2>3. calls'.rival = calls.rival /\ DOMAIN table' = DOMAIN table
    BY <1>0, <2>2
  <2>4. r = users[c.user] \/ (c.phase = "refused" /\ desk.captured # users[c.user])
    BY <2>1 DEF RowAfter
  <2>5. ASSUME NEW k \in DOMAIN table PROVE
          /\ DOMAIN table'[k] = TableFields
          /\ ~table'[k].old => \A v \in DOMAIN table'[k].rows \ {Me} : table'[k].rows[v] = users[v]
    <3>1. PICK t : t = Patched(c.user, r)[k]
      OBVIOUS
    <3>2. /\ DOMAIN t = TableFields /\ DOMAIN t.rows = DOMAIN table[k].rows
          /\ t.old = table[k].old
          /\ \A v \in DOMAIN table[k].rows : t.rows[v] = IF v = c.user THEN r ELSE table[k].rows[v]
      BY <3>1, PatchedRows
    <3>3. table'[k] = [t EXCEPT !.old = @ \/ (c.phase = "refused" /\ desk.captured # users[c.user])]
      BY <2>2, <3>1
    <3>4. /\ DOMAIN table'[k] = TableFields /\ table'[k].rows = t.rows
          /\ table'[k].old = (t.old \/ (c.phase = "refused" /\ desk.captured # users[c.user]))
      BY <3>2, <3>3 DEF TableFields
    <3>5. ~table'[k].old => r = users[c.user] /\ ~table[k].old
      BY <2>4, <3>2, <3>4
    <3>6. ~table[k].old => \A v \in DOMAIN table[k].rows \ {Me} : v = c.user \/ table[k].rows[v] = users[v]
      BY <2>1 DEF TableIInv, RowIsRight
    <3> QED
      BY <3>2, <3>4, <3>5, <3>6
  <2>6. calls'.rival.user = Me /\ DOMAIN table' = {"all", "some"}
    BY <2>3 DEF TableIInv
  <2>7. \A k \in DOMAIN table' : DOMAIN table'[k] = TableFields
    BY <2>3, <2>5
  <2>8. \A k \in DOMAIN table' : ~table'[k].old => \A v \in DOMAIN table'[k].rows \ {Me} : RowIsRight(table[k].rows, v)'
    BY <2>2, <2>3, <2>5 DEF RowIsRight
  <2> QED
    BY <2>6, <2>7, <2>8 DEF TableIInv
<1> QED
  BY <1>2, <1>3, <1>4, <1>5, <1>6, <1>7

LEMMA TableKeeps ==
  ASSUME AdminIInv, TableIInv, AdminNext \/ UNCHANGED adminVars
  PROVE  TableIInv'
<1>1. CASE UNCHANGED adminVars
  BY <1>1 DEF adminVars, TableIInv, RowIsRight
<1>2. ASSUME NEW who \in Callers, Authorize(who) \/ CountAdmins(who) \/ Commit(who) \/ Rivals PROVE TableIInv'
  BY <1>2, ServerKeepsTable
<1>3. CASE \E who \in Callers : Authorize(who) \/ CountAdmins(who) \/ Commit(who)
  BY <1>2, <1>3
<1>4. CASE Rivals
  BY <1>2, <1>4 DEF Callers
<1>5. AdminNext => \/ \E who \in Callers : Authorize(who) \/ CountAdmins(who) \/ Commit(who)
                   \/ Rivals \/ FetchUsers \/ LoseUsers \/ UsersLand \/ TryUsersAgain
                   \/ \E k \in DOMAIN Searches : Search(k)
                   \/ \E f \in {"all", "active", "pending", "admins"}, u \in Users : ApproveUser(f, u) \/ AskChange(f, u)
                   \/ DeclineChange \/ ConfirmChange \/ LoseChange \/ ChangeLands
  BY DEF AdminNext, Callers
<1> QED
  BY <1>1, <1>3, <1>4, <1>5, FetchKeepsTable, ChangeKeepsTable

LEMMA TableIsRight ==
  ASSUME TableIInv
  PROVE  TableIsTrue
BY DEF TableIInv, RowIsRight, TableIsTrue, Differs

-----------------------------------------------------------------------------
(* The list of jobs                                                        *)

Actions == {"cancel", "delete"}
ListShape ==
  /\ have \in [Jobs -> {"active", "completed", "cancelled", "gone"}]
  /\ DOMAIN find = {"typed", "quiet", "url", "moves"} /\ DOMAIN find.url = {"status", "q", "page"}
  /\ DOMAIN list = {"rows", "had", "own", "error", "fetch"} /\ DOMAIN list.fetch = {"state", "rows"}
  /\ list.error \in BOOLEAN /\ list.own \in BOOLEAN
ActsShape ==
  /\ DOMAIN acts = {"dialog", "job", "cancel", "delete", "gone", "unsure"}
  /\ acts.dialog \in {"none"} \cup Actions /\ (acts.dialog # "none" => acts.job \in Jobs)
  /\ \A what \in Actions : DOMAIN acts[what] = {"job", "answer"} /\ acts[what].job \in Jobs \cup {0}
  /\ acts.gone \subseteq Jobs

\* Rows that were read say what the server says or that the job is at work, but
\* for a job whose deletion was answered and has not been heard of.
Accounted(rows) ==
  \A j \in DOMAIN rows.items \ acts.unsure :
    \/ rows.items[j] \in {have[j], "active"}
    \/ acts.delete.job = j /\ acts.delete.answer = "done"
Sound(rows) == DOMAIN rows.items \subseteq Jobs /\ Accounted(rows) /\ DOMAIN rows.items \cap acts.gone = {}

ActsI ==
  /\ \A j \in acts.gone : have[j] = "gone"
  /\ acts.delete.answer = "done" => have[acts.delete.job] = "gone"
  /\ \A what \in Actions : acts[what].job = 0 => acts[what] = NoAct
RowsI ==
  /\ list.fetch.state = "back" => Sound(list.fetch.rows)
  /\ list.fetch.state = "none" => list.error \/ (list.own /\ Sound(list.rows))
ListIInv == ListShape /\ ActsShape /\ ActsI /\ RowsI /\ find.url.q = find.quiet

LEMMA ListIsRight ==
  ASSUME ListIInv
  PROVE  DeletedStaysGone /\ ListIsTrue
<1>1. ListShape /\ RowsI /\ find.url.q = find.quiet
  BY DEF ListIInv
<1>2. ASSUME list.fetch.state = "none", Shown = "rows" PROVE RowIds \cap acts.gone = {}
  <2>1. ~list.error
    BY <1>2 DEF Shown
  <2> QED
    BY <1>1, <1>2, <2>1 DEF RowsI, Sound, RowIds
<1>3. ASSUME ListAtRest, ~list.error PROVE list.own /\ \A j \in RowIds \ acts.unsure : RowStatus(j) = have[j]
  <2>1. list.own /\ Accounted(list.rows)
    BY <1>1, <1>3 DEF ListAtRest, RowsI, Sound
  <2>2. acts.delete.answer # "done"
    BY <1>3 DEF ListAtRest, NoAct
  <2>3. \A j \in RowIds : RowStatus(j) # "active"
    BY <1>3, <2>1 DEF ListAtRest
  <2> QED
    BY <2>1, <2>2, <2>3 DEF Accounted, RowIds, RowStatus
<1> QED
  BY <1>1, <1>2, <1>3 DEF DeletedStaysGone, ListIsTrue, ListAtRest

LEMMA AskedFetch == DOMAIN Asked = {"state", "rows"} /\ Asked.state = "sent" /\ DOMAIN Idle = {"state", "rows"} /\ Idle.state = "none"
<1>1. PICK i : i = Idle
  OBVIOUS
<1>2. DOMAIN i = {"state", "rows"} /\ i.state = "none"
  BY <1>1 DEF Idle
<1>3. Asked = [i EXCEPT !.state = "sent"]
  BY <1>1 DEF Asked
<1> QED
  BY <1>1, <1>2, <1>3

LEMMA ListStarts ==
  ASSUME PagesInit
  PROVE  ListIInv
<1>1. ListInit
  BY DEF PagesInit
<1>2. list.fetch = Asked /\ ListShape
  BY <1>1, AskedFetch DEF ListInit, ListShape
<1>3. DOMAIN NoAct = {"job", "answer"} /\ NoAct.job = 0 /\ NoAct.answer = "none"
  BY DEF NoAct
<1>4. acts.cancel = NoAct /\ acts.delete = NoAct /\ acts.gone = {} /\ acts.dialog = "none"
  BY <1>1 DEF ListInit
<1>5. ActsShape
  BY <1>1, <1>3, <1>4 DEF ListInit, ActsShape, Actions
<1>6. ActsI
  BY <1>3, <1>4 DEF ActsI, Actions
<1>7. RowsI
  BY <1>2, AskedFetch DEF RowsI
<1>8. find.url.q = find.quiet
  BY <1>1 DEF ListInit
<1> QED
  BY <1>2, <1>5, <1>6, <1>7, <1>8 DEF ListIInv

\* The steps of the query.
LEMMA ListedIsSound ==
  ASSUME ListIInv
  PROVE  Sound(Listed)
<1> DEFINE found == {j \in Jobs : /\ have[j] # "gone" /\ (find.url.status = "all" \/ have[j] = find.url.status)
                                 /\ (find.quiet = "" \/ j \in Matching)}
           rank(j) == Cardinality({k \in found : k >= j})
           last == find.url.page * PageSize
           page == {k \in found : rank(k) > last - PageSize /\ rank(k) <= last}
<1>1. Listed = [items |-> [j \in page |-> have[j]], total |-> Cardinality(found)]
  BY DEF Listed
<1>2. page \subseteq found
  OBVIOUS
<1>3. found \subseteq Jobs /\ \A j \in found : have[j] # "gone"
  OBVIOUS
<1> HIDE DEF page, found
<1>4. Listed.items = [j \in page |-> have[j]]
  BY <1>1
<1>5. DOMAIN Listed.items = page /\ \A j \in page : Listed.items[j] = have[j]
  BY <1>4
<1>6. \A j \in acts.gone : have[j] = "gone"
  BY DEF ListIInv, ActsI
<1>7. Accounted(Listed)
  BY <1>5 DEF Accounted
<1> QED
  BY <1>2, <1>3, <1>5, <1>6, <1>7 DEF Sound

LEMMA QueryMoves ==
  ASSUME ListIInv, UNCHANGED <<have, find, acts>>,
         DOMAIN list' = {"rows", "had", "own", "error", "fetch"}, DOMAIN list'.fetch = {"state", "rows"},
         list'.error \in BOOLEAN, list'.own \in BOOLEAN,
         list'.fetch.state = "back" => Sound(list'.fetch.rows),
         list'.fetch.state = "none" => list'.error \/ (list'.own /\ Sound(list'.rows))
  PROVE  ListIInv'
<1>1. ListShape' /\ ActsShape' /\ ActsI'
  BY DEF ListIInv, ListShape, ActsShape, ActsI
<1>2. RowsI'
  BY DEF RowsI, Sound, Accounted
<1> QED
  BY <1>1, <1>2 DEF ListIInv

LEMMA QueryKeeps ==
  ASSUME ListIInv, ListServed \/ ListLands \/ ListFails \/ Poll \/ RetryList
  PROVE  ListIInv'
<1>0. /\ DOMAIN list = {"rows", "had", "own", "error", "fetch"} /\ DOMAIN list.fetch = {"state", "rows"}
      /\ list.error \in BOOLEAN /\ list.own \in BOOLEAN /\ RowsI
  BY DEF ListIInv, ListShape
<1>1. UNCHANGED <<have, find, acts>>
  BY DEF ListServed, ListLands, ListFails, Poll, RetryList
<1>2. CASE ListServed
  <2>1. PICK r : r = Listed
    OBVIOUS
  <2>2. list' = [list EXCEPT !.fetch = [state |-> "back", rows |-> r]]
    BY <1>2, <2>1 DEF ListServed
  <2>3. /\ DOMAIN list' = {"rows", "had", "own", "error", "fetch"} /\ DOMAIN list'.fetch = {"state", "rows"}
        /\ list'.fetch.state = "back" /\ list'.fetch.rows = r /\ list'.error = list.error /\ list'.own = list.own
    BY <1>0, <2>2
  <2>4. Sound(list'.fetch.rows)
    BY <2>1, <2>3, ListedIsSound
  <2> QED
    BY <1>0, <1>1, <2>3, <2>4, QueryMoves
<1>3. CASE ListLands
  <2>1. list' = [rows |-> list.fetch.rows, had |-> TRUE, own |-> TRUE, error |-> FALSE, fetch |-> Idle]
    BY <1>3 DEF ListLands
  <2>2. /\ DOMAIN list' = {"rows", "had", "own", "error", "fetch"}
        /\ list'.fetch = Idle /\ list'.rows = list.fetch.rows /\ list'.error = FALSE /\ list'.own = TRUE
    BY <2>1
  <2>3. Sound(list'.rows)
    BY <1>0, <1>3, <2>2 DEF ListLands, RowsI
  <2> QED
    BY <1>1, <2>2, <2>3, AskedFetch, QueryMoves
<1>4. CASE ListFails
  <2>1. /\ DOMAIN list' = {"rows", "had", "own", "error", "fetch"}
        /\ list'.fetch = Idle /\ list'.error = TRUE /\ list'.own = list.own
    BY <1>0, <1>4 DEF ListFails
  <2> QED
    BY <1>0, <1>1, <2>1, AskedFetch, QueryMoves
<1>5. CASE Poll \/ RetryList
  <2>1. /\ DOMAIN list' = {"rows", "had", "own", "error", "fetch"}
        /\ list'.fetch = Asked /\ list'.error \in BOOLEAN /\ list'.own = list.own
    BY <1>0, <1>5 DEF Poll, RetryList
  <2> QED
    BY <1>0, <1>1, <2>1, AskedFetch, QueryMoves
<1> QED
  BY <1>2, <1>3, <1>4, <1>5

\* The steps of the search.
LEMMA WentKeeps ==
  ASSUME ListIInv, NEW f, Went(f),
         DOMAIN f = {"typed", "quiet", "url", "moves"}, DOMAIN f.url = {"status", "q", "page"}
  PROVE  ListIInv'
<1>0. /\ DOMAIN list = {"rows", "had", "own", "error", "fetch"} /\ DOMAIN list.fetch = {"state", "rows"}
      /\ list.error \in BOOLEAN /\ list.own \in BOOLEAN /\ RowsI
  BY DEF ListIInv, ListShape
<1>1. UNCHANGED <<have, acts>> /\ find' = Reflected(f)
  BY DEF Went
<1>2. /\ DOMAIN find' = {"typed", "quiet", "url", "moves"} /\ DOMAIN find'.url = {"status", "q", "page"}
      /\ find'.url.q = find'.quiet
  <2>1. CASE f.url.q = f.quiet
    BY <1>1, <2>1 DEF Reflected
  <2>2. CASE f.url.q # f.quiet
    <3>1. find' = [f EXCEPT !.url.q = f.quiet, !.url.page = 1]
      BY <1>1, <2>2 DEF Reflected
    <3> QED
      BY <3>1
  <2> QED
    BY <2>1, <2>2
<1>3. ActsShape' /\ ActsI'
  BY <1>1 DEF ListIInv, ActsShape, ActsI
<1>4. CASE list' = list
  <2>1. ListShape' /\ RowsI'
    BY <1>1, <1>2, <1>4 DEF ListIInv, ListShape, RowsI, Sound, Accounted
  <2> QED
    BY <1>2, <1>3, <2>1 DEF ListIInv
<1>5. CASE list' = [list EXCEPT !.own = FALSE, !.error = FALSE, !.fetch = Asked]
  <2>1. /\ DOMAIN list' = {"rows", "had", "own", "error", "fetch"}
        /\ list'.fetch = Asked /\ list'.error = FALSE /\ list'.own = FALSE
    BY <1>0, <1>5
  <2>2. ListShape'
    BY <1>1, <1>2, <2>1, AskedFetch DEF ListIInv, ListShape
  <2>3. RowsI'
    BY <2>1, AskedFetch DEF RowsI
  <2> QED
    BY <1>2, <1>3, <2>2, <2>3 DEF ListIInv
<1> QED
  BY <1>4, <1>5 DEF Went

LEMMA SearchKeeps ==
  ASSUME ListIInv,
         \/ Debounced \/ \E word \in {"", "x"} : Type(word)
         \/ \E status \in {"all", "active", "completed"} : Filter(status)
         \/ ClearFilters \/ \E page \in 1..Cardinality(Jobs) : TurnPage(page)
  PROVE  ListIInv'
<1>0. DOMAIN find = {"typed", "quiet", "url", "moves"} /\ DOMAIN find.url = {"status", "q", "page"}
  BY DEF ListIInv, ListShape
<1>1. ASSUME NEW f, Move(f), DOMAIN f = {"typed", "quiet", "url", "moves"}, DOMAIN f.url = {"status", "q", "page"}
      PROVE  ListIInv'
  <2>1. PICK g : g = [f EXCEPT !.moves = @ + 1]
    OBVIOUS
  <2>2. DOMAIN g = {"typed", "quiet", "url", "moves"} /\ g.url = f.url
    BY <1>1, <2>1
  <2>3. Went(g)
    BY <1>1, <2>1 DEF Move
  <2> QED
    BY <1>1, <2>2, <2>3, WentKeeps
<1>2. CASE Debounced
  <2>1. PICK f : f = [find EXCEPT !.quiet = find.typed]
    OBVIOUS
  <2>2. DOMAIN f = {"typed", "quiet", "url", "moves"} /\ f.url = find.url /\ Went(f)
    BY <1>0, <1>2, <2>1 DEF Debounced
  <2> QED
    BY <1>0, <2>2, WentKeeps
<1>3. ASSUME NEW word, Type(word) PROVE ListIInv'
  <2>1. PICK f : f = [find EXCEPT !.typed = word]
    OBVIOUS
  <2>2. DOMAIN f = {"typed", "quiet", "url", "moves"} /\ f.url = find.url /\ Move(f)
    BY <1>0, <1>3, <2>1 DEF Type
  <2> QED
    BY <1>0, <1>1, <2>2
<1>4. ASSUME NEW status, Filter(status) PROVE ListIInv'
  <2>1. PICK f : f = [find EXCEPT !.url.status = status, !.url.page = 1]
    OBVIOUS
  <2>2. Move(f)
    BY <1>4, <2>1 DEF Filter
  <2>3. DOMAIN f = {"typed", "quiet", "url", "moves"} /\ DOMAIN f.url = {"status", "q", "page"}
    BY <1>0, <2>1
  <2> QED
    BY <1>1, <2>2, <2>3
<1>5. CASE ClearFilters
  <2>1. PICK u : u = [status |-> "all", q |-> "", page |-> 1]
    OBVIOUS
  <2>2. PICK f : f = [find EXCEPT !.typed = "", !.url = u]
    OBVIOUS
  <2>3. Move(f)
    BY <1>5, <2>1, <2>2 DEF ClearFilters
  <2>4. DOMAIN f = {"typed", "quiet", "url", "moves"} /\ DOMAIN f.url = {"status", "q", "page"}
    BY <1>0, <2>1, <2>2
  <2> QED
    BY <1>1, <2>3, <2>4
<1>6. ASSUME NEW page, TurnPage(page) PROVE ListIInv'
  <2>1. PICK f : f = [find EXCEPT !.url.page = page]
    OBVIOUS
  <2>2. Move(f)
    BY <1>6, <2>1 DEF TurnPage
  <2>3. DOMAIN f = {"typed", "quiet", "url", "moves"} /\ DOMAIN f.url = {"status", "q", "page"}
    BY <1>0, <2>1
  <2> QED
    BY <1>1, <2>2, <2>3
<1> QED
  BY <1>2, <1>3, <1>4, <1>5, <1>6

\* The steps of a row's actions.
LEMMA RowKeeps ==
  ASSUME ListIInv,
         \/ \E what \in {"cancel", "delete"}, j \in Jobs : AskRow(what, j)
         \/ DeclineRow \/ ConfirmRow
  PROVE  ListIInv'
<1>0. ListShape /\ ActsShape /\ ActsI /\ RowsI /\ find.url.q = find.quiet
  BY DEF ListIInv
<1>1. UNCHANGED <<have, list>>
  BY DEF AskRow, DeclineRow, ConfirmRow
<1>2. ListShape' /\ find'.url.q = find'.quiet
  <2>1. find' = find \/ find' = [find EXCEPT !.moves = @ + 1]
    BY DEF AskRow, DeclineRow, ConfirmRow
  <2> QED
    BY <1>0, <1>1, <2>1 DEF ListShape
<1>3. ASSUME ActsShape', UNCHANGED <<acts.gone, acts.unsure, acts.cancel, acts.delete>> PROVE ListIInv'
  <2>1. \A what \in Actions : acts'[what] = acts[what]
    BY <1>3 DEF Actions
  <2>2. ActsI' /\ RowsI'
    BY <1>0, <1>1, <1>3, <2>1 DEF ActsI, RowsI, Sound, Accounted
  <2> QED
    BY <1>2, <1>3, <2>2 DEF ListIInv
<1>4. ASSUME NEW what \in {"cancel", "delete"}, NEW j \in Jobs, AskRow(what, j) PROVE ListIInv'
  <2>1. acts' = [acts EXCEPT !.dialog = what, !.job = j]
    BY <1>4 DEF AskRow
  <2>2. UNCHANGED <<acts.gone, acts.unsure, acts.cancel, acts.delete>> /\ ActsShape'
    BY <1>0, <2>1 DEF ActsShape, Actions
  <2> QED
    BY <1>3, <2>2
<1>5. CASE DeclineRow
  <2>1. acts' = [acts EXCEPT !.dialog = "none", !.job = 0]
    BY <1>5 DEF DeclineRow
  <2>2. UNCHANGED <<acts.gone, acts.unsure, acts.cancel, acts.delete>> /\ ActsShape'
    BY <1>0, <2>1 DEF ActsShape, Actions
  <2> QED
    BY <1>3, <2>2
<1>6. CASE ConfirmRow
  <2>1. PICK what \in Actions : what = acts.dialog
    BY <1>0, <1>6 DEF ConfirmRow, ActsShape
  <2>2. PICK n : n = NoAct
    OBVIOUS
  <2>3. DOMAIN n = {"job", "answer"} /\ n.answer = "none" /\ n = [job |-> 0, answer |-> "none"]
    BY <2>2 DEF NoAct
  <2>4. PICK a : a = [n EXCEPT !.job = acts.job]
    OBVIOUS
  <2>5. DOMAIN a = {"job", "answer"} /\ a.answer = "none" /\ a.job = acts.job /\ acts.job \in Jobs
    BY <1>0, <1>6, <2>3, <2>4 DEF ConfirmRow, ActsShape
  <2>6. acts' = [acts EXCEPT !.dialog = "none", !.job = 0, ![what] = a] /\ acts[what] = NoAct
    BY <1>0, <1>6, <2>1, <2>2, <2>4 DEF ConfirmRow, ActsI
  <2>7. /\ DOMAIN acts' = DOMAIN acts /\ acts'.dialog = "none" /\ acts'.gone = acts.gone /\ acts'.unsure = acts.unsure
        /\ acts'[what] = a /\ \A w \in Actions \ {what} : acts'[w] = acts[w]
    BY <1>0, <2>6 DEF ActsShape, Actions
  <2>8. ActsShape'
    BY <1>0, <2>5, <2>7 DEF ActsShape
  <2>9. a.job # 0
    BY <2>5, JobsListAssumption
  <2>10. ActsI'
    <3>1. acts'.delete = acts.delete \/ acts'.delete = a
      BY <2>7 DEF Actions
    <3> QED
      BY <1>0, <1>1, <2>5, <2>7, <2>9, <3>1 DEF ActsI
  <2>11. acts.delete.answer = "done" => acts'.delete = acts.delete
    BY <2>2, <2>3, <2>6, <2>7 DEF Actions
  <2>12. RowsI'
    BY <1>0, <1>1, <2>7, <2>11 DEF RowsI, Sound, Accounted
  <2> QED
    BY <1>2, <2>8, <2>10, <2>12 DEF ListIInv
<1> QED
  BY <1>4, <1>5, <1>6

\* What an answered change or a job that ends does to the rows that were read.
LEMMA ServerMoves ==
  ASSUME ListIInv, UNCHANGED <<find, list>>,
         have' \in [Jobs -> {"active", "completed", "cancelled", "gone"}], ActsShape', ActsI',
         acts'.gone = acts.gone, acts.unsure \subseteq acts'.unsure,
         acts.delete.answer = "done" /\ acts.delete.job \notin acts'.unsure => acts'.delete = acts.delete,
         \A j \in Jobs : \/ have'[j] = have[j] \/ have[j] = "active"
                         \/ acts'.delete.job = j /\ acts'.delete.answer = "done"
  PROVE  ListIInv'
<1>1. ASSUME NEW rows, rows' = rows, Sound(rows) PROVE Sound(rows)'
  <2>1. DOMAIN rows.items \subseteq Jobs /\ Accounted(rows) /\ DOMAIN rows.items \cap acts.gone = {}
    BY <1>1 DEF Sound
  <2>2. ASSUME NEW j \in DOMAIN rows.items \ acts'.unsure
        PROVE  \/ rows.items[j] \in {have'[j], "active"}
               \/ acts'.delete.job = j /\ acts'.delete.answer = "done"
    <3>1. j \in Jobs /\ j \in DOMAIN rows.items \ acts.unsure
      BY <2>1, <2>2
    <3>2. \/ rows.items[j] \in {have[j], "active"}
          \/ acts.delete.job = j /\ acts.delete.answer = "done"
      BY <2>1, <3>1 DEF Accounted
    <3> QED
      BY <2>2, <3>1, <3>2
  <2> QED
    BY <1>1, <2>1, <2>2 DEF Sound, Accounted
<1>2. RowsI /\ ListShape /\ find.url.q = find.quiet
  BY DEF ListIInv
<1>3. ListShape'
  BY <1>2 DEF ListShape
<1>4. list.fetch.state = "back" => Sound(list.fetch.rows)'
  <2>1. list.fetch.rows' = list.fetch.rows
    OBVIOUS
  <2> QED
    BY <1>2, <2>1, <1>1 DEF RowsI
<1>5. list.fetch.state = "none" => list.error \/ (list.own /\ Sound(list.rows)')
  <2>1. list.rows' = list.rows
    OBVIOUS
  <2> QED
    BY <1>2, <2>1, <1>1 DEF RowsI
<1>6. RowsI'
  BY <1>4, <1>5 DEF RowsI
<1> QED
  BY <1>2, <1>3, <1>6 DEF ListIInv

\* One action whose answer changes.
LEMMA AnswerMoves ==
  ASSUME ActsShape, NEW what \in Actions, NEW answer
  PROVE  LET a == [acts EXCEPT ![what].answer = answer] IN
         /\ DOMAIN a = DOMAIN acts /\ a.dialog = acts.dialog /\ a.job = acts.job
         /\ a.gone = acts.gone /\ a.unsure = acts.unsure
         /\ DOMAIN a[what] = {"job", "answer"} /\ a[what].job = acts[what].job /\ a[what].answer = answer
         /\ \A w \in Actions \ {what} : a[w] = acts[w]
BY DEF ActsShape, Actions

LEMMA ActKeeps ==
  ASSUME ListIInv,
         \/ \E what \in {"cancel", "delete"} : ActServed(what) \/ ActLost(what) \/ ActLands(what)
         \/ \E j \in Jobs : JobCompletes(j)
  PROVE  ListIInv'
<1>0. /\ ListShape /\ ActsShape /\ ActsI /\ RowsI /\ find.url.q = find.quiet
      /\ have \in [Jobs -> {"active", "completed", "cancelled", "gone"}] /\ 0 \notin Jobs
  BY JobsListAssumption DEF ListIInv, ListShape
<1>1. ASSUME NEW j \in Jobs, JobCompletes(j) PROVE ListIInv'
  <2>1. /\ have' \in [Jobs -> {"active", "completed", "cancelled", "gone"}]
        /\ \A k \in Jobs : have'[k] = have[k] \/ have[k] = "active"
        /\ UNCHANGED <<find, list, acts>>
    BY <1>0, <1>1 DEF JobCompletes
  <2>2. ActsShape'
    BY <1>0, <2>1 DEF ActsShape
  <2>3. acts.gone \subseteq Jobs /\ (acts.delete.answer = "done" => acts.delete.job \in Jobs)
    BY <1>0 DEF ActsShape, ActsI, NoAct, Actions
  <2>4. ActsI'
    BY <1>0, <2>1, <2>3 DEF ActsI
  <2> QED
    BY <2>1, <2>2, <2>4, ServerMoves
<1>2. ASSUME NEW what \in Actions, ActServed(what) PROVE ListIInv'
  <2>1. PICK j \in Jobs : j = acts[what].job
    BY <1>0, <1>2 DEF ActServed, ActsShape
  <2>2. PICK answer \in {"refused", "done"} :
          /\ acts' = [acts EXCEPT ![what].answer = answer]
          /\ IF answer = "done"
             THEN /\ have[j] # "gone" /\ (what = "cancel" => have[j] = "active")
                  /\ have' = [have EXCEPT ![j] = IF what = "cancel" THEN "cancelled" ELSE "gone"]
             ELSE have' = have
    BY <1>2, <2>1 DEF ActServed
  <2>3. acts[what].answer = "none" /\ UNCHANGED <<find, list>>
    BY <1>2 DEF ActServed
  <2>4. /\ DOMAIN acts' = DOMAIN acts /\ acts'.dialog = acts.dialog /\ acts'.job = acts.job
        /\ acts'.gone = acts.gone /\ acts'.unsure = acts.unsure
        /\ DOMAIN acts'[what] = {"job", "answer"} /\ acts'[what].job = j /\ acts'[what].answer = answer
        /\ \A w \in Actions \ {what} : acts'[w] = acts[w]
    BY <1>0, <2>1, <2>2, AnswerMoves
  <2>5. ActsShape'
    BY <1>0, <2>1, <2>4 DEF ActsShape
  <2>6. /\ have' \in [Jobs -> {"active", "completed", "cancelled", "gone"}]
        /\ \A k \in Jobs : k # j => have'[k] = have[k]
        /\ have[j] = "gone" => have'[j] = "gone"
        /\ have'[j] = have[j] \/ (answer = "done" /\ (have[j] = "active" \/ (what = "delete" /\ have'[j] = "gone")))
        /\ what = "delete" /\ answer = "done" => have'[j] = "gone"
    BY <1>0, <2>2 DEF Actions
  <2>7. ActsI'
    <3>1. \A k \in Jobs : have[k] = "gone" => have'[k] = "gone"
      BY <2>6
    <3>2. \A k \in acts'.gone : have'[k] = "gone"
      BY <1>0, <2>4, <3>1 DEF ActsI, ActsShape
    <3>3. acts'.delete.answer = "done" => have'[acts'.delete.job] = "gone"
      <4>1. CASE what = "delete"
        BY <2>4, <2>6, <4>1
      <4>2. CASE what # "delete"
        <5>1. acts'.delete = acts.delete /\ (acts.delete.answer = "done" => acts.delete.job \in Jobs)
          BY <1>0, <2>4, <4>2 DEF ActsShape, ActsI, NoAct, Actions
        <5> QED
          BY <1>0, <3>1, <5>1 DEF ActsI
      <4> QED
        BY <4>1, <4>2
    <3>4. \A w \in Actions : acts'[w].job = 0 => acts'[w] = NoAct
      BY <1>0, <2>1, <2>4 DEF ActsI
    <3> QED
      BY <3>2, <3>3, <3>4 DEF ActsI
  <2>8. acts.delete.answer = "done" => acts'.delete = acts.delete
    BY <2>3, <2>4 DEF Actions
  <2>9. \A k \in Jobs : \/ have'[k] = have[k] \/ have[k] = "active"
                        \/ acts'.delete.job = k /\ acts'.delete.answer = "done"
    BY <2>4, <2>6
  <2> QED
    BY <2>3, <2>4, <2>5, <2>6, <2>7, <2>8, <2>9, ServerMoves
<1>3. ASSUME NEW what \in Actions, ActLost(what) PROVE ListIInv'
  <2>1. PICK j \in Jobs : j = acts[what].job
    BY <1>0, <1>3 DEF ActLost, ActsShape
  <2>2. acts' = [acts EXCEPT ![what].answer = "refused", !.unsure = @ \cup {j}] /\ UNCHANGED <<have, find, list>>
    BY <1>3, <2>1 DEF ActLost
  <2>3. /\ DOMAIN acts' = DOMAIN acts /\ acts'.dialog = acts.dialog /\ acts'.job = acts.job
        /\ acts'.gone = acts.gone /\ acts'.unsure = acts.unsure \cup {j}
        /\ DOMAIN acts'[what] = {"job", "answer"} /\ acts'[what].job = j /\ acts'[what].answer = "refused"
        /\ \A w \in Actions \ {what} : acts'[w] = acts[w]
    BY <1>0, <2>1, <2>2 DEF ActsShape, Actions
  <2>4. ActsShape'
    BY <1>0, <2>1, <2>2, <2>3 DEF ActsShape
  <2>5. ActsI'
    <3>1. acts'.delete.answer = "done" => acts'.delete = acts.delete
      BY <2>3 DEF Actions
    <3>2. \A w \in Actions : acts'[w].job = 0 => acts'[w] = NoAct
      BY <1>0, <2>1, <2>3 DEF ActsI
    <3>3. \A k \in acts'.gone : have'[k] = "gone"
      BY <1>0, <2>2, <2>3 DEF ActsI
    <3>4. acts'.delete.answer = "done" => have'[acts'.delete.job] = "gone"
      BY <1>0, <2>2, <3>1 DEF ActsI
    <3> QED
      BY <3>2, <3>3, <3>4 DEF ActsI
  <2>6. acts.delete.job \notin acts'.unsure => acts'.delete = acts.delete
    BY <2>1, <2>3 DEF Actions
  <2> QED
    BY <1>0, <2>2, <2>3, <2>4, <2>5, <2>6, ServerMoves
<1>4. ASSUME NEW what \in Actions, ActLands(what) PROVE ListIInv'
  <2>1. PICK a, n, g : /\ a = acts[what] /\ n = NoAct
                       /\ g = IF what = "delete" /\ a.answer = "done" THEN acts.gone \cup {a.job} ELSE acts.gone
    OBVIOUS
  <2>2. acts' = [acts EXCEPT ![what] = n, !.gone = g] /\ UNCHANGED <<have, find>> /\ a.answer # "none"
    BY <1>0, <1>4, <2>1 DEF ActLands, ActsShape
  <2>3. DOMAIN n = {"job", "answer"} /\ n.job = 0 /\ n.answer = "none"
    BY <2>1 DEF NoAct
  <2>4. /\ DOMAIN acts' = DOMAIN acts /\ acts'.dialog = acts.dialog /\ acts'.job = acts.job
        /\ acts'.gone = g /\ acts'.unsure = acts.unsure /\ acts'[what] = n
        /\ \A w \in Actions \ {what} : acts'[w] = acts[w]
    BY <1>0, <2>2 DEF ActsShape, Actions
  <2>5. what = "delete" /\ a.answer = "done" => a.job \in Jobs /\ have[a.job] = "gone"
    BY <1>0, <2>1, <2>2, <2>3 DEF ActsShape, ActsI, Actions
  <2>6. g \subseteq Jobs /\ \A k \in g : have[k] = "gone"
    BY <1>0, <2>1, <2>5 DEF ActsShape, ActsI
  <2>7. ActsShape'
    BY <1>0, <2>3, <2>4, <2>6 DEF ActsShape
  <2>8. ActsI'
    <3>1. acts'.delete.answer = "done" => acts'.delete = acts.delete
      BY <2>3, <2>4 DEF Actions
    <3>2. \A w \in Actions : acts'[w].job = 0 => acts'[w] = NoAct
      BY <1>0, <2>1, <2>4 DEF ActsI
    <3> QED
      BY <1>0, <2>2, <2>4, <2>6, <3>1, <3>2 DEF ActsI
  <2>9. CASE a.answer = "done"
    <3>1. list' = [list EXCEPT !.fetch = Asked]
      BY <1>4, <2>1, <2>9 DEF ActLands, Invalidated
    <3>2. /\ DOMAIN list' = {"rows", "had", "own", "error", "fetch"} /\ list'.fetch = Asked
          /\ list'.error = list.error /\ list'.own = list.own
      BY <1>0, <3>1 DEF ListShape
    <3>3. ListShape' /\ RowsI'
      BY <1>0, <2>2, <3>2, AskedFetch DEF ListShape, RowsI
    <3> QED
      BY <1>0, <2>2, <2>7, <2>8, <3>3 DEF ListIInv
  <2>10. CASE a.answer # "done"
    <3>1. UNCHANGED list /\ g = acts.gone
      BY <1>4, <2>1, <2>10 DEF ActLands
    <3>2. acts.delete.answer = "done" => acts'.delete = acts.delete
      BY <2>1, <2>4, <2>10 DEF Actions
    <3> QED
      BY <1>0, <2>2, <2>4, <2>7, <2>8, <3>1, <3>2, ServerMoves
  <2> QED
    BY <2>9, <2>10
<1> QED
  BY <1>1, <1>2, <1>3, <1>4 DEF Actions

LEMMA ListKeeps ==
  ASSUME ListIInv, ListNext \/ UNCHANGED listVars
  PROVE  ListIInv'
<1>1. CASE UNCHANGED listVars
  BY <1>1 DEF listVars, ListIInv, ListShape, ActsShape, ActsI, RowsI, Sound, Accounted, NoAct
<1>2. CASE ListNext
  BY <1>2, QueryKeeps, SearchKeeps, RowKeeps, ActKeeps DEF ListNext
<1> QED
  BY <1>1, <1>2

-----------------------------------------------------------------------------
(* The page of a job: the progress bar                                     *)

Before(i) == IF i > 2 THEN EndsAt[Stages[i - 1]] ELSE 0

LEMMA StageFacts ==
  /\ Len(Stages) \in Nat /\ DOMAIN Stages = 1..Len(Stages) /\ Len(Stages) > 1
  /\ \A i \in DOMAIN Stages : Stages[i] \in StageSet /\ EndsAt[Stages[i]] \in 0..100
  /\ \A i, j \in DOMAIN Stages : i < j => EndsAt[Stages[i]] < EndsAt[Stages[j]]
  /\ \A p \in Marks : p \in 0..100
<1>1. PICK S : S = StageSet
  OBVIOUS
<1>2. Stages \in Seq(S) /\ Len(Stages) > 1
  BY <1>1, JobPageAssumption
<1>3. Len(Stages) \in Nat /\ DOMAIN Stages = 1..Len(Stages)
  BY <1>2
<1>4. \A i \in DOMAIN Stages : Stages[i] \in StageSet
  BY DEF StageSet
<1>5. EndsAt \in [StageSet -> 0..100] /\ Marks \subseteq 0..100
  BY JobPageAssumption
<1>6. \A i \in DOMAIN Stages : EndsAt[Stages[i]] \in 0..100
  BY <1>4, <1>5
<1>7. \A p \in Marks : p \in 0..100
  BY <1>5
<1>8. \A i, j \in DOMAIN Stages : i < j => EndsAt[Stages[i]] < EndsAt[Stages[j]]
  BY JobPageAssumption
<1> QED
  BY <1>2, <1>3, <1>4, <1>6, <1>7, <1>8

LEMMA OrderIs ==
  ASSUME NEW i \in DOMAIN Stages
  PROVE  OrderOf(Stages[i]) = i
<1>1. PICK n \in Nat : n = Len(Stages) /\ DOMAIN Stages = 1..n
  BY StageFacts
<1>2. ASSUME NEW j \in DOMAIN Stages, Stages[j] = Stages[i]
      PROVE  j = i
  <2>1. i \in Int /\ j \in Int
    BY <1>1, <1>2
  <2>2. EndsAt[Stages[i]] \in Int
    <3>1. EndsAt[Stages[i]] \in 0..100
      BY StageFacts
    <3> QED
      BY <3>1
  <2>3. ~(i < j)
    BY <1>2, <2>2, StageFacts
  <2>4. ~(j < i)
    BY <1>2, <2>2, StageFacts
  <2> QED
    BY <2>1, <2>3, <2>4
<1> QED
  BY <1>2 DEF OrderOf

LEMMA BeforeIs ==
  ASSUME NEW i \in DOMAIN Stages
  PROVE  /\ Before(i) \in 0..100 /\ EndsAt[Stages[i]] \in 0..100 /\ Before(i) <= EndsAt[Stages[i]]
<1>1. CASE i > 2
  <2>1. PICK n \in Nat : n = Len(Stages) /\ DOMAIN Stages = 1..n
    BY StageFacts
  <2>2. i - 1 \in DOMAIN Stages /\ i - 1 < i
    BY <1>1, <2>1
  <2>3. EndsAt[Stages[i - 1]] \in 0..100 /\ EndsAt[Stages[i - 1]] < EndsAt[Stages[i]] /\ EndsAt[Stages[i]] \in 0..100
    BY <2>2, StageFacts
  <2>4. PICK x \in 0..100, y \in 0..100 : x = EndsAt[Stages[i - 1]] /\ y = EndsAt[Stages[i]]
    BY <2>3, ZenonT(30)
  <2>5. Before(i) = x
    BY <1>1, <2>4 DEF Before
  <2>6. x < y
    <3>1. EndsAt[Stages[i - 1]] < EndsAt[Stages[i]]
      BY <2>3
    <3> QED
      BY <2>4, <3>1, ZenonT(30)
  <2> QED
    BY <2>4, <2>5, <2>6
<1>2. CASE ~(i > 2)
  <2>1. Before(i) = 0
    BY <1>2 DEF Before
  <2>2. PICK y \in 0..100 : y = EndsAt[Stages[i]]
    BY StageFacts
  <2> QED
    BY <2>1, <2>2
<1> QED
  BY <1>1, <1>2

\* A share of what a stage adds grows with the progress, up to all of it.
LEMMA Shares ==
  ASSUME NEW w \in 0..100, NEW p \in 0..100, NEW q \in 0..100, p <= q
  PROVE  /\ (w * p) \div 100 \in 0..w /\ (w * p) \div 100 <= (w * q) \div 100
         /\ (w * 0) \div 100 = 0
<1>1. w * p <= w * q /\ w * p >= 0 /\ w * q <= w * 100
  <2>1. w * (q - p) >= 0 /\ w * p >= 0 /\ w * (100 - q) >= 0
    OBVIOUS
  <2> QED
    BY <2>1
<1>2. PICK a \in Nat, b \in Nat : a = w * p /\ b = w * q
  BY <1>1
<1>3. a <= b /\ b <= w * 100
  BY <1>1, <1>2
<1>4. a \div 100 \in 0..w /\ a \div 100 <= b \div 100
  BY <1>3
<1> QED
  BY <1>2, <1>4

LEMMA OverallIs ==
  ASSUME NEW i \in DOMAIN Stages, NEW p \in 0..100
  PROVE  OverallProgress(Stages[i], p) =
           IF i = 1 THEN 0 ELSE Before(i) + ((EndsAt[Stages[i]] - Before(i)) * p) \div 100
<1>1. Stages[i] # "completed"
  BY StageFacts, JobPageAssumption DEF Finals
<1>2. OrderOf(Stages[i]) = i
  BY OrderIs
<1>3. Stages[i] = Stages[1] <=> i = 1
  <2>1. 1 \in DOMAIN Stages
    BY StageFacts
  <2>2. OrderOf(Stages[1]) = 1
    BY <2>1, OrderIs
  <2> QED
    BY <1>2, <2>2
<1> QED
  BY <1>1, <1>2, <1>3 DEF OverallProgress, Before

LEMMA OverallBounds ==
  ASSUME NEW i \in DOMAIN Stages, NEW p \in 0..100, NEW q \in 0..100, p <= q
  PROVE  /\ OverallProgress(Stages[i], p) \in 0..EndsAt[Stages[i]]
         /\ OverallProgress(Stages[i], p) <= OverallProgress(Stages[i], q)
         /\ OverallProgress(Stages[i], 0) = IF i = 1 THEN 0 ELSE Before(i)
<1>1. PICK e, b : e = EndsAt[Stages[i]] /\ b = Before(i)
  OBVIOUS
<1>2. e \in 0..100 /\ b \in 0..100 /\ b <= e
  BY <1>1, BeforeIs
<1>3. PICK w \in 0..100 : w = e - b
  BY <1>2
<1>4. PICK x, y, z : x = (w * p) \div 100 /\ y = (w * q) \div 100 /\ z = (w * 0) \div 100
  OBVIOUS
<1>5. OverallProgress(Stages[i], p) = IF i = 1 THEN 0 ELSE b + x
  BY <1>1, <1>3, <1>4, OverallIs
<1>6. OverallProgress(Stages[i], q) = IF i = 1 THEN 0 ELSE b + y
  BY <1>1, <1>3, <1>4, OverallIs
<1>7. OverallProgress(Stages[i], 0) = IF i = 1 THEN 0 ELSE b + z
  <2>1. 0 \in 0..100
    OBVIOUS
  <2>2. OverallProgress(Stages[i], 0) = IF i = 1 THEN 0 ELSE Before(i) + ((EndsAt[Stages[i]] - Before(i)) * 0) \div 100
    BY <2>1, OverallIs
  <2> QED
    BY <1>1, <1>3, <1>4, <2>2
<1>8. x \in 0..w /\ x <= y /\ z = 0
  BY <1>4, Shares
<1>9. y \in 0..w
  <2>1. q <= q
    OBVIOUS
  <2>2. (w * q) \div 100 \in 0..w
    BY <2>1, Shares
  <2> QED
    BY <1>4, <2>2
<1>10. PICK oP, oQ, oZ : /\ oP = OverallProgress(Stages[i], p) /\ oQ = OverallProgress(Stages[i], q)
                         /\ oZ = OverallProgress(Stages[i], 0)
  OBVIOUS
<1>11. /\ oP = IF i = 1 THEN 0 ELSE b + x
       /\ oQ = IF i = 1 THEN 0 ELSE b + y
       /\ oZ = IF i = 1 THEN 0 ELSE b + z
  BY <1>5, <1>6, <1>7, <1>10
<1>12. oP \in 0..e /\ oP <= oQ /\ oZ = IF i = 1 THEN 0 ELSE b
  <2>1. x \in Nat /\ y \in Nat /\ b \in Nat /\ e \in Nat /\ w \in Nat
    BY <1>2, <1>8, <1>9
  <2>2. b + x <= e /\ b + x <= b + y /\ b + z = b
    BY <1>3, <1>8, <2>1
  <2>3. CASE i = 1
    BY <1>11, <2>1, <2>3
  <2>4. CASE i # 1
    BY <1>11, <2>1, <2>2, <2>4
  <2> QED
    BY <2>3, <2>4
<1> QED
  BY <1>1, <1>10, <1>12

-----------------------------------------------------------------------------
(* The page of a job: what it knows                                        *)

Errors == {"none", "gone", "auth", "server", "network"}
Event == [status : StageSet \cup Finals, progress : Marks]

JobShape ==
  /\ DOMAIN job = {"log", "kept", "open"} /\ job.log \in Seq(Event) /\ Newest > 0
AskShape == DOMAIN ask = {"dialog", "call", "answer", "at"} /\ ask.at \in 0..Newest

\* Only the newest event may end the job.
OneEnd == \A i \in 1..Newest : IsActive(Status(i)) \/ (i = Newest /\ i > 1)

\* A cancel that is done answers with the row it wrote.
CancelI == ask.call = "cancel" /\ ask.answer = "done" => ask.at # 0 /\ Status(ask.at) = "cancelled"

\* A row the page can keep: a page that loads, or lacks the stems of what is
\* completed, is fetching; and what was fetched is a row.
RowOK(r) ==
  /\ DOMAIN r = {"at", "stems", "error", "fetch"} /\ r.at \in 0..Newest /\ r.error \in Errors
  /\ DOMAIN r.fetch = {"state", "tries", "at", "error"} /\ r.fetch.state \in {"none", "sent", "back"}
  /\ r.fetch.at \in 0..Newest /\ r.fetch.error \in Errors
  /\ r.fetch.state = "back" /\ r.fetch.error = "none" => r.fetch.at # 0
  /\ r.error = "none" /\ r.fetch.state = "none" =>
       r.at # 0 /\ (Status(r.at) = "completed" => r.stems)

\* Where the job stopped is the event before its end.
ToldOK(t) ==
  /\ DOMAIN t = {"event", "frozen"} /\ t.event \in 0..Newest /\ t.frozen \in 0..Newest
  /\ t.frozen # 0 => JobEnded /\ t.frozen = Newest - 1 /\ IsActive(Status(t.frozen))

\* The last active event of a subscription is its last one, or the one before;
\* only the end of the job ends it, and then it is known where the job stopped.
SubOK(s, t) ==
  /\ DOMAIN s = {"state", "key", "last", "live"}
  /\ s.state \in {"none", "connecting", "open", "ended", "denied"} /\ s.last \in 0..Newest
  /\ s.live = IF s.last = 0 THEN 0 ELSE IF IsActive(Status(s.last)) THEN s.last ELSE s.last - 1
  /\ s.state \in {"connecting", "open"} /\ s.last # 0 => IsActive(Status(s.last))
  /\ s.state = "ended" => JobEnded /\ s.key = Status(Newest) /\ t.frozen # 0
  /\ s.state = "denied" => ~Readable
  /\ s.key = "none" <=> s.state = "none"

\* The page subscribes to the job it shows.
KeyI == ~away => IF row.error = "server" THEN sub = NoSub ELSE sub.key = KeyOf(row)

JobPageIInv ==
  /\ JobShape /\ AskShape /\ OneEnd /\ OverallGrows /\ CancelI /\ KeyI
  /\ RowOK(row) /\ ToldOK(told) /\ SubOK(sub, told)

\* A status that ends a job is no stage.
LEMMA EndsAreNoStages ==
  ASSUME NEW s \in Finals
  PROVE  ~IsActive(s) /\ s # "active" /\ s # "none"
BY JobPageAssumption DEF IsActive, Finals

LEMMA LogFacts ==
  ASSUME JobShape
  PROVE  /\ Newest \in Nat /\ Newest > 0
         /\ \A i \in 1..Newest : /\ job.log[i] \in Event /\ Status(i) \in StageSet \cup Finals
                                 /\ job.log[i].progress \in Marks
<1>1. PICK E : E = Event
  OBVIOUS
<1>2. PICK l : l = job.log
  OBVIOUS
<1>3. l \in Seq(E) /\ Newest = Len(l) /\ Newest > 0
  BY <1>1, <1>2 DEF JobShape, Newest
<1>4. Newest \in Nat /\ \A i \in 1..Newest : l[i] \in E
  BY <1>3
<1>5. \A i \in 1..Newest : job.log[i] \in Event
  BY <1>1, <1>2, <1>4
<1>6. \A x \in Event : x.status \in StageSet \cup Finals /\ x.progress \in Marks
  BY DEF Event
<1> QED
  BY <1>3, <1>4, <1>5, <1>6 DEF Status

\* The log only grows.
LEMMA Appended ==
  ASSUME JobShape, NEW e \in Event, DOMAIN job' = DOMAIN job, job'.log = Append(job.log, e)
  PROVE  /\ JobShape' /\ Newest' = Newest + 1
         /\ \A i \in 1..Newest : job'.log[i] = job.log[i] /\ Status(i)' = Status(i)
         /\ job'.log[Newest + 1] = e
<1>1. PICK E : E = Event
  OBVIOUS
<1>2. PICK l, k : l = job.log /\ k = job'.log
  OBVIOUS
<1>3. l \in Seq(E) /\ e \in E /\ k = Append(l, e)
  BY <1>1, <1>2 DEF JobShape
<1>4. k \in Seq(E) /\ Len(k) = Len(l) + 1 /\ k[Len(l) + 1] = e /\ \A i \in 1..Len(l) : k[i] = l[i]
  BY <1>3
<1>5. Len(l) = Newest /\ Len(k) = Newest'
  BY <1>2 DEF Newest
<1>6. Newest \in Nat /\ Newest > 0
  BY LogFacts
<1>7. JobShape'
  <2>1. DOMAIN job' = {"log", "kept", "open"}
    BY DEF JobShape
  <2>2. job'.log \in Seq(Event)
    BY <1>1, <1>2, <1>4
  <2>3. Newest' > 0
    BY <1>4, <1>5, <1>6
  <2> QED
    BY <2>1, <2>2, <2>3 DEF JobShape, Event
<1> QED
  BY <1>2, <1>4, <1>5, <1>7 DEF Status

LEMMA JobStarts ==
  ASSUME PagesInit
  PROVE  JobPageIInv
<1>1. JobPageInit
  BY DEF PagesInit
<1>2. PICK e : e = [status |-> Stages[1], progress |-> 0]
  OBVIOUS
<1>3. 1 \in DOMAIN Stages /\ Stages[1] \in StageSet /\ 0 \in Marks
  BY StageFacts, JobPageAssumption
<1>4. e \in Event /\ e.status = Stages[1]
  BY <1>2, <1>3 DEF Event
<1>5. job.log = <<e>> /\ DOMAIN job = {"log", "kept", "open"}
  BY <1>1, <1>2 DEF JobPageInit
<1>6. JobShape /\ Newest = 1 /\ Status(1) = Stages[1]
  BY <1>4, <1>5 DEF JobShape, Newest, Status
<1>7. OneEnd
  BY <1>3, <1>6 DEF OneEnd, IsActive
<1>8. OverallGrows
  BY <1>6 DEF OverallGrows
<1>9. /\ DOMAIN Sent = {"state", "tries", "at", "error"} /\ Sent.state = "sent"
      /\ Sent.at = 0 /\ Sent.error = "none"
  BY DEF Sent, NoFetch
<1>10. RowOK(row)
  BY <1>1, <1>6, <1>9 DEF JobPageInit, RowOK, Errors
<1>11. ToldOK(told)
  BY <1>1, <1>6 DEF JobPageInit, ToldOK, NothingTold
<1>12. SubOK(sub, told) /\ KeyI
  BY <1>1, <1>6 DEF JobPageInit, SubOK, KeyI, KeyOf, NoSub, NothingTold
<1>13. AskShape /\ CancelI
  BY <1>1, <1>6 DEF JobPageInit, AskShape, CancelI, NothingAsked
<1> QED
  BY <1>6, <1>7, <1>8, <1>10, <1>11, <1>12, <1>13 DEF JobPageIInv

-----------------------------------------------------------------------------
(* The page of a job: rendering                                            *)

\* While the log stands, what is sound of the page stays so.
LEMMA PageKeeps ==
  ASSUME JobPageIInv, UNCHANGED job,
         RowOK(row'), ToldOK(told'), SubOK(sub', told'), AskShape', CancelI', KeyI'
  PROVE  JobPageIInv'
<1>1. UNCHANGED Newest /\ \A i : UNCHANGED Status(i)
  BY DEF Newest, Status
<1>2. UNCHANGED <<JobEnded, Readable>>
  BY <1>1 DEF JobEnded, Readable
<1>3. RowOK(row)' /\ ToldOK(told)' /\ SubOK(sub, told)'
  BY <1>1, <1>2 DEF RowOK, ToldOK, SubOK
<1>4. JobShape' /\ OneEnd'
  BY <1>1 DEF JobPageIInv, JobShape, OneEnd, Event
<1>5. OverallGrows'
  BY <1>1 DEF JobPageIInv, OverallGrows
<1> QED
  BY <1>3, <1>4, <1>5 DEF JobPageIInv

\* A rendered row comes with a subscription of its own.
LEMMA RenderKeeps ==
  ASSUME JobPageIInv, UNCHANGED job, AskShape', CancelI',
         NEW r, NEW s, NEW t, RowOK(r), ToldOK(t), KeyOf(r) = s.key => SubOK(s, t),
         r.at = 0 => s.key = "none",
         Rendered(r, s, t)
  PROVE  JobPageIInv'
<1>1. row' = r /\ \A q : KeyOf(q)' = KeyOf(q)
  BY DEF Rendered, KeyOf, Status
<1>2. CASE r.error = "server"
  <2>1. sub' = NoSub /\ told' = NothingTold
    BY <1>2 DEF Rendered
  <2>2. ToldOK(told') /\ SubOK(sub', told')
    BY <2>1, LogFacts DEF ToldOK, SubOK, NoSub, NothingTold, JobPageIInv
  <2>3. KeyI'
    BY <1>1, <1>2, <2>1 DEF KeyI
  <2> QED
    BY <1>1, <2>2, <2>3, PageKeeps
<1>3. CASE r.error # "server" /\ KeyOf(r) = s.key
  <2>1. sub' = s /\ told' = t
    BY <1>3 DEF Rendered
  <2>2. KeyI'
    BY <1>1, <1>3, <2>1 DEF KeyI
  <2> QED
    BY <1>1, <1>3, <2>1, <2>2, PageKeeps
<1>4. CASE r.error # "server" /\ KeyOf(r) # s.key
  <2>1. sub' = Subscribed(KeyOf(r)) /\ told' = [t EXCEPT !.event = 0]
    BY <1>4 DEF Rendered
  <2>2. PICK k : k = KeyOf(r)
    OBVIOUS
  <2>3. r.at # 0 /\ k # "none"
    <3>1. r.at # 0
      BY <1>4 DEF KeyOf
    <3>2. r.at \in 1..Newest
      BY <3>1, LogFacts DEF RowOK, JobPageIInv
    <3>3. IsActive(Status(r.at)) \/ Status(r.at) \in Finals
      BY <3>2, LogFacts DEF IsActive, JobPageIInv
    <3> QED
      BY <2>2, <3>1, <3>3, EndsAreNoStages DEF KeyOf
  <2>4. /\ DOMAIN sub' = {"state", "key", "last", "live"} /\ sub'.state = "connecting"
        /\ sub'.key = k /\ sub'.last = 0 /\ sub'.live = 0
    BY <2>1, <2>2 DEF Subscribed
  <2>5. SubOK(sub', told')
    BY <2>3, <2>4, LogFacts DEF SubOK, JobPageIInv
  <2>6. DOMAIN told' = {"event", "frozen"} /\ told'.event = 0 /\ told'.frozen = t.frozen
    BY <2>1 DEF ToldOK
  <2>7. ToldOK(told')
    BY <2>6, LogFacts DEF ToldOK, JobPageIInv
  <2>8. KeyI'
    BY <1>1, <1>4, <2>2, <2>4 DEF KeyI
  <2> QED
    BY <1>1, <2>5, <2>7, <2>8, PageKeeps
<1> QED
  BY <1>2, <1>3, <1>4

-----------------------------------------------------------------------------
(* The page of a job: its steps                                            *)

\* The stream connects, is refused or is lost.
LEMMA StreamKeeps ==
  ASSUME JobPageIInv, Connect \/ Drop
  PROVE  JobPageIInv'
<1>1. /\ UNCHANGED <<job, row, told, ask, away>> /\ ~away
      /\ \E x \in {"connecting", "open", "denied"} :
           /\ sub' = [sub EXCEPT !.state = x] /\ sub.state \in {"connecting", "open"}
           /\ x = "denied" => ~Readable
  BY DEF Connect, Drop
<1>2. PICK x \in {"connecting", "open", "denied"} :
        /\ sub' = [sub EXCEPT !.state = x] /\ sub.state \in {"connecting", "open"}
        /\ x = "denied" => ~Readable
  BY <1>1
<1>3. SubOK(sub, told) /\ KeyI
  BY DEF JobPageIInv
<1>4. /\ DOMAIN sub' = {"state", "key", "last", "live"} /\ sub'.state = x
      /\ sub'.key = sub.key /\ sub'.last = sub.last /\ sub'.live = sub.live
  BY <1>2, <1>3 DEF SubOK
<1>5. SubOK(sub', told')
  BY <1>1, <1>2, <1>3, <1>4 DEF SubOK
<1>6. row.error # "server" /\ sub.key = KeyOf(row)
  BY <1>1, <1>2, <1>3 DEF KeyI, NoSub
<1>7. KeyI'
  BY <1>1, <1>4, <1>6 DEF KeyI, KeyOf, Status
<1>8. RowOK(row') /\ ToldOK(told') /\ AskShape' /\ CancelI'
  BY <1>1 DEF JobPageIInv, AskShape, CancelI, Newest, Status
<1> QED
  BY <1>1, <1>5, <1>7, <1>8, PageKeeps

\* A row with another fetch is subscribed as before.
LEMMA FetchMoves ==
  ASSUME JobPageIInv, UNCHANGED <<job, sub, told, ask, away>>,
         DOMAIN row' = DOMAIN row, row'.at = row.at, row'.error = row.error \/ (row.at = 0 /\ row'.error = "none"),
         RowOK(row')
  PROVE  JobPageIInv'
<1>1. KeyOf(row)' = KeyOf(row)
  BY DEF KeyOf, Status
<1>2. sub.key = "none" => sub.state = "none"
  BY DEF JobPageIInv, SubOK
<1>3. KeyI'
  BY <1>1 DEF JobPageIInv, KeyI, NoSub, KeyOf
<1>4. AskShape' /\ CancelI' /\ ToldOK(told') /\ SubOK(sub', told')
  BY DEF JobPageIInv, AskShape, CancelI, Newest, Status
<1> QED
  BY <1>3, <1>4, PageKeeps

\* A request is answered, fails or is lost, and the user tries again.
LEMMA FetchKeeps ==
  ASSUME JobPageIInv, FetchServed \/ FetchFails \/ FetchLost \/ TryAgain
  PROVE  JobPageIInv'
<1>1. RowOK(row) /\ Newest \in Nat /\ Newest > 0 /\ Retries \in Nat
  BY LogFacts, JobPageAssumption DEF JobPageIInv
<1>2. UNCHANGED <<job, sub, told, ask, away>>
  BY DEF FetchServed, FetchFails, FetchLost, TryAgain
<1>3. CASE FetchServed
  <2>1. PICK e, n : /\ e = (IF ~job.kept THEN "gone" ELSE IF ~job.open THEN "auth" ELSE "none")
                    /\ n = IF Readable THEN Newest ELSE 0
    OBVIOUS
  <2>2. e \in Errors /\ n \in 0..Newest /\ (e = "none" => n # 0)
    BY <1>1, <2>1 DEF Errors, Readable
  <2>3. row' = [row EXCEPT !.fetch = [@ EXCEPT !.state = "back", !.at = n, !.error = e]]
    BY <1>3, <2>1 DEF FetchServed
  <2>4. PICK f : f = [row.fetch EXCEPT !.state = "back", !.at = n, !.error = e]
    OBVIOUS
  <2>5. DOMAIN f = {"state", "tries", "at", "error"} /\ f.state = "back" /\ f.at = n /\ f.error = e
    BY <1>1, <2>4 DEF RowOK
  <2>6. row' = [row EXCEPT !.fetch = f]
    BY <2>3, <2>4
  <2>7. /\ DOMAIN row' = DOMAIN row /\ row'.fetch = f
        /\ row'.at = row.at /\ row'.error = row.error /\ row'.stems = row.stems
    BY <1>1, <2>6 DEF RowOK
  <2>8. RowOK(row')
    BY <1>1, <2>2, <2>5, <2>7 DEF RowOK
  <2> QED
    BY <1>2, <2>7, <2>8, FetchMoves
<1>4. CASE FetchFails
  <2>1. row' = [row EXCEPT !.fetch = [@ EXCEPT !.state = "back", !.error = "server"]]
    BY <1>4 DEF FetchFails
  <2>2. PICK f : f = [row.fetch EXCEPT !.state = "back", !.error = "server"]
    OBVIOUS
  <2>3. DOMAIN f = {"state", "tries", "at", "error"} /\ f.state = "back" /\ f.at = row.fetch.at /\ f.error = "server"
    BY <1>1, <2>2 DEF RowOK
  <2>4. row' = [row EXCEPT !.fetch = f]
    BY <2>1, <2>2
  <2>5. /\ DOMAIN row' = DOMAIN row /\ row'.fetch = f
        /\ row'.at = row.at /\ row'.error = row.error /\ row'.stems = row.stems
    BY <1>1, <2>4 DEF RowOK
  <2>6. RowOK(row')
    BY <1>1, <2>3, <2>5 DEF RowOK, Errors
  <2> QED
    BY <1>2, <2>5, <2>6, FetchMoves
<1>5. CASE FetchLost
  <2>1. PICK f : f = Retried(row.fetch)
    OBVIOUS
  <2>2. row' = [row EXCEPT !.fetch = f] /\ row.fetch.state = "sent"
    BY <1>5, <2>1 DEF FetchLost
  <2>3. /\ DOMAIN f = {"state", "tries", "at", "error"} /\ f.at = row.fetch.at
        /\ \/ f.state = "sent" /\ f.error = row.fetch.error
           \/ f.state = "back" /\ f.error = "network"
    BY <1>1, <2>1, <2>2 DEF RowOK, Retried
  <2>4. /\ DOMAIN row' = DOMAIN row /\ row'.fetch = f
        /\ row'.at = row.at /\ row'.error = row.error /\ row'.stems = row.stems
    BY <1>1, <2>2 DEF RowOK
  <2>5. RowOK(row')
    BY <1>1, <2>3, <2>4 DEF RowOK, Errors
  <2> QED
    BY <1>2, <2>4, <2>5, FetchMoves
<1>6. CASE TryAgain
  <2>1. row' = [row EXCEPT !.error = IF row.at = 0 THEN "none" ELSE @, !.fetch = Sent]
    BY <1>6 DEF TryAgain
  <2>2. /\ DOMAIN Sent = {"state", "tries", "at", "error"} /\ Sent.state = "sent"
        /\ Sent.at = 0 /\ Sent.error = "none"
    BY DEF Sent, NoFetch
  <2>3. /\ DOMAIN row' = DOMAIN row /\ row'.fetch = Sent
        /\ row'.at = row.at /\ row'.stems = row.stems
        /\ row'.error = IF row.at = 0 THEN "none" ELSE row.error
    BY <1>1, <2>1 DEF RowOK
  <2>4. RowOK(row')
    BY <1>1, <2>2, <2>3 DEF RowOK, Errors
  <2> QED
    BY <1>2, <2>3, <2>4, FetchMoves
<1> QED
  BY <1>3, <1>4, <1>5, <1>6

\* What was asked and answered stands when a dialog opens or closes.
LEMMA AskMoves ==
  ASSUME JobPageIInv, UNCHANGED job, NEW d, ask' = [ask EXCEPT !.dialog = d]
  PROVE  AskShape' /\ CancelI'
<1>1. /\ DOMAIN ask' = {"dialog", "call", "answer", "at"}
      /\ ask'.call = ask.call /\ ask'.answer = ask.answer /\ ask'.at = ask.at
  BY DEF JobPageIInv, AskShape
<1> QED
  BY <1>1 DEF JobPageIInv, AskShape, CancelI, Newest, Status

\* An answer lands.
LEMMA LandingKeeps ==
  ASSUME JobPageIInv, FetchLands
  PROVE  JobPageIInv'
<1>0. RowOK(row) /\ ToldOK(told) /\ SubOK(sub, told) /\ KeyI /\ Newest \in Nat /\ Newest > 0
  BY LogFacts DEF JobPageIInv
<1>1. PICK f : f = row.fetch
  OBVIOUS
<1>2. PICK r : r = IF f.error = "none"
                   THEN [at |-> f.at, stems |-> Status(f.at) = "completed", error |-> "none", fetch |-> NoFetch]
                   ELSE [row EXCEPT !.error = f.error, !.fetch = NoFetch]
  OBVIOUS
<1>3. /\ f.state = "back" /\ UNCHANGED <<job, away>>
      /\ IF away THEN row' = r /\ UNCHANGED <<sub, told>> ELSE Rendered(r, sub, told)
      /\ AskKept(r)
  BY <1>1, <1>2 DEF FetchLands
<1>4. /\ DOMAIN NoFetch = {"state", "tries", "at", "error"} /\ NoFetch.state = "none"
      /\ NoFetch.at = 0 /\ NoFetch.error = "none"
  BY DEF NoFetch
<1>5. RowOK(r) /\ (r.at = 0 => row.at = 0)
  <2>1. CASE f.error = "none"
    <3>1. /\ DOMAIN r = {"at", "stems", "error", "fetch"} /\ r.at = f.at /\ r.error = "none"
          /\ r.fetch = NoFetch /\ (Status(r.at) = "completed" => r.stems)
      BY <1>2, <2>1
    <3> QED
      BY <1>0, <1>1, <1>3, <1>4, <2>1, <3>1 DEF RowOK, Errors
  <2>2. CASE f.error # "none"
    <3>1. r = [row EXCEPT !.error = f.error, !.fetch = NoFetch]
      BY <1>2, <2>2
    <3>2. /\ DOMAIN r = {"at", "stems", "error", "fetch"} /\ r.at = row.at /\ r.error = f.error
          /\ r.fetch = NoFetch
      BY <1>0, <3>1 DEF RowOK
    <3> QED
      BY <1>0, <1>1, <1>4, <2>2, <3>2 DEF RowOK, Errors
  <2> QED
    BY <2>1, <2>2
<1>6. AskShape' /\ CancelI'
  <2>1. CASE r.error = "none"
    BY <1>3, <2>1 DEF AskKept, JobPageIInv, AskShape, CancelI, Newest, Status
  <2>2. CASE r.error # "none"
    BY <1>3, <2>2, AskMoves DEF AskKept
  <2> QED
    BY <2>1, <2>2
<1>7. CASE away
  BY <1>0, <1>3, <1>5, <1>6, <1>7, PageKeeps DEF KeyI
<1>8. CASE ~away
  <2>1. r.at = 0 => sub.key = "none"
    BY <1>0, <1>5, <1>8 DEF KeyI, KeyOf, NoSub
  <2>2. Rendered(r, sub, told)
    BY <1>3, <1>8
  <2> QED
    BY <1>0, <1>3, <1>5, <1>6, <1>8, <2>1, <2>2, RenderKeeps
<1> QED
  BY <1>7, <1>8

\* The user opens, closes or confirms a dialog, or leaves.
LEMMA UserKeeps ==
  ASSUME JobPageIInv, (\E dialog \in {"cancel", "delete"} : Ask(dialog)) \/ Decline \/ Confirm \/ CallLost \/ Leave
  PROVE  JobPageIInv'
<1>0. RowOK(row) /\ ToldOK(told) /\ SubOK(sub, told) /\ KeyI /\ Newest \in Nat /\ Newest > 0
  BY LogFacts DEF JobPageIInv
<1>1. UNCHANGED <<job, row>>
  BY DEF Ask, Decline, Confirm, CallLost, Leave
<1>2. AskShape' /\ CancelI'
  <2>1. ASSUME NEW d, ask' = [ask EXCEPT !.dialog = d]
        PROVE  AskShape' /\ CancelI'
    BY <1>1, <2>1, AskMoves
  <2>2. CASE (\E dialog \in {"cancel", "delete"} : Ask(dialog)) \/ Decline \/ Leave
    BY <2>1, <2>2 DEF Ask, Decline, Leave
  <2>3. ASSUME Confirm \/ CallLost
        PROVE  /\ DOMAIN ask' = {"dialog", "call", "answer", "at"} /\ ask'.at = ask.at
               /\ ask'.answer \in {"none", "refused"}
    BY <2>3 DEF Confirm, CallLost, JobPageIInv, AskShape
  <2>4. CASE Confirm \/ CallLost
    BY <1>1, <2>3, <2>4 DEF JobPageIInv, AskShape, CancelI, Newest
  <2> QED
    BY <2>2, <2>4
<1>3. CASE ~Leave
  <2>1. UNCHANGED <<sub, told, away>>
    BY <1>3 DEF Ask, Decline, Confirm, CallLost
  <2> QED
    BY <1>0, <1>1, <1>2, <2>1, PageKeeps DEF KeyI, KeyOf, Status
<1>4. CASE Leave
  <2>1. sub' = NoSub /\ told' = NothingTold /\ away' = TRUE
    BY <1>4 DEF Leave
  <2>2. ToldOK(told') /\ SubOK(sub', told') /\ KeyI'
    BY <1>0, <2>1 DEF ToldOK, SubOK, NoSub, NothingTold, KeyI
  <2> QED
    BY <1>0, <1>1, <1>2, <2>2, PageKeeps
<1> QED
  BY <1>3, <1>4

\* The answer to a cancel writes its row, that to a delete leaves the page.
LEMMA CallLandsKeeps ==
  ASSUME JobPageIInv, CallLands
  PROVE  JobPageIInv'
<1>0. /\ RowOK(row) /\ ToldOK(told) /\ SubOK(sub, told) /\ KeyI /\ AskShape /\ CancelI
      /\ Newest \in Nat /\ Newest > 0
  BY LogFacts DEF JobPageIInv
<1>1. UNCHANGED job /\ (~away' => ~away)
  BY DEF CallLands
<1>2. AskShape' /\ CancelI'
  <2>1. ask' = [ask EXCEPT !.call = "none", !.answer = "none", !.at = 0]
    BY DEF CallLands
  <2>2. DOMAIN ask' = {"dialog", "call", "answer", "at"} /\ ask'.at = 0 /\ ask'.call = "none"
    BY <1>0, <2>1 DEF AskShape
  <2> QED
    BY <1>0, <1>1, <2>2 DEF AskShape, CancelI, Newest
<1>3. PICK r : r = [row EXCEPT !.at = ask.at, !.stems = FALSE, !.error = "none"]
  OBVIOUS
<1>4. CASE ask.call = "cancel" /\ ask.answer = "done" /\ ~away
  <2>1. Rendered(r, sub, told)
    BY <1>3, <1>4 DEF CallLands
  <2>2. DOMAIN r = {"at", "stems", "error", "fetch"} /\ r.at = ask.at /\ r.error = "none" /\ r.fetch = row.fetch
    BY <1>0, <1>3 DEF RowOK
  <2>3. RowOK(r) /\ r.at # 0
    BY <1>0, <1>4, <2>2 DEF RowOK, AskShape, CancelI, Errors
  <2> QED
    BY <1>0, <1>1, <1>2, <2>1, <2>3, RenderKeeps
<1>5. CASE ~(ask.call = "cancel" /\ ask.answer = "done" /\ ~away)
  <2>1. UNCHANGED <<row, sub, told>>
    BY <1>5 DEF CallLands
  <2>2. KeyI'
    BY <1>0, <1>1, <2>1 DEF KeyI, KeyOf, Status
  <2> QED
    BY <1>0, <1>1, <1>2, <2>1, <2>2, PageKeeps
<1> QED
  BY <1>4, <1>5

\* The job goes on, or ends, beside a page that has not heard of it.
LEMMA LogKeeps ==
  ASSUME JobPageIInv, ~JobEnded, UNCHANGED <<row, sub, told, away>>, AskShape', CancelI', OverallGrows',
         NEW e \in Event, job' = [job EXCEPT !.log = Append(@, e)]
  PROVE  JobPageIInv'
<1>0. /\ JobShape /\ OneEnd /\ RowOK(row) /\ ToldOK(told) /\ SubOK(sub, told) /\ KeyI
      /\ Newest \in Nat /\ Newest > 0
  BY LogFacts DEF JobPageIInv
<1>1. /\ DOMAIN job' = DOMAIN job /\ job'.log = Append(job.log, e)
      /\ job'.kept = job.kept /\ job'.open = job.open
  BY <1>0 DEF JobShape
<1>2. JobShape' /\ Newest' = Newest + 1 /\ \A i \in 1..Newest : Status(i)' = Status(i)
  BY <1>0, <1>1, Appended
<1>3. IsActive(Status(Newest))
  BY <1>0, LogFacts DEF JobEnded, IsActive
<1>4. OneEnd'
  BY <1>0, <1>2, <1>3 DEF OneEnd, IsActive
<1>5. told.frozen = 0 /\ sub.state # "ended"
  BY <1>0 DEF ToldOK, SubOK
<1>6. ToldOK(told)'
  BY <1>0, <1>2, <1>5 DEF ToldOK
<1>7. SubOK(sub, told)'
  <2>1. Readable' = Readable
    BY <1>1 DEF Readable
  <2>2. sub.last # 0 => Status(sub.last)' = Status(sub.last)
    BY <1>0, <1>2 DEF SubOK
  <2> QED
    BY <1>0, <1>2, <1>5, <2>1, <2>2 DEF SubOK, IsActive
<1>8. row.at # 0 => Status(row.at)' = Status(row.at)
  BY <1>0, <1>2 DEF RowOK
<1>9. RowOK(row)'
  <2>1. row.fetch.at \in 0..Newest' /\ row.at \in 0..Newest'
    BY <1>0, <1>2 DEF RowOK
  <2> QED
    BY <1>0, <1>8, <2>1 DEF RowOK
<1>10. KeyI'
  BY <1>0, <1>8 DEF KeyI, KeyOf, IsActive
<1> QED
  BY <1>2, <1>4, <1>6, <1>7, <1>9, <1>10 DEF JobPageIInv

\* The job is deleted, or may not be read any more.
LEMMA AccessKeeps ==
  ASSUME JobPageIInv, UNCHANGED <<row, sub, told, away>>, AskShape', CancelI',
         DOMAIN job' = DOMAIN job, job'.log = job.log, Readable' => Readable
  PROVE  JobPageIInv'
<1>1. UNCHANGED Newest /\ \A i : Status(i)' = Status(i)
  BY DEF Newest, Status
<1>2. UNCHANGED JobEnded
  BY <1>1 DEF JobEnded
<1>3. JobShape' /\ OneEnd' /\ OverallGrows'
  BY <1>1 DEF JobPageIInv, JobShape, OneEnd, Event, OverallGrows
<1>4. RowOK(row)' /\ ToldOK(told)' /\ SubOK(sub, told)'
  BY <1>1, <1>2 DEF JobPageIInv, RowOK, ToldOK, SubOK
<1>5. KeyI'
  BY <1>1 DEF JobPageIInv, KeyI, KeyOf
<1> QED
  BY <1>3, <1>4, <1>5 DEF JobPageIInv

\* What the worker writes next never sets the bar back.
LEMMA NextIsFurther ==
  ASSUME JobPageIInv, ~JobEnded, NEW e \in NextEvents
  PROVE  /\ e \in Event
         /\ e.status \notin {"failed", "cancelled"} =>
              OverallProgress(Status(Newest), job.log[Newest].progress) <= OverallProgress(e.status, e.progress)
<1>0. JobShape /\ Newest \in 1..Newest
  BY LogFacts DEF JobPageIInv
<1>1. PICK l : l = job.log[Newest]
  OBVIOUS
<1>2. l.status = Status(Newest) /\ l.status \in StageSet /\ l.progress \in Marks /\ l.progress \in 0..100
  BY <1>0, <1>1, LogFacts, StageFacts DEF JobEnded, Status
<1>3. PICK i \in DOMAIN Stages : l.status = Stages[i]
  BY <1>2 DEF StageSet
<1>4. OrderOf(l.status) = i
  BY <1>3, OrderIs
<1>5. \/ e \in [status : {l.status} \ {Stages[1]}, progress : {p \in Marks : p > l.progress}]
      \/ e \in [status : {Stages[j] : j \in DOMAIN Stages \cap {i + 1}}, progress : {0}]
      \/ e \in [status : {"failed"} \cup IF i = Len(Stages) THEN {"completed"} ELSE {}, progress : {0}]
  BY <1>1, <1>4 DEF NextEvents
<1>6. 0 \in Marks /\ \A j \in DOMAIN Stages : Stages[j] \in StageSet
  BY JobPageAssumption, StageFacts
<1>7. PICK o \in 0..EndsAt[Stages[i]] : o = OverallProgress(Stages[i], l.progress)
  <2>1. l.progress <= l.progress
    BY <1>2
  <2> QED
    BY <1>2, <2>1, OverallBounds
<1>8. PICK x : x = OverallProgress(e.status, e.progress)
  OBVIOUS
<1>9. PICK m \in 0..100 : m = EndsAt[Stages[i]]
  BY StageFacts
<1>10. CASE e \in [status : {l.status} \ {Stages[1]}, progress : {p \in Marks : p > l.progress}]
  <2>1. e.status = l.status /\ e.progress \in Marks /\ e.progress > l.progress
    BY <1>10
  <2>2. e.progress \in 0..100
    BY <2>1, StageFacts
  <2>3. l.progress <= e.progress
    BY <1>2, <2>1, <2>2
  <2>4. OverallProgress(Stages[i], l.progress) <= OverallProgress(Stages[i], e.progress)
    BY <1>2, <2>2, <2>3, OverallBounds
  <2>5. e \in Event
    BY <1>2, <1>10 DEF Event
  <2> QED
    BY <1>1, <1>2, <1>3, <2>1, <2>4, <2>5
<1>11. CASE e \in [status : {Stages[j] : j \in DOMAIN Stages \cap {i + 1}}, progress : {0}]
  <2>1. PICK j \in DOMAIN Stages : j = i + 1 /\ e.status = Stages[j] /\ e.progress = 0
    BY <1>11
  <2>2. e \in Event
    BY <1>6, <1>11 DEF Event
  <2>3. x = IF j = 1 THEN 0 ELSE Before(j)
    <3>1. 0 \in 0..100 /\ 0 <= 0
      OBVIOUS
    <3>2. OverallProgress(Stages[j], 0) = IF j = 1 THEN 0 ELSE Before(j)
      BY <3>1, OverallBounds
    <3> QED
      BY <1>8, <2>1, <3>2
  <2>4. i \in Nat /\ i >= 1
    BY <1>3, StageFacts
  <2>5. o <= x
    <3>1. CASE i = 1
      <4>1. o = 0
        BY <1>2, <1>7, <3>1, OverallIs
      <4>2. x = 0
        BY <2>1, <2>3, <3>1 DEF Before
      <4> QED
        BY <4>1, <4>2
    <3>2. CASE i # 1
      <4>1. j > 2 /\ j # 1 /\ j - 1 = i
        BY <2>1, <2>4, <3>2
      <4>2. x = m
        BY <1>9, <2>3, <4>1 DEF Before
      <4> QED
        BY <1>7, <1>9, <4>2
    <3> QED
      BY <3>1, <3>2
  <2> QED
    BY <1>1, <1>2, <1>3, <1>7, <1>8, <2>2, <2>5
<1>12. CASE e \in [status : {"failed"} \cup IF i = Len(Stages) THEN {"completed"} ELSE {}, progress : {0}]
  <2>1. e.status \in {"failed", "completed"} /\ e.progress = 0
    BY <1>12
  <2>2. e \in Event
    BY <1>6, <1>12 DEF Event, Finals
  <2>3. e.status = "completed" => x = 100
    <3>1. Stages[1] # "completed"
      BY StageFacts, JobPageAssumption DEF Finals
    <3> QED
      BY <1>8, <3>1 DEF OverallProgress
  <2>4. e.status = "completed" => o <= x
    BY <1>7, <1>9, <2>3
  <2> QED
    BY <1>1, <1>2, <1>3, <1>7, <1>8, <2>1, <2>2, <2>4
<1> QED
  BY <1>5, <1>10, <1>11, <1>12

\* The server goes on, answers a call, loses the job or closes it.
LEMMA JobKeeps ==
  ASSUME JobPageIInv, Advance \/ CallServed \/ JobGoes \/ SessionGoes
  PROVE  JobPageIInv'
<1>0. /\ JobShape /\ AskShape /\ CancelI /\ Newest \in Nat /\ Newest > 0 /\ Newest \in 1..Newest
  BY LogFacts DEF JobPageIInv
<1>1. UNCHANGED <<row, sub, told, away>>
  BY DEF Advance, CallServed, JobGoes, SessionGoes
<1>2. ASSUME UNCHANGED ask, job'.log = job.log
      PROVE  AskShape' /\ CancelI'
  BY <1>0, <1>2 DEF AskShape, CancelI, Newest, Status
<1>3. CASE Advance
  <2>1. PICK e \in NextEvents : job' = [job EXCEPT !.log = Append(@, e)]
    BY <1>3 DEF Advance
  <2>2. ~JobEnded /\ UNCHANGED ask
    BY <1>3 DEF Advance
  <2>3. e \in Event
    BY <2>2, NextIsFurther
  <2>4. DOMAIN job' = DOMAIN job /\ job'.log = Append(job.log, e)
    BY <1>0, <2>1 DEF JobShape
  <2>5. /\ Newest' = Newest + 1 /\ job'.log[Newest + 1] = e
        /\ \A i \in 1..Newest : job'.log[i] = job.log[i] /\ Status(i)' = Status(i)
    BY <1>0, <2>3, <2>4, Appended
  <2>6. AskShape' /\ CancelI'
    <3>1. ask.at # 0 => Status(ask.at)' = Status(ask.at)
      BY <1>0, <2>2, <2>5 DEF AskShape
    <3> QED
      BY <1>0, <2>2, <2>5, <3>1 DEF AskShape, CancelI
  <2>7. OverallGrows'
    <3>1. /\ (job.log[Newest].status)' = e.status /\ (job.log[Newest].progress)' = e.progress
          /\ (job.log[Newest - 1].status)' = Status(Newest)
          /\ (job.log[Newest - 1].progress)' = job.log[Newest].progress
      BY <1>0, <2>5 DEF Status
    <3>2. e.status \notin {"failed", "cancelled"} =>
            OverallProgress(Status(Newest), job.log[Newest].progress) <= OverallProgress(e.status, e.progress)
      BY <2>2, NextIsFurther
    <3> QED
      BY <3>1, <3>2 DEF OverallGrows, Status, OverallProgress, OrderOf
  <2> QED
    BY <1>1, <2>1, <2>2, <2>3, <2>6, <2>7, LogKeeps
<1>4. CASE CallServed
  <2>1. CASE ask.call = "cancel" /\ Readable /\ CanCancel(Status(Newest))
    <3>1. PICK e : e = [status |-> "cancelled", progress |-> job.log[Newest].progress]
      OBVIOUS
    <3>2. /\ job' = [job EXCEPT !.log = Append(@, e)]
          /\ ask' = [ask EXCEPT !.answer = "done", !.at = Newest + 1]
      BY <1>4, <2>1, <3>1 DEF CallServed
    <3>3. e \in Event /\ e.status = "cancelled"
      BY <1>0, <3>1, LogFacts DEF Event, Finals
    <3>4. ~JobEnded
      BY <2>1, EndsAreNoStages DEF CanCancel, JobEnded
    <3>5. DOMAIN job' = DOMAIN job /\ job'.log = Append(job.log, e)
      BY <1>0, <3>2 DEF JobShape
    <3>6. Newest' = Newest + 1 /\ job'.log[Newest + 1] = e
      BY <1>0, <3>3, <3>5, Appended
    <3>7. DOMAIN ask' = {"dialog", "call", "answer", "at"} /\ ask'.at = Newest + 1
      BY <1>0, <3>2 DEF AskShape
    <3>8. Status(Newest)' = "cancelled" /\ Status(ask.at)' = "cancelled"
      BY <3>3, <3>6, <3>7 DEF Status
    <3>9. AskShape' /\ CancelI'
      BY <1>0, <3>6, <3>7, <3>8 DEF AskShape, CancelI
    <3>10. OverallGrows'
      BY <3>8 DEF OverallGrows
    <3> QED
      BY <1>1, <3>2, <3>3, <3>4, <3>9, <3>10, LogKeeps
  <2>2. CASE ask.call = "delete" /\ Readable
    <3>1. job' = [job EXCEPT !.kept = FALSE] /\ ask' = [ask EXCEPT !.answer = "done"]
      BY <1>4, <2>2 DEF CallServed
    <3>2. DOMAIN job' = DOMAIN job /\ job'.log = job.log
      BY <1>0, <3>1 DEF JobShape
    <3>3. DOMAIN ask' = {"dialog", "call", "answer", "at"} /\ ask'.call = "delete" /\ ask'.at = ask.at
      BY <1>0, <2>2, <3>1 DEF AskShape
    <3>4. AskShape' /\ CancelI'
      BY <1>0, <3>2, <3>3 DEF AskShape, CancelI, Newest
    <3> QED
      BY <1>1, <2>2, <3>2, <3>4, AccessKeeps
  <2>3. CASE ~(ask.call = "cancel" /\ Readable /\ CanCancel(Status(Newest))) /\ ~(ask.call = "delete" /\ Readable)
    <3>1. UNCHANGED job /\ ask' = [ask EXCEPT !.answer = "refused"]
      BY <1>4, <2>3 DEF CallServed
    <3>2. DOMAIN ask' = {"dialog", "call", "answer", "at"} /\ ask'.answer = "refused" /\ ask'.at = ask.at
      BY <1>0, <3>1 DEF AskShape
    <3>3. AskShape' /\ CancelI'
      BY <1>0, <3>1, <3>2 DEF AskShape, CancelI, Newest
    <3>4. Readable' => Readable
      BY <3>1 DEF Readable
    <3> QED
      BY <1>1, <3>1, <3>3, <3>4, AccessKeeps
  <2> QED
    BY <2>1, <2>2, <2>3
<1>5. CASE JobGoes \/ SessionGoes
  <2>1. UNCHANGED ask /\ (job' = [job EXCEPT !.kept = FALSE] \/ job' = [job EXCEPT !.open = FALSE])
    BY <1>5 DEF JobGoes, SessionGoes
  <2>2. DOMAIN job' = DOMAIN job /\ job'.log = job.log /\ (Readable' => Readable)
    BY <1>0, <2>1 DEF JobShape, Readable
  <2> QED
    BY <1>1, <1>2, <2>1, <2>2, AccessKeeps
<1> QED
  BY <1>3, <1>4, <1>5

-----------------------------------------------------------------------------
(* The page of a job: events that arrive in one chunk                      *)

RowFields == {"at", "stems", "error", "fetch"}

\* An event is written, or the same status with more progress stands.
LEMMA WrittenIs ==
  ASSUME NEW r, NEW i, DOMAIN r = RowFields
  PROVE  /\ DOMAIN Written(r, i) = RowFields /\ Written(r, i).error = "none"
         /\ Written(r, i).fetch = r.fetch /\ Written(r, i).stems = r.stems
         /\ Written(r, i).at \in {r.at, i} /\ Status(Written(r, i).at) = Status(i)
<1>1. PICK w : w = Written(r, i)
  OBVIOUS
<1>2. \/ w = [r EXCEPT !.error = "none"] /\ Status(i) = Status(r.at)
      \/ w = [r EXCEPT !.at = i, !.error = "none"]
  BY <1>1 DEF Written
<1>3. CASE w = [r EXCEPT !.error = "none"] /\ Status(i) = Status(r.at)
  BY <1>1, <1>3 DEF RowFields
<1>4. CASE w = [r EXCEPT !.at = i, !.error = "none"]
  BY <1>1, <1>4 DEF RowFields
<1> QED
  BY <1>2, <1>3, <1>4

\* A set of naturals that is not empty has a least element.
LEMMA LeastIn ==
  ASSUME NEW T, T \subseteq Nat, T # {}
  PROVE  \E x \in T : \A y \in T : x <= y
<1>1. PICK x \in T : \A y \in T : ~(<<y, x>> \in OpToRel(<, Nat))
  BY NatLessThanWellFounded, WFMin
<1>2. \A y \in T : ~(y < x)
  BY <1>1 DEF OpToRel
<1> QED
  BY <1>2

Replays(a, n, g) == g = [i \in a..n |-> IF i = a THEN row ELSE Written(g[i - 1], i)]

LEMMA SomeReplay ==
  ASSUME NEW a \in Nat, NEW n \in Nat, a <= n
  PROVE  \E g : Replays(a, n, g)
<1> DEFINE T == {m \in a..n : ~\E g : Replays(a, m, g)}
<1>1. SUFFICES ASSUME T # {} PROVE FALSE
  <2>1. n \in a..n
    OBVIOUS
  <2> QED
    BY <1>1, <2>1
<1>2. PICK m \in T : \A y \in T : m <= y
  <2>1. T \subseteq Nat
    OBVIOUS
  <2> HIDE DEF T
  <2> QED
    BY <1>1, <2>1, LeastIn
<1>3. m \in a..n /\ ~\E g : Replays(a, m, g)
  BY <1>2
<1>4. CASE m = a
  <2>1. PICK g : g = [i \in a..m |-> row]
    OBVIOUS
  <2>2. g = [i \in a..m |-> IF i = a THEN row ELSE Written(g[i - 1], i)]
    BY <1>4, <2>1
  <2> QED
    BY <1>3, <2>2 DEF Replays
<1>5. CASE m # a
  <2>1. m - 1 \in a..n /\ m - 1 \notin T
    <3>1. m - 1 \in a..n /\ ~(m <= m - 1)
      BY <1>3, <1>5
    <3> HIDE DEF T
    <3> QED
      BY <1>2, <3>1
  <2>2. PICK g : Replays(a, m - 1, g)
    BY <2>1
  <2>3. g = [i \in a..m - 1 |-> IF i = a THEN row ELSE Written(g[i - 1], i)]
    BY <2>2 DEF Replays
  <2>4. PICK h : h = [i \in a..m |-> IF i = m THEN Written(g[m - 1], m) ELSE g[i]]
    OBVIOUS
  <2>5. \A i \in a..m : h[i] = IF i = a THEN row ELSE Written(h[i - 1], i)
    <3>1. TAKE i \in a..m
    <3>2. CASE i = m
      <4>1. i - 1 \in a..m /\ i - 1 # m /\ i # a
        BY <1>3, <1>5, <3>2
      <4>2. h[i - 1] = g[m - 1] /\ h[i] = Written(g[m - 1], m)
        BY <2>4, <3>2, <4>1
      <4> QED
        BY <3>2, <4>1, <4>2
    <3>3. CASE i # m
      <4>1. i \in a..m - 1 /\ (i # a => i - 1 \in a..m - 1 /\ i - 1 \in a..m /\ i - 1 # m)
        BY <1>3, <3>3
      <4>2. h[i] = g[i] /\ (i # a => h[i - 1] = g[i - 1])
        BY <2>4, <3>3, <4>1
      <4>3. g[i] = IF i = a THEN row ELSE Written(g[i - 1], i)
        BY <2>3, <4>1
      <4> QED
        BY <4>2, <4>3
    <3> QED
      BY <3>2, <3>3
  <2>6. h = [i \in a..m |-> IF i = a THEN row ELSE Written(h[i - 1], i)]
    BY <2>4, <2>5
  <2> QED
    BY <1>3, <2>6 DEF Replays
<1> QED
  BY <1>4, <1>5

LEMMA ReplayedIs ==
  ASSUME NEW n \in Nat, sub.last \in Nat, sub.last <= n
  PROVE  \A i \in sub.last..n :
           Replayed(n)[i] = IF i = sub.last THEN row ELSE Written(Replayed(n)[i - 1], i)
<1>1. Replayed(n) = CHOOSE g : Replays(sub.last, n, g)
  BY DEF Replayed, Replays
<1>2. Replays(sub.last, n, Replayed(n))
  BY <1>1, SomeReplay
<1> QED
  BY <1>2 DEF Replays

\* After an event the row has its status, whichever of the two is kept.
LEMMA ReplayedRow ==
  ASSUME JobPageIInv, row.at # 0, NEW n \in sub.last + 1..Newest
  PROVE  LET R == Replayed(n)[n] IN
         /\ DOMAIN R = RowFields /\ R.at \in 1..Newest /\ Status(R.at) = Status(n)
         /\ R.error = "none" /\ R.fetch = row.fetch /\ R.stems = row.stems
<1>0. /\ Newest \in Nat /\ sub.last \in 0..Newest /\ DOMAIN row = RowFields /\ row.at \in 1..Newest
  BY LogFacts DEF JobPageIInv, RowOK, SubOK, RowFields
<1>1. PICK a, g : a = sub.last /\ g = Replayed(n)
  OBVIOUS
<1>2. a \in Nat /\ n \in Nat /\ a < n /\ n <= Newest
  BY <1>0, <1>1
<1>3. \A i \in a..n : g[i] = IF i = a THEN row ELSE Written(g[i - 1], i)
  BY <1>1, <1>2, ReplayedIs
<1> DEFINE Good(i) == /\ DOMAIN g[i] = RowFields /\ g[i].at \in 1..Newest
                      /\ g[i].fetch = row.fetch /\ g[i].stems = row.stems
           T == {i \in a..n : ~Good(i)}
<1>4. ASSUME NEW i \in a..n, i # a, Good(i - 1)
      PROVE  Good(i) /\ Status(g[i].at) = Status(i) /\ g[i].error = "none"
  <2>1. g[i] = Written(g[i - 1], i) /\ i \in 1..Newest
    BY <1>0, <1>2, <1>3, <1>4
  <2>2. PICK w, q : w = g[i] /\ q = g[i - 1]
    OBVIOUS
  <2>3. DOMAIN q = RowFields /\ q.at \in 1..Newest /\ q.fetch = row.fetch /\ q.stems = row.stems /\ w = Written(q, i)
    BY <1>4, <2>1, <2>2
  <2>4. /\ DOMAIN w = RowFields /\ w.error = "none"
        /\ w.fetch = q.fetch /\ w.stems = q.stems
        /\ w.at \in {q.at, i} /\ Status(w.at) = Status(i)
    BY <2>3, WrittenIs
  <2> QED
    BY <2>1, <2>2, <2>3, <2>4
<1>5. T = {}
  <2>1. SUFFICES ASSUME T # {} PROVE FALSE
    OBVIOUS
  <2>2. T \subseteq Nat
    BY <1>2
  <2>3. PICK i \in T : \A y \in T : i <= y
    <3> HIDE DEF T
    <3> QED
      BY <2>1, <2>2, LeastIn
  <2>4. i \in a..n /\ ~Good(i)
    BY <2>3
  <2>5. CASE i = a
    <3>1. g[i] = row
      BY <1>3, <2>4, <2>5
    <3> QED
      BY <1>0, <2>4, <3>1
  <2>6. CASE i # a
    <3>1. i - 1 \in a..n /\ ~(i <= i - 1)
      BY <1>2, <2>4, <2>6
    <3>2. i - 1 \notin T
      <4> HIDE DEF T
      <4> QED
        BY <2>3, <3>1
    <3>3. Good(i - 1)
      BY <3>1, <3>2
    <3> HIDE DEF Good
    <3> QED
      BY <1>4, <2>4, <2>6, <3>3
  <2> QED
    BY <2>5, <2>6
<1>6. n \in a..n /\ n # a /\ n - 1 \in a..n
  BY <1>2
<1>7. Good(n - 1)
  <2> HIDE DEF Good
  <2> QED
    BY <1>5, <1>6
<1>8. Good(n) /\ Status(g[n].at) = Status(n) /\ g[n].error = "none"
  <2> HIDE DEF Good
  <2> QED
    BY <1>4, <1>6, <1>7
<1> QED
  BY <1>1, <1>8

\* The last active event up to one that arrives is itself, or the one before
\* the end of the job.
LEMMA LiveIs ==
  ASSUME JobPageIInv, sub.state = "open", NEW n \in sub.last + 1..Newest
  PROVE  /\ LiveAt(n) = IF IsActive(Status(n)) THEN n ELSE n - 1
         /\ ~IsActive(Status(n)) => n = Newest /\ n > 1 /\ JobEnded /\ IsActive(Status(n - 1))
<1>0. /\ Newest \in Nat /\ sub.last \in 0..Newest /\ OneEnd /\ SubOK(sub, told)
      /\ \A i \in 1..Newest : Status(i) \in StageSet \cup Finals
  BY LogFacts DEF JobPageIInv, SubOK
<1>1. PICK a, N : a = sub.last /\ N = Newest
  OBVIOUS
<1>2. a \in Nat /\ n \in Nat /\ a < n /\ n <= N /\ N \in Nat
  BY <1>0, <1>1
<1>3. PICK S : S = {i \in a + 1..n : IsActive(Status(i))}
  OBVIOUS
<1>4. LiveAt(n) = IF S = {} THEN sub.live ELSE CHOOSE i \in S : \A k \in S : k <= i
  BY <1>1, <1>3 DEF LiveAt
<1>5. \A i \in 1..N : IsActive(Status(i)) \/ (i = N /\ i > 1)
  BY <1>0, <1>1 DEF OneEnd
<1>6. ASSUME NEW m \in S, \A k \in S : k <= m
      PROVE  LiveAt(n) = m
  <2>1. \A i \in S : i \in Int
    BY <1>2, <1>3
  <2>2. \A i \in S : (\A k \in S : k <= i) => i = m
    BY <1>6, <2>1
  <2>3. S # {}
    BY <1>6
  <2> QED
    BY <1>4, <1>6, <2>2, <2>3
<1>7. CASE IsActive(Status(n))
  <2>1. n \in S /\ \A k \in S : k <= n
    BY <1>2, <1>3, <1>7
  <2> QED
    BY <1>6, <1>7, <2>1
<1>8. CASE ~IsActive(Status(n))
  <2>1. n \in 1..N
    BY <1>2
  <2>2. n = N /\ n > 1
    BY <1>5, <1>8, <2>1
  <2>3. n - 1 \in 1..N /\ n - 1 # N
    BY <1>2, <2>2
  <2>4. IsActive(Status(n - 1))
    BY <1>5, <2>3
  <2>5. JobEnded
    BY <1>0, <1>1, <1>8, <2>1, <2>2 DEF JobEnded, IsActive
  <2>6. LiveAt(n) = n - 1
    <3>1. CASE n - 1 > a
      <4>1. n - 1 \in S
        BY <1>2, <1>3, <2>4, <3>1
      <4>2. \A k \in S : k \in a + 1..n /\ k # n
        BY <1>3, <1>8
      <4>3. \A k \in S : k <= n - 1
        BY <1>2, <4>2
      <4> QED
        BY <1>6, <4>1, <4>3
    <3>2. CASE n - 1 = a
      <4>1. S = {}
        <5>1. \A k \in a + 1..n : k = n
          BY <1>2, <3>2
        <5> QED
          BY <1>3, <1>8, <5>1
      <4>2. LiveAt(n) = sub.live
        BY <1>4, <4>1
      <4>3. sub.last # 0
        BY <1>1, <1>2, <2>2, <3>2
      <4>4. sub.live = sub.last
        BY <1>0, <4>3 DEF SubOK
      <4> QED
        BY <1>1, <3>2, <4>2, <4>4
    <3> QED
      BY <1>2, <3>1, <3>2
  <2> QED
    BY <1>1, <1>8, <2>2, <2>4, <2>5, <2>6
<1> QED
  BY <1>7, <1>8

\* A chunk of the stream arrives, up to the newest event or a part of it.
LEMMA ArriveKeeps ==
  ASSUME JobPageIInv, ~away, sub.state = "open", NEW n \in sub.last + 1..Newest, Arrive(n)
  PROVE  JobPageIInv'
<1>0. /\ RowOK(row) /\ ToldOK(told) /\ SubOK(sub, told) /\ KeyI /\ AskShape /\ CancelI
      /\ Newest \in Nat /\ Newest > 0
      /\ \A i \in 1..Newest : Status(i) \in StageSet \cup Finals
  BY LogFacts DEF JobPageIInv
<1>1. sub.last \in Nat /\ n \in 1..Newest
  BY <1>0 DEF SubOK
<1>2. row.error # "server" /\ sub.key = KeyOf(row) /\ sub.key # "none"
  BY <1>0 DEF KeyI, NoSub, SubOK
<1>3. row.at # 0
  BY <1>2 DEF KeyOf
<1>4. PICK R, live : R = Replayed(n)[n] /\ live = LiveAt(n)
  OBVIOUS
<1>5. /\ DOMAIN R = RowFields /\ R.at \in 1..Newest /\ Status(R.at) = Status(n)
      /\ R.error = "none" /\ R.fetch = row.fetch /\ R.stems = row.stems
  BY <1>3, <1>4, ReplayedRow
<1>6. /\ live = IF IsActive(Status(n)) THEN n ELSE n - 1
      /\ ~IsActive(Status(n)) => n = Newest /\ n > 1 /\ JobEnded /\ IsActive(Status(n - 1))
  BY <1>4, LiveIs
<1>7. Status(n) \in Finals <=> ~IsActive(Status(n))
  BY <1>0, <1>1, EndsAreNoStages DEF IsActive
<1>8. PICK r, s, t :
        /\ r = IF Status(n) \in Finals THEN Refetched(R) ELSE R
        /\ s = [sub EXCEPT !.last = n, !.live = live, !.state = IF Status(n) \in Finals THEN "ended" ELSE "open"]
        /\ t = [event |-> n, frozen |-> IF Status(n) \in Finals THEN live ELSE told.frozen]
  OBVIOUS
<1>9. Rendered(r, s, t) /\ UNCHANGED <<job, ask, away>>
  BY <1>4, <1>8 DEF Arrive
<1>10. /\ DOMAIN s = {"state", "key", "last", "live"} /\ s.last = n /\ s.live = live /\ s.key = sub.key
       /\ s.state = IF Status(n) \in Finals THEN "ended" ELSE "open"
  BY <1>0, <1>8 DEF SubOK
<1>11. /\ DOMAIN t = {"event", "frozen"} /\ t.event = n
       /\ t.frozen = IF Status(n) \in Finals THEN live ELSE told.frozen
  BY <1>8
<1>12. /\ DOMAIN Sent = {"state", "tries", "at", "error"} /\ Sent.state = "sent"
       /\ Sent.at = 0 /\ Sent.error = "none"
  BY DEF Sent, NoFetch
<1>13. /\ DOMAIN r = RowFields /\ r.at = R.at /\ r.error = "none"
       /\ r.fetch = IF Status(n) \in Finals THEN Sent ELSE row.fetch
  BY <1>5, <1>8 DEF Refetched, RowFields
<1>14. RowOK(r)
  <2>1. r.at \in 0..Newest /\ r.at # 0 /\ Status(r.at) = Status(n)
    BY <1>0, <1>5, <1>13
  <2>2. CASE Status(n) \in Finals
    BY <1>0, <1>12, <1>13, <2>1, <2>2 DEF RowOK, Errors, RowFields
  <2>3. CASE Status(n) \notin Finals
    <3>1. Status(r.at) # "completed"
      BY <2>1, <2>3 DEF Finals
    <3> QED
      BY <1>0, <1>13, <2>1, <2>3, <3>1 DEF RowOK, Errors, RowFields
  <2> QED
    BY <2>2, <2>3
<1>15. ToldOK(t)
  <2>1. CASE Status(n) \in Finals
    BY <1>0, <1>1, <1>6, <1>7, <1>11, <2>1 DEF ToldOK
  <2>2. CASE Status(n) \notin Finals
    BY <1>0, <1>1, <1>11, <2>2 DEF ToldOK
  <2> QED
    BY <2>1, <2>2
<1>16. ASSUME KeyOf(r) = s.key PROVE SubOK(s, t)
  <2>1. n \in 0..Newest /\ n # 0
    BY <1>0, <1>1
  <2>2. CASE Status(n) \in Finals
    <3>1. Status(r.at) = Status(n) /\ ~IsActive(Status(r.at)) /\ r.at # 0
      BY <1>5, <1>7, <1>13, <2>2
    <3>2. s.key = Status(Newest) /\ JobEnded
      BY <1>6, <1>7, <1>16, <2>2, <3>1 DEF KeyOf
    <3>3. t.frozen # 0
      BY <1>1, <1>6, <1>7, <1>11, <2>2
    <3> QED
      BY <1>2, <1>6, <1>7, <1>10, <2>1, <2>2, <3>2, <3>3 DEF SubOK
  <2>3. CASE Status(n) \notin Finals
    BY <1>2, <1>6, <1>7, <1>10, <2>1, <2>3 DEF SubOK
  <2> QED
    BY <2>2, <2>3
<1>17. AskShape' /\ CancelI'
  BY <1>0, <1>9 DEF AskShape, CancelI, Newest, Status
<1>18. r.at = 0 => s.key = "none"
  BY <1>5, <1>13
<1> QED
  BY <1>9, <1>14, <1>15, <1>16, <1>17, <1>18, RenderKeeps

LEMMA JobPageKeeps ==
  ASSUME JobPageIInv, JobPageNext \/ UNCHANGED jobPageVars
  PROVE  JobPageIInv'
<1>0. Newest \in Nat /\ sub.last \in Nat
  BY LogFacts DEF JobPageIInv, SubOK
<1>1. CASE UNCHANGED jobPageVars
  <2>1. UNCHANGED <<job, row, sub, told, ask, away>>
    BY <1>1 DEF jobPageVars
  <2>2. /\ RowOK(row') /\ ToldOK(told') /\ SubOK(sub', told')
        /\ AskShape' /\ CancelI' /\ KeyI'
    BY <2>1 DEF JobPageIInv, AskShape, CancelI, KeyI, KeyOf, Newest, Status
  <2> QED
    BY <2>1, <2>2, PageKeeps
<1>2. CASE Receive
  <2>1. ~away /\ sub.state = "open" /\ sub.last < Newest /\ Arrive(Newest)
    BY <1>2 DEF Receive
  <2>2. Newest \in sub.last + 1..Newest
    BY <1>0, <2>1
  <2> QED
    BY <2>1, <2>2, ArriveKeeps
<1>3. CASE ReceivePart
  <2>1. PICK n \in sub.last + 1..Newest - 1 : Arrive(n)
    BY <1>3 DEF ReceivePart
  <2>2. ~away /\ sub.state = "open" /\ n \in sub.last + 1..Newest
    BY <1>0, <1>3 DEF ReceivePart
  <2> QED
    BY <2>1, <2>2, ArriveKeeps
<1>4. CASE JobPageNext /\ ~Receive /\ ~ReceivePart
  BY <1>4, StreamKeeps, FetchKeeps, LandingKeeps, UserKeeps, CallLandsKeeps, JobKeeps DEF JobPageNext
<1> QED
  BY <1>1, <1>2, <1>3, <1>4

-----------------------------------------------------------------------------
(* The page of a job: what it shows                                        *)

LEMMA OverallInRange ==
  ASSUME NEW status, NEW p \in Marks, IsActive(status) \/ status = "completed"
  PROVE  OverallProgress(status, p) \in 0..100
<1>1. CASE status = "completed"
  <2>1. Stages[1] # "completed"
    BY StageFacts, JobPageAssumption DEF Finals
  <2> QED
    BY <1>1, <2>1 DEF OverallProgress
<1>2. CASE IsActive(status)
  <2>1. PICK i \in DOMAIN Stages : status = Stages[i]
    BY <1>2 DEF IsActive, StageSet
  <2>2. p \in 0..100 /\ p <= p
    <3>1. p \in 0..100
      BY StageFacts
    <3> QED
      BY <3>1
  <2>3. PICK o : o = OverallProgress(status, p)
    OBVIOUS
  <2>4. PICK m \in 0..100 : m = EndsAt[Stages[i]]
    BY StageFacts
  <2>5. o \in 0..m
    BY <2>1, <2>2, <2>3, <2>4, OverallBounds
  <2> QED
    BY <2>3, <2>4, <2>5
<1> QED
  BY <1>1, <1>2

\* The screens of a job: nothing is wrong, there is a row, the page is open.
LEMMA JobScreens ==
  ASSUME JobPageIInv,
         Screen \notin {"loading", "away", "notfound", "signin", "boundary", "unreachable"}
  PROVE  ~away /\ row.error = "none" /\ row.at # 0
<1>1. row.error \in Errors
  BY DEF JobPageIInv, RowOK
<1>2. ~away
  BY DEF Screen
<1>3. row.error = "none"
  <2>1. SUFFICES ASSUME row.error # "none" PROVE FALSE
    OBVIOUS
  <2>2. Screen = ErrorScreenOf(row.error)
    BY <1>2, <2>1 DEF Screen
  <2>3. ErrorScreenOf(row.error) \in {"notfound", "signin", "boundary", "unreachable"}
    BY <1>1, <2>1 DEF Errors, ErrorScreenOf
  <2> QED
    BY <2>2, <2>3
<1>4. row.at # 0
  BY <1>2, <1>3 DEF Screen
<1> QED
  BY <1>2, <1>3, <1>4

LEMMA PercentInRange ==
  ASSUME JobPageIInv, row.at # 0
  PROVE  Percent \in 0..100
<1>0. /\ Newest \in Nat /\ row.at \in 1..Newest /\ ToldOK(told)
      /\ \A i \in 1..Newest : Status(i) \in StageSet \cup Finals /\ job.log[i].progress \in Marks
  BY LogFacts DEF JobPageIInv, RowOK
<1>1. CASE Status(row.at) \in {"failed", "cancelled"}
  <2>1. told.frozen # 0 => told.frozen \in 1..Newest /\ IsActive(Status(told.frozen))
    BY <1>0 DEF ToldOK
  <2>2. IsActive(StoppedAt)
    <3>1. 2 \in DOMAIN Stages
      BY StageFacts
    <3>2. Stages[2] \in StageSet
      BY <3>1, StageFacts
    <3> QED
      BY <2>1, <3>2 DEF StoppedAt, IsActive
  <2>3. PICK k \in 1..Newest : k = IF told.frozen = 0 THEN row.at ELSE told.frozen
    BY <1>0, <2>1
  <2>4. Percent = OverallProgress(StoppedAt, job.log[k].progress)
    BY <1>1, <2>3 DEF Percent
  <2>5. job.log[k].progress \in Marks
    BY <1>0
  <2> QED
    BY <2>2, <2>4, <2>5, OverallInRange
<1>2. CASE Status(row.at) \notin {"failed", "cancelled"}
  <2>1. Percent = OverallProgress(Status(row.at), job.log[row.at].progress)
    BY <1>2 DEF Percent
  <2>2. job.log[row.at].progress \in Marks /\ (IsActive(Status(row.at)) \/ Status(row.at) = "completed")
    BY <1>0, <1>2 DEF IsActive, Finals
  <2> QED
    BY <2>1, <2>2, OverallInRange
<1> QED
  BY <1>1, <1>2

\* The page of a job keeps its promises, and shows the end once it is quiet.
LEMMA JobPageIsRight ==
  ASSUME JobPageIInv
  PROVE  JobPageInv /\ EndIsShown
<1>0. /\ RowOK(row) /\ ToldOK(told) /\ SubOK(sub, told) /\ KeyI /\ OneEnd /\ OverallGrows
      /\ Newest \in Nat /\ Newest > 0
      /\ \A i \in 1..Newest : Status(i) \in StageSet \cup Finals /\ job.log[i].progress \in Marks
  BY LogFacts DEF JobPageIInv
<1>1. sub.live \in 0..sub.last /\ sub.last \in 0..Newest
  <2>1. PICK v, n : v = sub.live /\ n = sub.last
    OBVIOUS
  <2>2. n \in Nat /\ (n = 0 => v = 0) /\ (n # 0 => v \in {n, n - 1}) /\ n \in 0..Newest
    BY <1>0, <2>1 DEF SubOK
  <2>3. v \in 0..n
    BY <2>2
  <2> QED
    BY <2>1, <2>2, <2>3
<1>2. Screen \notin {"loading", "away", "notfound", "signin", "boundary", "unreachable"} => Percent \in 0..100
  BY JobScreens, PercentInRange
<1>3. JobPageTypeOK
  <2>1. job.log[Newest].status \in StageSet \cup Finals /\ job.log[Newest].progress \in Marks
    BY <1>0 DEF Status
  <2> QED
    BY <1>0, <1>1, <1>2, <2>1 DEF JobPageTypeOK, RowOK, ToldOK, SubOK, Errors
<1>4. FrozenIsLast
  BY <1>0 DEF FrozenIsLast, ToldOK
<1>5. ASSUME JobEnded, Readable, AtRest PROVE ShowsTheEnd
  <2>1. row.fetch.state = "none" /\ sub.state # "connecting" /\ (sub.state = "open" => sub.last = Newest)
    BY <1>5 DEF AtRest
  <2>2. SUFFICES ASSUME Screen \notin {"away", "notfound", "signin", "boundary", "unreachable"}
                 PROVE  ShowsTheEnd
    BY DEF ShowsTheEnd
  <2>3. ~away
    BY <2>2 DEF Screen
  <2>4. row.error = "none"
    <3>1. SUFFICES ASSUME row.error # "none" PROVE FALSE
      OBVIOUS
    <3>2. Screen = ErrorScreenOf(row.error)
      BY <2>3, <3>1 DEF Screen
    <3>3. ErrorScreenOf(row.error) \in {"notfound", "signin", "boundary", "unreachable"}
      BY <1>0, <3>1 DEF RowOK, Errors, ErrorScreenOf
    <3> QED
      BY <2>2, <3>2, <3>3
  <2>5. row.at # 0 /\ (Status(row.at) = "completed" => row.stems)
    BY <1>0, <2>1, <2>4 DEF RowOK
  <2>6. Screen = Panel
    BY <2>3, <2>4, <2>5 DEF Screen
  <2>7. sub.key = KeyOf(row) /\ row.at \in 1..Newest
    BY <1>0, <2>3, <2>4, <2>5 DEF KeyI, RowOK
  <2>8. KeyOf(row) # "none"
    <3>1. IsActive(Status(row.at)) \/ Status(row.at) \in Finals
      BY <1>0, <2>7 DEF IsActive
    <3> QED
      BY <2>5, <3>1, EndsAreNoStages DEF KeyOf
  <2>9. sub.state # "open"
    <3>1. ~IsActive(Status(Newest))
      BY <1>5, EndsAreNoStages DEF JobEnded
    <3> QED
      BY <1>0, <2>1, <3>1 DEF SubOK
  <2>10. sub.key = Status(Newest) /\ told.frozen # 0
    <3>1. sub.state = "ended"
      BY <1>0, <1>5, <2>1, <2>7, <2>8, <2>9 DEF SubOK
    <3> QED
      BY <1>0, <3>1 DEF SubOK
  <2>11. Status(row.at) \in Finals /\ ~IsActive(Status(row.at))
    <3>1. Status(Newest) \in Finals /\ Status(Newest) # "active"
      BY <1>5, EndsAreNoStages DEF JobEnded
    <3>2. Status(row.at) = Status(Newest)
      BY <2>5, <2>7, <2>10, <3>1 DEF KeyOf
    <3> QED
      BY <3>1, <3>2, EndsAreNoStages
  <2>12. CASE Status(row.at) = "completed"
    BY <2>5, <2>6, <2>11, <2>12 DEF Panel, ShowsTheEnd
  <2>13. CASE Status(row.at) \in {"failed", "cancelled"}
    BY <2>6, <2>10, <2>11, <2>13 DEF Panel, ShowsTheEnd
  <2> QED
    BY <2>11, <2>12, <2>13 DEF Finals
<1> QED
  BY <1>0, <1>3, <1>4, <1>5 DEF JobPageInv, EndIsShown

-----------------------------------------------------------------------------
(* The pages together                                                      *)

\* The page of a job says truly how far the job is and where it stopped, for
\* any log of it and any replay of its events; claims, isolated documents and
\* the sign-in dialog keep together for any claims; and no notification is
\* stuck or kept waiting beside a free place (JobDetail.tsx:61-86,
\* lib/stages.ts, AuthDialog.tsx, toast.tsx).
THEOREM PagesCorrect == PagesSpec => []PagesInv
<1>1. PagesInit => JobPageIInv /\ SessionIInv /\ ToastsIInv
  BY JobStarts, SessionStarts, ToastsStart
<1>2. JobPageIInv /\ SessionIInv /\ ToastsIInv /\ [PagesNext]_pagesVars => (JobPageIInv /\ SessionIInv /\ ToastsIInv)'
  BY PagesMove, JobPageKeeps, SessionKeeps, ToastsKeep
<1>3. JobPageIInv /\ SessionIInv /\ ToastsIInv => PagesInv
  BY JobPageIsRight, SessionIsRight DEF PagesInv, ToastsInv, ToastsIInv
<1> QED
  BY <1>1, <1>2, <1>3, PTL DEF PagesSpec

\* A page that has nothing under way shows what the server has: the end of the
\* job with its stems or the stage where it stopped, the jobs without those
\* that were deleted, the users, and the name that was saved, for any jobs,
\* users and names (JobDetail.tsx, Jobs.tsx, Users.tsx, Profile.tsx).
THEOREM QuietPagesTellTheTruth == PagesSpec => []QuietPagesAreTrue
<1> DEFINE I == JobPageIInv /\ ListIInv /\ AdminIInv /\ TableIInv /\ ProfileIInv
<1>1. PagesInit => I
  BY JobStarts, ListStarts, AdminStarts, TableStarts, ProfileStarts
<1>2. I /\ [PagesNext]_pagesVars => I'
  BY PagesMove, JobPageKeeps, ListKeeps, AdminKeeps, TableKeeps, ProfileKeeps
<1>3. ProfileIInv => SavedEverywhere
  BY DEF ProfileIInv, SavedEverywhere
<1>4. I => QuietPagesAreTrue
  BY <1>3, JobPageIsRight, ListIsRight, TableIsRight DEF QuietPagesAreTrue
<1> QED
  BY <1>1, <1>2, <1>4, PTL DEF PagesSpec

=============================================================================
