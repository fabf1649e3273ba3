------------------------------ MODULE Session ------------------------------
(***************************************************************************)
(* Signing in on the web (web/src/auth, routes/guards.tsx, lib/isolation   *)
(* and lib/claim-tokens): the documents of one tab, the cached user, the   *)
(* sign-in dialog and the claiming of the jobs this browser made without   *)
(* an account.  A job page is a document of its own: it is isolated, for   *)
(* the player, and there the Google popup cannot open.                     *)
(* Fault kinds: "network" (a request or its answer is lost), "auth" (the   *)
(* session ends), "gone" (a job is removed), "gis" (Google's script fails).*)
(***************************************************************************)
EXTENDS Integers, Faults

CONSTANT Mine \* the jobs this browser may make without an account

VARIABLES srv,     (* the server: session, account, owner of each job       *)
          claims,  (* localStorage: the jobs whose claim token is kept      *)
          doc,     (* the document: route, isolated, ?signin, ?next, asked  *)
          me,      (* the query of the user: user, loading, fetch           *)
          dlg,     (* the dialog: open, after, mode, banner, gis, popup     *)
          login,   (* the request of the dialog and its answer              *)
          claiming (* the claim of each job                                 *)

sessionVars == <<srv, claims, doc, me, dlg, login, claiming>>

Routes == {"home", "jobs", "job", "profile", "admin", "pending"}
Guarded == {"profile", "admin"}

Closed == [open |-> FALSE, after |-> "none", mode |-> "signin", banner |-> "none",
           gis |-> "off", popup |-> FALSE]
NoLogin == [via |-> "none", answer |-> "none"]
NoClaims == [j \in Mine |-> "none"]
Busy == login.via # "none"

-----------------------------------------------------------------------------
(* Documents                                                               *)

\* Mutant of CrossesIsolation: only the way in is a full load.
CrossesInward(route) == (route = "job") /\ ~doc.isolated

NeedsIsolation(route) == route = "job"
CrossesIsolation(route) == NeedsIsolation(route) # doc.isolated

\* A full load: the server isolates a job page, and nothing in memory stays.
Loaded(route, signin, next) ==
  /\ doc' = [route |-> route, isolated |-> NeedsIsolation(route), signin |-> signin,
             next |-> next, asked |-> FALSE]
  /\ me' = [user |-> "none", loading |-> TRUE, fetch |-> "sent"]
  /\ dlg' = Closed /\ login' = NoLogin /\ claiming' = NoClaims

\* useAppNavigate and AppLink: a full load across the boundary.
Gone(route) ==
  IF CrossesIsolation(route) THEN Loaded(route, FALSE, FALSE)
  ELSE doc' = [doc EXCEPT !.route = route, !.asked = FALSE] /\ UNCHANGED <<me, login, claiming>>

SessionInit ==
  /\ srv = [session |-> FALSE, account |-> "active", owner |-> [j \in Mine |-> "nobody"]]
  /\ claims = {}
  /\ doc = [route |-> "home", isolated |-> FALSE, signin |-> FALSE, next |-> FALSE, asked |-> FALSE]
  /\ me = [user |-> "none", loading |-> TRUE, fetch |-> "sent"]
  /\ dlg = Closed /\ login = NoLogin /\ claiming = NoClaims

\* Pages a visitor reaches by a link; the header drops its links on "pending",
\* whose own buttons lead home and, for a user, to the jobs.
Linked(route) ==
  CASE route = "job" -> doc.route = "jobs"
    [] route \in Guarded -> me.user # "none" /\ doc.route # "pending"
    [] route = "pending" -> FALSE
    [] OTHER -> doc.route # "pending" \/ route = "home" \/ me.user # "none"

Navigate(route) ==
  /\ ~dlg.open /\ route # doc.route /\ Linked(route)
  /\ Gone(route)
  /\ IF CrossesIsolation(route) THEN TRUE ELSE UNCHANGED dlg
  /\ UNCHANGED <<srv, claims, faults>>

\* A typed address, a bookmark or a reload.
Open(route) ==
  /\ Loaded(route, FALSE, FALSE)
  /\ UNCHANGED <<srv, claims, faults>>

-----------------------------------------------------------------------------
(* The user                                                                *)

MeServed ==
  /\ me.fetch = "sent"
  /\ me' = [me EXCEPT !.fetch = IF srv.session THEN "user" ELSE "nobody"]
  /\ UNCHANGED <<srv, claims, doc, dlg, login, claiming, faults>>

\* Any answer ends the loading; a failed one keeps the user that was there.
MeLands ==
  /\ me.fetch \in {"user", "nobody", "failed"}
  /\ me' = [user |-> CASE me.fetch = "user" -> "user" [] me.fetch = "nobody" -> "none" [] OTHER -> me.user,
            loading |-> FALSE, fetch |-> "none"]
  /\ UNCHANGED <<srv, claims, doc, dlg, login, claiming, faults>>

MeLost ==
  /\ me.fetch = "sent"
  /\ Fault("network")
  /\ me' = [me EXCEPT !.fetch = "failed"]
  /\ UNCHANGED <<srv, claims, doc, dlg, login, claiming>>

\* The window's focus asks again whether the user is still signed in.
Focus ==
  /\ me.user # "none" /\ me.fetch = "none"
  /\ me' = [me EXCEPT !.fetch = "sent"]
  /\ UNCHANGED <<srv, claims, doc, dlg, login, claiming, faults>>

\* Logging out: the user is dropped whatever the server answered; the header
\* goes on to the landing page only if it did answer.
SignOut ==
  /\ me.user # "none" /\ ~dlg.open
  /\ \/ /\ srv' = [srv EXCEPT !.session = FALSE]
        /\ IF CrossesIsolation("home") THEN Loaded("home", FALSE, FALSE)
           ELSE /\ doc' = [doc EXCEPT !.route = "home", !.asked = FALSE]
                /\ me' = [me EXCEPT !.user = "none"]
                /\ UNCHANGED <<dlg, login, claiming>>
        /\ UNCHANGED faults
     \/ /\ Fault("network")
        /\ \E kept \in BOOLEAN : srv' = [srv EXCEPT !.session = @ /\ kept]
        /\ me' = [me EXCEPT !.user = "none"]
        /\ UNCHANGED <<doc, dlg, login, claiming>>
  /\ UNCHANGED claims

-----------------------------------------------------------------------------
(* The dialog                                                              *)

\* Mutant of SignInOpened: the dialog also opens on a job page.
OpenedHere(after) ==
  /\ dlg' = [Closed EXCEPT !.open = TRUE, !.after = after, !.gis = "loading"]
  /\ UNCHANGED <<doc, me, login, claiming>>

\* openSignIn: a job page hands off to the list, with its own address as next.
SignInOpened(after) ==
  IF doc.isolated THEN Loaded("jobs", TRUE, TRUE)
  ELSE /\ dlg' = [Closed EXCEPT !.open = TRUE, !.after = after, !.gis = "loading"]
       /\ UNCHANGED <<doc, me, login, claiming>>

\* The header, the lists and the notices have a link to it; the page of an
\* approved account goes on to the jobs.
SignIn ==
  /\ me.user = "none" /\ ~dlg.open
  /\ SignInOpened(IF doc.route = "pending" THEN "jobs" ELSE "none")
  /\ UNCHANGED <<srv, claims, faults>>

\* The list takes the hand-off once, and goes straight back for a user.
TakeHandOff ==
  /\ doc.route = "jobs" /\ doc.signin /\ ~me.loading /\ ~doc.asked
  /\ IF me.user # "none" /\ doc.next THEN Loaded("job", FALSE, FALSE)
     ELSE /\ doc' = [doc EXCEPT !.signin = FALSE, !.next = FALSE, !.asked = TRUE]
          /\ dlg' = IF me.user # "none" THEN dlg
                    ELSE [Closed EXCEPT !.open = TRUE, !.gis = "loading",
                                        !.after = IF doc.next THEN "job" ELSE "none"]
          /\ UNCHANGED <<me, login, claiming>>
  /\ UNCHANGED <<srv, claims, faults>>

\* A guarded page prompts once for each visit.
Prompt ==
  /\ doc.route \in Guarded /\ ~me.loading /\ me.user = "none" /\ ~doc.asked /\ ~dlg.open
  /\ doc' = [doc EXCEPT !.asked = TRUE]
  /\ dlg' = [Closed EXCEPT !.open = TRUE, !.gis = "loading"]
  /\ UNCHANGED <<srv, claims, me, login, claiming, faults>>

\* The user of this browser is no administrator.
Redirect ==
  /\ doc.route = "admin" /\ me.user # "none"
  /\ doc' = [doc EXCEPT !.route = "jobs", !.asked = FALSE]
  /\ UNCHANGED <<srv, claims, me, dlg, login, claiming, faults>>

\* Mutant of Offered: the dialog is not locked.
OfferedAlways(control) == dlg.open /\ (control = "google" => dlg.gis = "ready")

\* What the dialog lets the visitor do; it is locked while it is busy.
Offered(control) ==
  /\ dlg.open /\ ~Busy
  /\ CASE control = "google" -> dlg.mode = "signin" /\ dlg.gis = "ready"
       [] control = "fallback" -> dlg.mode = "signin" /\ dlg.gis \in {"off", "failed"}
       [] control = "approval" -> dlg.banner = "not-approved"
       [] OTHER -> TRUE

\* The button is drawn once the script is there; it is asked for again by
\* the next opening.
GisLoads ==
  /\ dlg.open /\ dlg.gis = "loading" /\ dlg.mode = "signin"
  /\ \/ dlg' = [dlg EXCEPT !.gis = "ready"] /\ UNCHANGED faults
     \/ Fault("gis") /\ dlg' = [dlg EXCEPT !.gis = "failed"]
  /\ UNCHANGED <<srv, claims, doc, me, login, claiming>>

SwitchMode ==
  /\ Offered("mode")
  /\ dlg' = [dlg EXCEPT !.mode = IF @ = "signin" THEN "register" ELSE "signin", !.banner = "none",
                        !.gis = IF dlg.mode = "register" THEN "loading" ELSE @]
  /\ UNCHANGED <<srv, claims, doc, me, login, claiming, faults>>

GoogleFallback ==
  /\ Offered("fallback") /\ dlg.banner = "none"
  /\ dlg' = [dlg EXCEPT !.banner = IF dlg.gis = "failed" THEN "google-unavailable" ELSE "google-soon"]
  /\ UNCHANGED <<srv, claims, doc, me, login, claiming, faults>>

Dismiss ==
  /\ Offered("close")
  /\ dlg' = [Closed EXCEPT !.popup = dlg.popup]
  /\ UNCHANGED <<srv, claims, doc, me, login, claiming, faults>>

SeeApproval ==
  /\ Offered("approval")
  /\ dlg' = [Closed EXCEPT !.popup = dlg.popup]
  /\ doc' = [doc EXCEPT !.route = "pending"]
  /\ UNCHANGED <<srv, claims, me, login, claiming, faults>>

Submit ==
  /\ Offered("submit")
  /\ login' = [via |-> IF dlg.mode = "signin" THEN "password" ELSE "register", answer |-> "none"]
  /\ dlg' = [dlg EXCEPT !.banner = "none"]
  /\ UNCHANGED <<srv, claims, doc, me, claiming, faults>>

\* Google's popup may answer after the dialog was closed.
AskGoogle == Offered("google") /\ ~dlg.popup /\ dlg' = [dlg EXCEPT !.popup = TRUE]
               /\ UNCHANGED <<srv, claims, doc, me, login, claiming, faults>>

Credential ==
  /\ dlg.popup
  /\ dlg' = [dlg EXCEPT !.popup = FALSE, !.banner = IF Busy THEN @ ELSE "none"]
  /\ login' = IF Busy THEN login ELSE [via |-> "google", answer |-> "none"]
  /\ UNCHANGED <<srv, claims, doc, me, claiming, faults>>

LoginServed ==
  /\ Busy /\ login.answer = "none"
  /\ \E answer \in {"wrong", "pending", "ok"} :
       /\ answer = "pending" <=> (login.via # "register" /\ srv.account = "pending")
       /\ answer = "wrong" => login.via # "google"
       /\ login' = [login EXCEPT !.answer = answer]
       /\ srv' = [srv EXCEPT !.session = @ \/ (answer = "ok" /\ login.via # "register"),
                             !.account = IF answer = "ok" /\ login.via = "register" THEN "pending" ELSE @]
  /\ UNCHANGED <<claims, doc, me, dlg, claiming, faults>>

LoginLost ==
  /\ Busy /\ login.answer \in {"none", "ok"}
  /\ Fault("network")
  /\ login' = [login EXCEPT !.answer = "lost"]
  /\ UNCHANGED <<srv, claims, doc, me, dlg, claiming>>

\* onSignedIn, first half: the user is there and every token is handed in.
SignedIn ==
  /\ login.answer = "ok" /\ login.via # "register"
  /\ me' = [me EXCEPT !.user = "user", !.loading = FALSE]
  /\ login' = [login EXCEPT !.answer = "claiming"]
  /\ claiming' = [j \in Mine |-> IF j \in claims THEN "sent" ELSE "none"]
  /\ UNCHANGED <<srv, claims, doc, dlg, faults>>

\* pendingApproval: a new account, or Google's answer for one that waits.
WaitsForApproval ==
  /\ \/ login.via = "register" /\ login.answer = "ok"
     \/ login.via = "google" /\ login.answer = "pending"
  /\ login' = NoLogin /\ dlg' = [Closed EXCEPT !.popup = dlg.popup]
  /\ doc' = [doc EXCEPT !.route = "pending"]
  /\ UNCHANGED <<srv, claims, me, claiming, faults>>

BannerOf(answer) ==
  CASE answer = "wrong" -> "wrong" [] answer = "pending" -> "not-approved" [] OTHER -> "error"

Refused ==
  /\ login.answer \in {"wrong", "lost"} \/ (login.answer = "pending" /\ login.via = "password")
  /\ login' = NoLogin
  /\ dlg' = IF dlg.open THEN [dlg EXCEPT !.banner = BannerOf(login.answer)] ELSE dlg
  /\ UNCHANGED <<srv, claims, doc, me, claiming, faults>>

-----------------------------------------------------------------------------
(* Claiming                                                                *)

ClaimServed(j) ==
  /\ claiming[j] = "sent"
  /\ claiming' = [claiming EXCEPT ![j] =
       CASE ~srv.session -> "unauthorized" [] srv.session /\ srv.owner[j] = "anon" -> "claimed" [] OTHER -> "dead"]
  /\ srv' = [srv EXCEPT !.owner[j] = IF srv.session /\ @ = "anon" THEN "me" ELSE @]
  /\ UNCHANGED <<claims, doc, me, dlg, login, faults>>

ClaimLost(j) ==
  /\ claiming[j] \in {"sent", "claimed"}
  /\ Fault("network")
  /\ claiming' = [claiming EXCEPT ![j] = "lost"]
  /\ UNCHANGED <<srv, claims, doc, me, dlg, login>>

\* Mutant of Forgets: every answer uses the token up.
ForgetsAll(answer) == answer # "none"

\* A token goes once its job is the account's, or there is none to claim.
Forgets(answer) == answer \in {"claimed", "dead"}

ClaimLands(j) ==
  /\ claiming[j] \notin {"none", "sent", "settled"}
  /\ claims' = IF Forgets(claiming[j]) THEN claims \ {j} ELSE claims
  /\ claiming' = [claiming EXCEPT ![j] = "settled"]
  /\ UNCHANGED <<srv, doc, me, dlg, login, faults>>

\* onSignedIn, second half: the dialog closes and what it was opened for goes on.
Followed(after) ==
  IF after = "job" THEN Loaded("job", FALSE, FALSE)
  ELSE /\ dlg' = [Closed EXCEPT !.popup = dlg.popup] /\ login' = NoLogin /\ claiming' = NoClaims
       /\ doc' = IF after = "jobs" THEN [doc EXCEPT !.route = "jobs"] ELSE doc
       /\ UNCHANGED me

AllClaimed ==
  /\ login.answer = "claiming"
  /\ \A j \in Mine : claiming[j] \in {"none", "settled"}
  /\ Followed(dlg.after)
  /\ UNCHANGED <<srv, claims, faults>>

\* The signed-out list asks for every job it has a token of, and forgets
\* those that the server does not show it.
AnonymousList(j) ==
  /\ doc.route = "jobs" /\ ~me.loading /\ me.user = "none" /\ j \in claims
  /\ srv.owner[j] = "gone" \/ (srv.owner[j] = "me" /\ ~srv.session)
  /\ claims' = claims \ {j}
  /\ UNCHANGED <<srv, doc, me, dlg, login, claiming, faults>>

-----------------------------------------------------------------------------
(* The server                                                              *)

\* A job made on the landing page belongs to the session, or to its token.
MakeJob(j) ==
  /\ doc.route = "home" /\ ~dlg.open /\ srv.owner[j] = "nobody"
  /\ srv' = [srv EXCEPT !.owner[j] = IF srv.session THEN "me" ELSE "anon"]
  /\ claims' = IF srv.session THEN claims ELSE claims \cup {j}
  /\ UNCHANGED <<doc, me, dlg, login, claiming, faults>>

Expire(j) ==
  /\ srv.owner[j] \in {"anon", "me"} /\ Fault("gone")
  /\ srv' = [srv EXCEPT !.owner[j] = "gone"]
  /\ UNCHANGED <<claims, doc, me, dlg, login, claiming>>

EndSession ==
  /\ srv.session /\ Fault("auth")
  /\ srv' = [srv EXCEPT !.session = FALSE]
  /\ UNCHANGED <<claims, doc, me, dlg, login, claiming>>

Approve ==
  /\ srv.account = "pending"
  /\ srv' = [srv EXCEPT !.account = "active"]
  /\ UNCHANGED <<claims, doc, me, dlg, login, claiming, faults>>

-----------------------------------------------------------------------------
SessionNext ==
  \/ \E route \in Routes : Navigate(route) \/ Open(route)
  \/ MeServed \/ MeLands \/ MeLost \/ Focus \/ SignOut
  \/ SignIn \/ TakeHandOff \/ Prompt \/ Redirect
  \/ GisLoads \/ SwitchMode \/ GoogleFallback \/ Dismiss \/ SeeApproval
  \/ Submit \/ AskGoogle \/ Credential \/ LoginServed \/ LoginLost
  \/ SignedIn \/ WaitsForApproval \/ Refused \/ AllClaimed
  \/ \E j \in Mine : ClaimServed(j) \/ ClaimLost(j) \/ ClaimLands(j)
  \/ \E j \in Mine : AnonymousList(j) \/ MakeJob(j) \/ Expire(j)
  \/ EndSession \/ Approve

-----------------------------------------------------------------------------
(* Properties                                                              *)

\* Types, and: the dialog is locked for as long as it signs someone in.
SessionTypeOK ==
  /\ srv \in [session : BOOLEAN, account : {"active", "pending"},
              owner : [Mine -> {"nobody", "anon", "me", "gone"}]]
  /\ claims \subseteq Mine
  /\ doc \in [route : Routes, isolated : BOOLEAN, signin : BOOLEAN, next : BOOLEAN, asked : BOOLEAN]
  /\ me.user \in {"none", "user"} /\ me.loading \in BOOLEAN
  /\ login.via \in {"none", "password", "google", "register"}
  /\ login.via \in {"password", "register"} => dlg.open
  /\ ~Busy => claiming = NoClaims

\* A job this browser made without an account keeps its claim token, the
\* only proof of it, until the job belongs to the account or is gone,
\* whatever is lost in between (lib/claim-tokens.ts:1-6).
ClaimIsKept == \A j \in Mine : srv.owner[j] = "anon" => j \in claims

\* The page of a job, and no other, is an isolated document
\* (lib/isolation.ts:1-9), through links, hand-offs and returns.
JobPageIsIsolated == doc.isolated <=> doc.route = "job"

\* The sign-in dialog is never open where Google's popup cannot be.
DialogCanPopUp == dlg.open => ~doc.isolated

\* Claims, documents and the dialog keep together through hand-offs, sign-ins
\* and lost answers.
SessionInv == SessionTypeOK /\ ClaimIsKept /\ JobPageIsIsolated /\ DialogCanPopUp
=============================================================================
