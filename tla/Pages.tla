------------------------------- MODULE Pages -------------------------------
(***************************************************************************)
(* The web application, one visit at a time: the page of a job, signing in *)
(* and out, the landing page, the list of jobs, the users, the profile and *)
(* the notifications.  The pages share a session and a document but no     *)
(* state of their own, so a visit runs one of them with the others at rest.*)
(***************************************************************************)
EXTENDS JobPage, Session, Upload, JobsList, Admin, Profile, Toasts

CONSTANT VisitFaults \* bound on the faults of a visit to each page

ASSUME PagesAssumption == \A page \in DOMAIN VisitFaults : VisitFaults[page] \in 0..MaxFaults

VARIABLE visit \* the page that is visited

pagesVars == <<visit, faults, jobPageVars, sessionVars, uploadVars, listVars, adminVars, profileVars, toasts>>

\* A page at rest begins in one of its initial states.
PagesInit ==
  /\ JobPageInit /\ SessionInit /\ UploadInit /\ ListInit /\ AdminInit /\ ProfileInit /\ ToastsInit
  /\ visit \in DOMAIN VisitFaults
  /\ visit = "upload" \/ account = "anonymous"
  /\ visit = "jobs" \/ \A j \in Jobs : have[j] = "completed"
  /\ visit = "users" \/ \A u \in Users : IsAdmin(u)
  /\ faults = MaxFaults - VisitFaults[visit]

Rest(page) ==
  /\ UNCHANGED visit
  /\ IF page = "job" THEN TRUE ELSE UNCHANGED jobPageVars
  /\ IF page = "session" THEN TRUE ELSE UNCHANGED sessionVars
  /\ IF page = "upload" THEN TRUE ELSE UNCHANGED uploadVars
  /\ IF page = "jobs" THEN TRUE ELSE UNCHANGED listVars
  /\ IF page = "users" THEN TRUE ELSE UNCHANGED adminVars
  /\ IF page = "profile" THEN TRUE ELSE UNCHANGED profileVars
  /\ IF page = "toasts" THEN UNCHANGED faults ELSE UNCHANGED toasts

PagesNext ==
  \/ visit = "job" /\ JobPageNext /\ Rest("job")
  \/ visit = "session" /\ SessionNext /\ Rest("session")
  \/ visit = "upload" /\ UploadNext /\ Rest("upload")
  \/ visit = "jobs" /\ ListNext /\ Rest("jobs")
  \/ visit = "users" /\ AdminNext /\ Rest("users")
  \/ visit = "profile" /\ ProfileNext /\ Rest("profile")
  \/ visit = "toasts" /\ ToastsNext /\ Rest("toasts")

PagesSpec == PagesInit /\ [][PagesNext]_pagesVars

\* Once a page is quiet, it shows what the server has: the end of a job, the
\* rows of the list, the users and the profile, whatever was lost, refused,
\* retried or answered late before.
QuietPagesAreTrue == EndIsShown /\ DeletedStaysGone /\ ListIsTrue /\ TableIsTrue /\ SavedEverywhere

\* Meanwhile each page keeps its own promises: the page of a job says truly how
\* far the job is and where it stopped, claims, isolated documents and the
\* sign-in dialog keep together, and no notification is stuck.
PagesInv == JobPageInv /\ SessionInv /\ ToastsInv
=============================================================================
