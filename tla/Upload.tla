------------------------------- MODULE Upload -------------------------------
(***************************************************************************)
(* The landing page (web/src/routes/Landing.tsx and components/upload):    *)
(* choosing a file or a video, previewing it, and creating the job.        *)
(* Fault kinds: "network" (a request or its answer is lost).               *)
(***************************************************************************)
EXTENDS Sequences, Integers, Faults

CONSTANTS AudioFiles, (* files the page accepts                             *)
          BadFiles,   (* files validateFile refuses                         *)
          Videos,     (* YouTube links                                      *)
          SixStems,   (* presets with six stems                             *)
          Offers6     (* the accounts that get the six-stem presets         *)

\* The six-stem presets are a feature of an account (Landing.tsx:46); "none"
\* stands for no file and no link.
ASSUME UploadAssumption ==
  /\ "high" \notin SixStems /\ SixStems # {} /\ "anonymous" \notin Offers6
  /\ "none" \notin AudioFiles \cup Videos

VARIABLES form,   (* mode, file, error, url, video, preset, transcribe      *)
          audio,  (* the preview of the file                                *)
          asks,   (* previews of videos under way                           *)
          post,   (* the request that creates a job, or its answer          *)
          account,(* who is signed in                                       *)
          gone    (* no, leaving (the job's page is loading), yes           *)

uploadVars == <<form, audio, asks, post, account, gone>>

NoVideo == [kind |-> "idle", of |-> "none"]

UploadInit ==
  /\ form = [mode |-> "file", file |-> "none", error |-> FALSE, over |-> FALSE, url |-> "none",
             video |-> NoVideo, mixed |-> FALSE, quality |-> "high", transcribe |-> FALSE, lapsed |-> FALSE]
  /\ audio = "none" /\ asks = {} /\ post = "none"
  /\ account \in {"anonymous", "owner"}
  /\ gone = "no"

Here == gone # "yes"
Creating == post # "none"
\* The panel of the upload takes the place of the form.
FormShown == Here /\ ~(Creating /\ form.file # "none")

-----------------------------------------------------------------------------
(* The file                                                                *)

Presets == IF account \in Offers6 THEN {"high"} \cup SixStems ELSE {"high"}
TranscribeAvailable == account \in Offers6

\* chooseFile: a refused file leaves none chosen.
ChooseFile(f) ==
  /\ FormShown /\ form.mode = "file" /\ form.file = "none"
  /\ IF f \in BadFiles
     THEN form' = [form EXCEPT !.file = "none", !.error = TRUE, !.over = FALSE] /\ UNCHANGED audio
     ELSE /\ form' = [form EXCEPT !.file = f, !.error = FALSE, !.over = FALSE]
          /\ audio' = IF Creating THEN "none" ELSE "decoding"
  /\ UNCHANGED <<asks, post, account, gone, faults>>

DragOver ==
  /\ FormShown /\ form.mode = "file" /\ form.file = "none"
  /\ form' = [form EXCEPT !.over = ~@]
  /\ UNCHANGED <<audio, asks, post, account, gone, faults>>

ClearError ==
  /\ FormShown /\ form.error
  /\ form' = [form EXCEPT !.error = FALSE]
  /\ UNCHANGED <<audio, asks, post, account, gone, faults>>

\* Mutant of Unmounted: what plays goes on.
UnmountedOnly == audio

\* The preview goes with the file: it stops, and its decode is void.
Unmounted == "none"

RemoveFile ==
  /\ FormShown /\ form.file # "none"
  /\ form' = [form EXCEPT !.file = "none", !.error = FALSE]
  /\ audio' = Unmounted
  /\ UNCHANGED <<asks, post, account, gone, faults>>

Decoded ==
  /\ audio = "decoding" /\ audio' \in {"ready", "failed"}
  /\ UNCHANGED <<form, asks, post, account, gone, faults>>

\* Play and pause in place, and the end of what plays.
PlayPreview ==
  /\ audio \in {"ready", "sounds"}
  /\ audio' = IF audio = "ready" THEN "sounds" ELSE "ready"
  /\ UNCHANGED <<form, asks, post, account, gone, faults>>

-----------------------------------------------------------------------------
(* The video                                                               *)

\* Switching asks first when the other side is chosen, and clears it.
ChooseMode(m) ==
  /\ FormShown /\ m # form.mode
  /\ form' = [form EXCEPT !.mode = m, !.file = "none", !.error = FALSE, !.over = FALSE,
                          !.video = IF m = "file" THEN NoVideo ELSE @]
  /\ audio' = Unmounted
  /\ UNCHANGED <<asks, post, account, gone, faults>>

\* Mutant of Edited: a new link keeps the video that was fetched.
EditedOnly(u) == [form EXCEPT !.url = u, !.mixed = @ \/ asks # {}]

\* A new link drops the video that was fetched, but not one being fetched.
Edited(u) ==
  [form EXCEPT !.url = u, !.mixed = @ \/ asks # {},
               !.video = IF @.kind = "fetching" THEN @ ELSE NoVideo]

EditUrl(u) ==
  /\ FormShown /\ form.mode = "url" /\ u # form.url
  /\ form' = Edited(u)
  /\ UNCHANGED <<audio, asks, post, account, gone, faults>>

\* fetchPreview; bound: one at a time of each link.
FetchPreview ==
  /\ FormShown /\ form.mode = "url" /\ form.url \in Videos \ asks
  /\ form.video.kind # "fetching"
  /\ form' = [form EXCEPT !.video = [kind |-> "fetching", of |-> "none"], !.mixed = asks # {}]
  /\ asks' = asks \cup {form.url}
  /\ UNCHANGED <<audio, post, account, gone, faults>>

\* The preview lands on the form as it is by now.
PreviewLands(u) ==
  /\ u \in asks /\ asks' = asks \ {u}
  /\ \/ form' = [form EXCEPT !.video = [kind |-> "ready", of |-> u]] /\ UNCHANGED faults
     \/ form' = [form EXCEPT !.video = NoVideo] /\ UNCHANGED faults
     \/ form' = [form EXCEPT !.video = [kind |-> "unavailable", of |-> "none"]] /\ Fault("network")
  /\ UNCHANGED <<audio, post, account, gone>>

UseVideo ==
  /\ FormShown /\ form.mode = "url" /\ form.video.kind \in {"ready", "unavailable"}
  /\ form' = [form EXCEPT !.video.kind = "confirmed"]
  /\ UNCHANGED <<audio, asks, post, account, gone, faults>>

RejectVideo ==
  /\ FormShown /\ form.mode = "url" /\ form.video.kind \notin {"idle", "fetching"}
  /\ form' = [form EXCEPT !.video = NoVideo]
  /\ UNCHANGED <<audio, asks, post, account, gone, faults>>

-----------------------------------------------------------------------------
(* The preset                                                              *)

PickQuality(q) ==
  /\ FormShown /\ q \in Presets
  /\ (TranscribeAvailable /\ form.transcribe) => q \in SixStems
  /\ form' = [form EXCEPT !.quality = q]
  /\ UNCHANGED <<audio, asks, post, account, gone, faults>>

\* Mutant of Transcribed: the preset stays as it is.
TranscribedOnly(on) == [form EXCEPT !.transcribe = on]

\* Turning it on takes a preset with six stems.
Transcribed(on) ==
  [form EXCEPT !.transcribe = on,
               !.quality = IF on /\ @ \notin SixStems THEN CHOOSE q \in SixStems : TRUE ELSE @]

Transcribe(on) ==
  /\ FormShown /\ TranscribeAvailable /\ on # form.transcribe
  /\ form' = [Transcribed(on) EXCEPT !.lapsed = @ /\ on]
  /\ UNCHANGED <<audio, asks, post, account, gone, faults>>

\* Signing out, or a session that ends: a preset that is no longer offered
\* falls back to Standard.
LoseAccount ==
  /\ Here /\ account # "anonymous"
  /\ account' = "anonymous"
  /\ form' = [form EXCEPT !.quality = IF @ \in SixStems THEN "high" ELSE @, !.lapsed = form.transcribe]
  /\ UNCHANGED <<audio, asks, post, gone, faults>>

\* Signing in here: what was ticked before is ticked again.
GainAccount ==
  /\ Here /\ account = "anonymous"
  /\ account' = "owner"
  /\ UNCHANGED <<form, audio, asks, post, gone, faults>>

-----------------------------------------------------------------------------
(* Creating the job                                                        *)

HasSource == IF form.mode = "file" THEN form.file # "none" ELSE form.video.kind = "confirmed"

\* What is sent: the link as it is by now, and what was shown of it.
Input == [url |-> IF form.mode = "file" THEN "none" ELSE form.url,
          shown |-> IF form.mode = "file" THEN "none" ELSE form.video.of,
          quality |-> form.quality, transcribe |-> TranscribeAvailable /\ form.transcribe]

SubmitJob ==
  /\ FormShown /\ HasSource /\ ~Creating
  /\ post' = "sent"
  /\ audio' = Unmounted
  /\ UNCHANGED <<form, asks, account, gone, faults>>

\* The server makes the job, or refuses it.
PostServed ==
  /\ post = "sent"
  /\ post' \in {"made", "too_large", "refused"}
  /\ UNCHANGED <<form, audio, asks, account, gone, faults>>

PostLost ==
  /\ post \in {"sent", "made"}
  /\ Fault("network")
  /\ post' = "lost"
  /\ UNCHANGED <<form, audio, asks, account, gone>>

\* The upload's own panel can cancel it; the job may be made by then.
Abort ==
  /\ Here /\ form.file # "none" /\ post \in {"sent", "made"}
  /\ post' = "aborted"
  /\ UNCHANGED <<form, audio, asks, account, gone, faults>>

\* The page of a job that was made is loaded; the form is ready again until
\* it is there.
PostLands ==
  /\ post \notin {"none", "sent"}
  /\ post' = "none"
  /\ form' = IF post = "too_large" THEN [form EXCEPT !.file = "none", !.error = TRUE] ELSE form
  /\ audio' = IF form'.file = "none" \/ gone = "yes" THEN "none" ELSE "decoding"
  /\ gone' = IF post = "made" /\ gone = "no" THEN "leaving" ELSE gone
  /\ UNCHANGED <<asks, account, faults>>

Unload ==
  /\ gone = "leaving" /\ gone' = "yes"
  /\ audio' = Unmounted /\ asks' = {} /\ post' = "none"
  /\ UNCHANGED <<form, account, faults>>

UploadNext ==
  \/ \E f \in AudioFiles \cup BadFiles : ChooseFile(f)
  \/ DragOver \/ ClearError \/ RemoveFile \/ Decoded \/ PlayPreview
  \/ \E m \in {"file", "url"} : ChooseMode(m)
  \/ \E u \in Videos : EditUrl(u) \/ PreviewLands(u)
  \/ FetchPreview \/ UseVideo \/ RejectVideo
  \/ \E q \in {"high"} \cup SixStems : PickQuality(q)
  \/ \E on \in BOOLEAN : Transcribe(on)
  \/ LoseAccount \/ GainAccount \/ SubmitJob \/ PostLost \/ Abort \/ Unload
  \/ PostServed \/ PostLands

-----------------------------------------------------------------------------
(* Properties                                                              *)

\* Types, and: a preview sounds only while its file is chosen and on show.
UploadTypeOK ==
  /\ form.mode \in {"file", "url"} /\ form.quality \in Presets
  /\ form.file \in AudioFiles \cup {"none"} /\ form.url \in Videos \cup {"none"}
  /\ form.video.kind \in {"idle", "fetching", "ready", "unavailable", "confirmed"}
  /\ post \in {"none", "sent", "made", "too_large", "refused", "lost", "aborted"}
  /\ audio # "none" <=> (form.file # "none" /\ FormShown)

\* A job is made of the video its visitor was shown and confirmed, unless the
\* link was changed while a preview was being fetched, or two were fetched at
\* a time (Landing.tsx:104, 246 do not tell them apart).
Sends == post = "none" /\ post' = "sent"
ShownIsMade ==
  [][Sends /\ Input.shown # "none" /\ ~form.mixed => Input.url = Input.shown]_uploadVars

\* A job that is to be transcribed is asked for with a preset of six stems,
\* which the server insists on (QualityPicker.tsx:45-47), unless the box was
\* ticked before a sign-out (Landing.tsx:46-50 resets the preset only).
TranscribedHasSix ==
  [][Sends /\ Input.transcribe /\ ~form.lapsed => Input.quality \in SixStems]_uploadVars

\* What is asked for is what the visitor was shown and could choose, and
\* nothing sounds that is not on show.
AskedAsShown == []UploadTypeOK /\ ShownIsMade /\ TranscribedHasSix
=============================================================================
