---------------------------- MODULE Registration ----------------------------
(***************************************************************************)
(* Registering a face (app.py, RegistrationPage), from the pictures to the *)
(* file of UserRepository: the UI thread takes the pictures, one thread    *)
(* per registration sends them to the server and waits for its answer, and *)
(* the UI polls the answer and saves the user, blocked until the save has  *)
(* ended.  The operator may cancel at any time and register again, and the *)
(* program may be killed, in the middle of a save too, and started again.  *)
(*                                                                         *)
(* A registration is a user: its user_id, its thread and its socket.       *)
(***************************************************************************)
EXTENDS UserRepository, Sequences

CONSTANTS MaxRegistrations, MaxCancels, MaxShows,  \* bounds
          Captures  \* pictures of a registration (10 in the code)

ASSUME RegistrationAssumption ==
    /\ Users = 1..MaxRegistrations
    /\ MaxRegistrations \in 0..MaxSaves /\ MaxCancels \in Nat /\ MaxShows \in Nat
    /\ Captures \in Nat \ {0}

VARIABLES
    active, generation,        \* registration_active, registration_generation
    user_id,                   \* of the current registration, 0 for ""
    capture_count,             \* len(captured_b64)
    capture_jobs, capture_after,  \* scheduled _capture_step jobs; capture_after_id is not None
    success_jobs, success_after,  \* scheduled _finish_success jobs; success_after_id is not None
    contour, contour_job,      \* current_real_contour; a contour tick is scheduled
    socket, closed,            \* registration_socket; sockets the operator's cancel closed
    thread, thread_gen, thread_images, \* per registration: send_data's step, what it captured
    results,                   \* registration_results
    dirs,                      \* capture directories
    camera,                    \* the camera has delivered a frame
    answers, enrolled,         \* the server's answers and the faces it enrolled
    registered, cancels, shows, cancelled  \* bounds; history: registrations cancelled

page    == <<active, generation, user_id, capture_count, capture_jobs, capture_after>>
success == <<success_jobs, success_after>>
picture == <<contour, contour_job>>
sender  == <<socket, thread, thread_gen, thread_images, results>>
server  == <<answers, enrolled>>
bounds  == <<registered, cancels, shows>>
regVars == <<vars, page, success, picture, sender, closed, dirs, camera, server, bounds, cancelled>>

Generations == 0..(MaxRegistrations + MaxCancels)
Answers == {"success", "contour", "refused"}  \* success, with contour data or without; refused
Result == [id : Users, gen : Generations, answer : Answers \union {"error"}]

PageTypeOK ==
    /\ active \in BOOLEAN /\ generation \in Generations /\ user_id \in 0..MaxRegistrations
    /\ capture_count \in 0..Captures /\ capture_jobs \in Nat /\ capture_after \in BOOLEAN
TimerTypeOK ==
    /\ success_jobs \in Nat /\ success_after \in BOOLEAN
    /\ contour \in BOOLEAN /\ contour_job \in BOOLEAN
SenderTypeOK ==
    /\ socket \in 0..MaxRegistrations /\ closed \subseteq Users
    /\ thread \in [Users -> {"none", "start", "open", "sent", "done"}]
    /\ thread_gen \in [Users -> Generations] /\ thread_images \in [Users -> 0..Captures]
    /\ results \in Seq(Result)
OutsideTypeOK ==
    /\ dirs \subseteq Users /\ camera \in BOOLEAN
    /\ answers \in [Users -> Answers \union {"none"}] /\ enrolled \subseteq Users
    /\ cancelled \subseteq Users

(* The types of the page, of its threads and of the file.                  *)
RegistrationTypeOK == TypeOK /\ PageTypeOK /\ TimerTypeOK /\ SenderTypeOK /\ OutsideTypeOK

PageInit ==
    /\ active = FALSE /\ generation = 0 /\ user_id = 0 /\ capture_count = 0
    /\ capture_jobs = 0 /\ capture_after = FALSE /\ success_jobs = 0 /\ success_after = FALSE
    /\ contour = FALSE /\ contour_job = FALSE /\ socket = 0 /\ closed = {}
    /\ thread = [i \in Users |-> "none"] /\ thread_gen = [i \in Users |-> 0]
    /\ thread_images = [i \in Users |-> 0] /\ results = <<>>
    /\ dirs = {} /\ camera = FALSE
    /\ answers = [i \in Users |-> "none"] /\ enrolled = {}
    /\ registered = 0 /\ cancels = 0 /\ shows = 0 /\ cancelled = {}
-----------------------------------------------------------------------------
Drop(jobs, after) == IF after THEN jobs - 1 ELSE jobs     \* after_cancel
ScheduleCapture(others) == capture_jobs' = others + 1 /\ capture_after' = TRUE

(* A mutant of Register. *)
RegisterKeepsTimer ==
    /\ ~active /\ registered < MaxRegistrations
    /\ registered' = registered + 1 /\ user_id' = registered + 1
    /\ generation' = generation + 1 /\ active' = TRUE /\ capture_count' = 0
    /\ ScheduleCapture(capture_jobs)
    /\ contour' = FALSE /\ contour_job' = FALSE
    /\ UNCHANGED <<success, sender, closed, dirs, camera, server, cancels, shows, cancelled>>

(* The button; a pending success message is taken away first.              *)
Register ==
    /\ ~active /\ registered < MaxRegistrations
    /\ registered' = registered + 1 /\ user_id' = registered + 1
    /\ generation' = generation + 1 /\ active' = TRUE /\ capture_count' = 0
    /\ ScheduleCapture(capture_jobs)
    /\ success_jobs' = Drop(success_jobs, success_after) /\ success_after' = FALSE
    /\ contour' = FALSE /\ contour_job' = FALSE
    /\ UNCHANGED <<sender, closed, dirs, camera, server, cancels, shows, cancelled>>

(* The button without a name: only a pending message is taken away, and    *)
(* with it the contour, whose animation ends at its next tick.             *)
RegisterNameless ==
    /\ ~active /\ success_after
    /\ success_jobs' = Drop(success_jobs, success_after) /\ success_after' = FALSE /\ contour' = FALSE
    /\ UNCHANGED <<page, contour_job, sender, closed, dirs, camera, server, bounds, cancelled>>

(* _capture_step; without a picture it tries again.                        *)
CaptureStep ==
    /\ capture_jobs > 0
    /\ IF active /\ (capture_count < Captures)
       THEN /\ capture_count' = IF camera THEN capture_count + 1 ELSE capture_count
            /\ dirs' = IF camera THEN dirs \union {user_id} ELSE dirs
            /\ ScheduleCapture(capture_jobs - 1)
            /\ UNCHANGED <<thread, thread_gen, thread_images>>
       ELSE /\ capture_jobs' = capture_jobs - 1 /\ capture_after' = FALSE
            /\ UNCHANGED <<capture_count, dirs>>
            /\ IF active  \* _finish_registration: the thread takes copies
               THEN /\ thread' = [thread EXCEPT ![user_id] = "start"]
                    /\ thread_gen' = [thread_gen EXCEPT ![user_id] = generation]
                    /\ thread_images' = [thread_images EXCEPT ![user_id] = capture_count]
               ELSE UNCHANGED <<thread, thread_gen, thread_images>>
    /\ UNCHANGED <<active, generation, user_id, success, picture, socket, results, closed,
                   camera, server, bounds, cancelled>>

CameraFrame ==
    /\ ~camera /\ camera' = TRUE
    /\ UNCHANGED <<page, success, picture, sender, closed, dirs, server, bounds, cancelled>>
-----------------------------------------------------------------------------
(* send_data.                                                              *)
ThreadStep(id, from, to) ==
    /\ thread[id] = from /\ thread' = [thread EXCEPT ![id] = to]
    /\ UNCHANGED <<page, success, picture, thread_gen, thread_images, closed, dirs,
                   camera, enrolled, bounds, cancelled>>

OpenSocket(id) == /\ ThreadStep(id, "start", "open") /\ socket' = id
                  /\ UNCHANGED <<results, answers>>

SendPictures(id) == ThreadStep(id, "open", "sent") /\ id \notin closed /\ UNCHANGED <<socket, results, answers>>

(* The answer, or an exception: no connection, a time-out, a closed socket. *)
Deliver(id, answer) ==
    /\ results' = Append(results, [id |-> id, gen |-> thread_gen[id], answer |-> answer])
    /\ socket' = IF socket = id THEN 0 ELSE socket
ReceiveAnswer(id) ==
    /\ ThreadStep(id, "sent", "done") /\ id \notin closed /\ answers[id] # "none"
    /\ Deliver(id, answers[id])
    /\ UNCHANGED answers
(* A mutant of SendFails. *)
SendFailsSilently(id) ==
    /\ \E from \in {"open", "sent"} : ThreadStep(id, from, "done")
    /\ UNCHANGED <<socket, results, answers>>

SendFails(id) ==
    /\ \E from \in {"open", "sent"} : ThreadStep(id, from, "done")
    /\ Deliver(id, "error")
    /\ UNCHANGED answers

ServerAnswers(id, answer) ==
    /\ thread[id] = "sent" /\ answers[id] = "none"
    /\ answers' = [answers EXCEPT ![id] = answer]
    /\ enrolled' = IF answer = "refused" THEN enrolled ELSE enrolled \union {id}
    /\ UNCHANGED <<page, success, picture, sender, closed, dirs, camera, bounds, cancelled>>
-----------------------------------------------------------------------------
(* A mutant of Stale. *)
StaleIfInactive(result) == ~active

Stale(result) == ~active \/ result.gen # generation

Enrols(result) == ~Stale(result) /\ result.answer \in {"success", "contour"}

(* _poll_registration_results, one result at a time.  A late answer and    *)
(* one without success need no save.                                       *)
DropResult ==
    /\ results # <<>> /\ ~Enrols(Head(results)) /\ results' = Tail(results)
    /\ active' = (active /\ Stale(Head(results)))
    /\ UNCHANGED <<generation, user_id, capture_count, capture_jobs, capture_after, success, picture,
                   socket, thread, thread_gen, thread_images, closed, dirs, camera, server, bounds, cancelled>>

(* A mutant of BeginSave. *)
SaveAnyAnswer(information) ==
    /\ results # <<>> /\ ~Stale(Head(results)) /\ Load(Head(results).id, information)
    /\ UNCHANGED <<page, success, picture, sender, closed, dirs, camera, server, bounds, cancelled>>

(* The save of the others runs in the UI thread; the result is at the head *)
(* of the queue as long as it lasts.                                       *)
BeginSave(information) ==
    /\ results # <<>> /\ Enrols(Head(results)) /\ Load(Head(results).id, information)
    /\ UNCHANGED <<page, success, picture, sender, closed, dirs, camera, server, bounds, cancelled>>

WriteTmp == /\ OpenTmp \/ FillTmp
            /\ UNCHANGED <<page, success, picture, sender, closed, dirs, camera, server, bounds, cancelled>>

ResultDone ==
    /\ results' = Tail(results) /\ active' = FALSE
    /\ UNCHANGED <<generation, user_id, capture_count, capture_jobs, capture_after, socket, thread,
                   thread_gen, thread_images, closed, dirs, camera, server, bounds, cancelled>>

EndSave ==   \* show_success
    /\ Replace /\ ResultDone
    /\ IF Head(results).answer = "contour"
       THEN contour' = TRUE /\ contour_job' = TRUE ELSE UNCHANGED picture
    /\ success_jobs' = success_jobs + 1 /\ success_after' = TRUE

SaveRaises == SaveFails /\ ResultDone /\ UNCHANGED <<success, picture>>

(* _finish_success: the form is cleared, the contour stays.                *)
FinishSuccess ==
    /\ success_jobs > 0 /\ success_jobs' = success_jobs - 1 /\ success_after' = FALSE
    /\ capture_count' = 0 /\ user_id' = 0
    /\ UNCHANGED <<active, generation, capture_jobs, capture_after, picture, sender, closed,
                   dirs, camera, server, bounds, cancelled>>

(* A mutant of CancelRegistration. *)
CancelKeepsCapture ==
    /\ cancels < MaxCancels /\ cancels' = cancels + 1
    /\ active' = FALSE /\ generation' = generation + 1
    /\ dirs' = IF active THEN dirs \ {user_id} ELSE dirs
    /\ cancelled' = IF active THEN cancelled \union {user_id} ELSE cancelled
    /\ capture_count' = 0 /\ contour' = FALSE /\ contour_job' = FALSE
    /\ UNCHANGED <<user_id, capture_jobs, capture_after, success, thread, thread_gen, thread_images,
                   socket, closed, results, camera, server, registered, shows>>

(* A mutant of CancelRegistration. *)
CancelClearsFirst ==
    /\ cancels < MaxCancels /\ cancels' = cancels + 1
    /\ active' = FALSE /\ generation' = generation + 1
    /\ capture_jobs' = Drop(capture_jobs, capture_after) /\ capture_after' = FALSE
    /\ cancelled' = IF active THEN cancelled \union {user_id} ELSE cancelled
    /\ capture_count' = 0 /\ user_id' = 0 /\ contour' = FALSE /\ contour_job' = FALSE
    /\ UNCHANGED <<success, thread, thread_gen, thread_images, socket, closed, results, camera,
                   server, dirs, registered, shows>>

(* cancel_registration: the socket is closed if there is one already.      *)
CancelRegistration ==
    /\ cancels < MaxCancels /\ cancels' = cancels + 1
    /\ active' = FALSE /\ generation' = generation + 1
    /\ capture_jobs' = Drop(capture_jobs, capture_after) /\ capture_after' = FALSE
    /\ closed' = IF socket # 0 THEN closed \union {socket} ELSE closed
    /\ socket' = 0
    /\ dirs' = IF active THEN dirs \ {user_id} ELSE dirs
    /\ cancelled' = IF active THEN cancelled \union {user_id} ELSE cancelled
    /\ capture_count' = 0 /\ user_id' = 0 /\ contour' = FALSE /\ contour_job' = FALSE
    /\ UNCHANGED <<success, thread, thread_gen, thread_images, results, camera,
                   server, registered, shows>>

(* A mutant of ContourTick. *)
TickOnce ==
    /\ contour_job /\ contour_job' = FALSE
    /\ UNCHANGED <<page, success, contour, sender, closed, dirs, camera, server, bounds, cancelled>>

(* A tick of the contour's animation, and the page shown again.            *)
ContourTick ==
    /\ contour_job /\ contour_job' = contour
    /\ UNCHANGED <<page, success, contour, sender, closed, dirs, camera, server, bounds, cancelled>>
OnShow ==
    /\ shows < MaxShows /\ shows' = shows + 1
    /\ contour_job' = (contour \/ contour_job)
    /\ UNCHANGED <<page, success, contour, sender, closed, dirs, camera, server, registered,
                   cancels, cancelled>>

(* The program is killed and started again; the disk and the server stay.  *)
KillProgram ==
    /\ Crash
    /\ active' = FALSE /\ generation' = 0 /\ user_id' = 0 /\ capture_count' = 0
    /\ capture_jobs' = 0 /\ capture_after' = FALSE /\ success_jobs' = 0 /\ success_after' = FALSE
    /\ contour' = FALSE /\ contour_job' = FALSE /\ socket' = 0 /\ closed' = {}
    /\ thread' = [i \in Users |-> "none"] /\ thread_gen' = [i \in Users |-> 0]
    /\ thread_images' = [i \in Users |-> 0] /\ results' = <<>> /\ camera' = FALSE
    /\ UNCHANGED <<dirs, server, bounds, cancelled>>

RegInit == Init /\ PageInit

(* What the UI thread does between two saves, and what others do meanwhile. *)
Jobs == CaptureStep \/ DropResult \/ FinishSuccess \/ ContourTick
Operator == Register \/ RegisterNameless \/ CancelRegistration \/ OnShow
UiStep(A) == step = "idle" /\ A /\ UNCHANGED vars
SendStep == /\ \E id \in Users : OpenSocket(id) \/ SendPictures(id) \/ ReceiveAnswer(id) \/ SendFails(id)
            /\ UNCHANGED vars
Outside == /\ CameraFrame \/ \E id \in Users, a \in Answers : ServerAnswers(id, a)
           /\ UNCHANGED vars
SaveStep == (\E i \in Information : BeginSave(i)) \/ WriteTmp \/ EndSave \/ SaveRaises
FaceStep == /\ \E user \in Users : HandleFace(user)
            /\ UNCHANGED <<page, success, picture, sender, closed, dirs, camera, server, bounds, cancelled>>

RegNext == UiStep(Jobs) \/ UiStep(Operator) \/ SendStep \/ Outside \/ SaveStep \/ FaceStep \/ KillProgram

(* The UI's jobs run, a save ends, and a thread ends at the latest by its  *)
(* time-out.                                                               *)
RegSpec == /\ RegInit /\ [][RegNext]_regVars
           /\ WF_regVars(UiStep(CaptureStep)) /\ WF_regVars(UiStep(DropResult))
           /\ WF_regVars(UiStep(FinishSuccess)) /\ WF_regVars(SendStep) /\ WF_regVars(SaveStep)
-----------------------------------------------------------------------------
SavedUsers == {u \in Users : LoadAll(TRUE)[u] # NoUser}

(* A cancelled registration is never saved: its answer, which may arrive   *)
(* while the next registration is waiting for its own, is dropped.         *)
CancelledIsNotSaved == SavedUsers \cap cancelled = {}

(* Every saved user has been enrolled by the server.                       *)
SavedIsEnrolled == SavedUsers \subseteq enrolled

(* One chain of _capture_step, whatever was cancelled and begun again, so  *)
(* that each registration sends all of its pictures.                       *)
OneCaptureChain ==
    /\ capture_jobs <= 1
    /\ \A id \in Users : thread[id] # "none" => thread_images[id] = Captures

(* No picture of a cancelled registration is left on the disk.             *)
CancelRemovesPictures == dirs \cap cancelled = {}

(* The timer of a success message never clears a later registration.       *)
NoClearWhileActive == active => success_jobs = 0

(* The contour on the screen is animated.                                  *)
ContourIsAnimated == contour => contour_job

(* A registration comes to an end if the camera works: it is saved,        *)
(* refused, cancelled or lost with the program.                            *)
RegistrationEnds == (active /\ camera) ~> ~active

(* A registration leaves nothing to the next one: no timer, no capture     *)
(* chain and no user the server does not know; one that was cancelled      *)
(* leaves no picture either (one refused or failed keeps its directory).   *)
NothingLeftBehind ==
    /\ RegistrationTypeOK /\ SavedIsEnrolled /\ CancelRemovesPictures
    /\ OneCaptureChain /\ NoClearWhileActive /\ ContourIsAnimated
=============================================================================
