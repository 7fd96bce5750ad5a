----------------------------- MODULE FaceOverlay -----------------------------
(***************************************************************************)
(* The Face-ID card of the monitor page: app.py's _handle_face and         *)
(* _request_matching_face_overlay wait for the TCP event that belongs to   *)
(* the identity received over the UART (TCPFaceClient.get_matching_event), *)
(* and MonitorPage shows and hides the card and its animation.             *)
(*                                                                         *)
(* All of it runs in the UI thread, as jobs of Tk's timer.  One Tick is a  *)
(* second; a job that is due runs before the next Tick.                    *)
(***************************************************************************)
EXTENDS Integers, Sequences, SequencesExt

CONSTANTS Users,        \* user names
          Registered,   \* those in the user repository
          MaxTcpEvents, \* bound on the TCP events
          MaxFaces,     \* bound on the Face-ID results
          MaxPages,     \* bound on the changes of the page
          Fresh,        \* max_age_seconds of a TCP event (5 in the code)
          Deadline,     \* seconds a search goes on (3)
          Seconds,      \* face_overlay_seconds (8)
          MotionFrames  \* motion_frames of the animation (40)

ASSUME CardAssumption ==
    /\ Registered \subseteq Users
    /\ {MaxTcpEvents, MaxFaces, MaxPages, Fresh, Deadline} \subseteq Nat
    /\ {Seconds, MotionFrames} \subseteq Nat \ {0}

VARIABLES
    page,                        \* current_page
    event_queue, pending_events, \* of TCPFaceClient
    generation, search,          \* _face_match_generation, the scheduled poll_for_match jobs
    overlay, tint, frame,        \* face_overlay, face_tint, animation_frame
    hide_job, hide_jobs,         \* _hide_job and the scheduled hide_face jobs, as seconds left
    anim_generation, anim_jobs,  \* _face_animation_generation, the scheduled render jobs
    shown_for, asked,            \* history: seconds on the screen; identity searched for last
    tcp_events, faces, pages     \* counters of the bounds

search_v  == <<generation, search, asked>>
overlay_v == <<overlay, tint, frame, hide_job, hide_jobs, anim_generation, anim_jobs, shown_for>>
tcp_v     == <<event_queue, pending_events>>
card_bounds == <<tcp_events, faces, pages>>
cardVars    == <<page, tcp_v, search_v, overlay_v, card_bounds>>

NoCard == [user |-> "none"]
TcpEvent == [user : Users, ok : BOOLEAN, image : BOOLEAN, age : 0..Fresh + 1]
Identity == [user : Users, ok : BOOLEAN]
Card     == [user : Users, ok : BOOLEAN, green : BOOLEAN, age : 0..Fresh + 1]
Job      == [gen : 0..MaxFaces, user : Users, ok : BOOLEAN, left : 0..Deadline]

CardTypeOK ==
    /\ page \in {"monitor", "racks"}
    /\ event_queue \in Seq(TcpEvent) /\ pending_events \in Seq(TcpEvent)
    /\ generation \in 0..MaxFaces /\ search \subseteq Job
    /\ (overlay = NoCard \/ overlay \in Card) /\ tint \in {"none", "red"}
    /\ frame \in {"none", "still", "moving", "final"}
    /\ hide_job \in -1..Seconds /\ hide_jobs \subseteq 0..Seconds
    /\ anim_generation \in Nat /\ anim_jobs \subseteq [gen : 0..anim_generation, step : 1..(MotionFrames - 1)]
    /\ shown_for \in 0..Seconds /\ (asked = NoCard \/ asked \in Identity)

CardInit ==
    /\ page = "monitor" /\ event_queue = <<>> /\ pending_events = <<>>
    /\ generation = 0 /\ search = {} /\ asked = NoCard
    /\ overlay = NoCard /\ tint = "none" /\ frame = "none" /\ shown_for = 0
    /\ hide_job = -1 /\ hide_jobs = {} /\ anim_generation = 0 /\ anim_jobs = {}
    /\ tcp_events = 0 /\ faces = 0 /\ pages = 0
-----------------------------------------------------------------------------
ChangePage(p) ==
    /\ p # page /\ pages < MaxPages
    /\ page' = p /\ pages' = pages + 1
    /\ UNCHANGED <<tcp_v, search_v, overlay_v, tcp_events, faces>>

(* The TCP thread has opened an event.                                     *)
ReceiveTcp(user, ok, image) ==
    /\ tcp_events < MaxTcpEvents /\ tcp_events' = tcp_events + 1
    /\ event_queue' = Append(event_queue, [user |-> user, ok |-> ok, image |-> image, age |-> 0])
    /\ UNCHANGED <<page, pending_events, search_v, overlay_v, faces, pages>>
-----------------------------------------------------------------------------
(* get_matching_event: the events no older than Fresh, which are the last  *)
(* ones (OldestFirst), and of the wanted identity the newest one.          *)
Received == pending_events \o event_queue
Stale == CHOOSE n \in 0..Len(Received) : \A i \in DOMAIN Received : i <= n <=> Received[i].age > Fresh
FreshEvents == SubSeq(Received, Stale + 1, Len(Received))
Matches(user, ok) == {i \in DOMAIN FreshEvents : FreshEvents[i].user = user /\ FreshEvents[i].ok = ok}
Newest(places) == CHOOSE i \in places : \A j \in places : j <= i

(* A mutant of StopAnimation. *)
StopAnimationForgets == UNCHANGED <<anim_generation, anim_jobs, frame>>

(* _stop_face_animation.                                                   *)
StopAnimation == anim_generation' = anim_generation + 1 /\ anim_jobs' = {} /\ frame' = "none"

(* _start_face_animation: without an image nothing more happens, and the   *)
(* tint stays what it was; a moving overlay is drawn for the authorized.   *)
StartAnimation(green, image) ==
    /\ anim_generation' = anim_generation + 1
    /\ tint' = IF ~image THEN tint ELSE IF green THEN "none" ELSE "red"
    /\ IF image /\ green
       THEN /\ frame' = IF MotionFrames = 1 THEN "final" ELSE "moving"
            /\ anim_jobs' = IF MotionFrames = 1 THEN {} ELSE {[gen |-> anim_generation', step |-> 1]}
       ELSE frame' = (IF image THEN "still" ELSE "none") /\ anim_jobs' = {}

(* A mutant of ShowFace. *)
ShowFaceKeepsJob(user, ok, event) ==
    LET green == ok /\ user \in Registered
    IN  /\ overlay' = [user |-> user, ok |-> ok, green |-> green, age |-> event.age]
        /\ StartAnimation(green, event.image)
        /\ hide_jobs' = hide_jobs \union {Seconds}
        /\ hide_job' = Seconds /\ shown_for' = 0

(* show_face; the card that is shown already is replaced.                  *)
ShowFace(user, ok, event) ==
    LET green == ok /\ user \in Registered
    IN  /\ overlay' = [user |-> user, ok |-> ok, green |-> green, age |-> event.age]
        /\ StartAnimation(green, event.image)
        /\ hide_jobs' = (hide_jobs \ {hide_job}) \union {Seconds}
        /\ hide_job' = Seconds /\ shown_for' = 0

(* poll_for_match for a search with "left" seconds to go, while "others"   *)
(* are scheduled.                                                          *)
PollForMatch(gen, user, ok, left, others) ==
    /\ event_queue' = <<>>
    /\ IF Matches(user, ok) # {}
       THEN LET i == Newest(Matches(user, ok))
            IN  /\ pending_events' = RemoveAt(FreshEvents, i)
                /\ ShowFace(user, ok, FreshEvents[i])
                /\ search' = others
       ELSE /\ pending_events' = FreshEvents
            /\ search' = IF left > 0
                         THEN others \union {[gen |-> gen, user |-> user, ok |-> ok, left |-> left]}
                         ELSE others
            /\ UNCHANGED overlay_v

(* A mutant of HandleFace. *)
HandleFaceKeepsSearch(user, ok) ==
    /\ faces < MaxFaces /\ faces' = faces + 1
    /\ IF page = "monitor"
       THEN /\ asked' = [user |-> user, ok |-> ok]
            /\ PollForMatch(generation, user, ok, Deadline, search)
            /\ UNCHANGED generation
       ELSE UNCHANGED <<search_v, tcp_v, overlay_v>>
    /\ UNCHANGED <<page, tcp_events, pages>>

(* _handle_face: a search begins, instead of an earlier one, if the        *)
(* monitor page is on the screen; the first poll is immediate.             *)
HandleFace(user, ok) ==
    /\ faces < MaxFaces /\ faces' = faces + 1
    /\ IF page = "monitor"
       THEN /\ generation' = generation + 1
            /\ asked' = [user |-> user, ok |-> ok]
            /\ PollForMatch(generation', user, ok, Deadline, {})
       ELSE UNCHANGED <<search_v, tcp_v, overlay_v>>
    /\ UNCHANGED <<page, tcp_events, pages>>

PollAgain ==
    /\ \E job \in search :
        /\ IF page # "monitor" \/ job.gen # generation
           THEN search' = search \ {job} /\ UNCHANGED <<tcp_v, overlay_v>>
           ELSE PollForMatch(job.gen, job.user, job.ok, job.left, search \ {job})
        /\ UNCHANGED <<page, generation, asked, card_bounds>>

(* F5 and F6: a drawn face, or the last event of the queue; the others are *)
(* thrown away.                                                            *)
DemoFace(user, ok) ==
    /\ faces < MaxFaces /\ faces' = faces + 1
    /\ IF page = "monitor"
       THEN /\ event_queue' = <<>>
            /\ ShowFace(user, ok, IF event_queue = <<>>
                                  THEN [image |-> TRUE, age |-> 0] ELSE Last(event_queue))
       ELSE UNCHANGED <<event_queue, overlay_v>>
    /\ UNCHANGED <<page, pending_events, search_v, tcp_events, pages>>
-----------------------------------------------------------------------------

(* The render job.                                                         *)
Render ==
    /\ \E job \in anim_jobs :
        IF job.gen = anim_generation
        THEN /\ frame' = IF job.step + 1 < MotionFrames THEN "moving" ELSE "final"
             /\ anim_jobs' = (anim_jobs \ {job}) \union
                    (IF job.step + 1 < MotionFrames THEN {[job EXCEPT !.step = @ + 1]} ELSE {})
        ELSE anim_jobs' = anim_jobs \ {job} /\ UNCHANGED frame
    /\ UNCHANGED <<page, tcp_v, search_v, overlay, tint, hide_job, hide_jobs, anim_generation,
                   shown_for, card_bounds>>

HideFace ==
    /\ 0 \in hide_jobs /\ hide_jobs' = hide_jobs \ {0}
    /\ StopAnimation /\ overlay' = NoCard /\ hide_job' = -1 /\ shown_for' = 0
    /\ UNCHANGED <<page, tcp_v, search_v, tint, card_bounds>>

Older(e) == [e EXCEPT !.age = IF @ > Fresh THEN @ ELSE @ + 1]
Tick ==
    /\ 0 \notin hide_jobs
    /\ \A job \in search : job.left > 0
    /\ search' = {[job EXCEPT !.left = @ - 1] : job \in search}
    /\ hide_jobs' = {left - 1 : left \in hide_jobs}
    /\ hide_job' = IF hide_job > 0 THEN hide_job - 1 ELSE hide_job
    /\ shown_for' = IF overlay = NoCard \/ shown_for = Seconds THEN shown_for ELSE shown_for + 1
    /\ event_queue' = [i \in DOMAIN event_queue |-> Older(event_queue[i])]
    /\ pending_events' = [i \in DOMAIN pending_events |-> Older(pending_events[i])]
    /\ UNCHANGED <<page, generation, asked, overlay, tint, frame, anim_generation, anim_jobs, card_bounds>>

Face(user, ok) == HandleFace(user, ok) \/ DemoFace(user, ok)
Timers == PollAgain \/ Render \/ HideFace \/ Tick
CardNext ==
        \/ \E p \in {"monitor", "racks"} : ChangePage(p)
        \/ \E user \in Users, ok \in BOOLEAN :
            Face(user, ok) \/ \E image \in BOOLEAN : ReceiveTcp(user, ok, image)
        \/ Timers

(* Time goes on, and a job that is due runs.                               *)
CardSpec == CardInit /\ [][CardNext]_cardVars /\ WF_cardVars(Tick) /\ WF_cardVars(HideFace)
             /\ WF_cardVars(PollAgain) /\ WF_cardVars(Render)
-----------------------------------------------------------------------------
(* A card shown by a search, some polls after the Face-ID result, is that  *)
(* of the identity asked for last, with a TCP event that is still fresh.   *)
ShowsLastAsked ==
    [][(overlay' # overlay /\ overlay' # NoCard /\ faces' = faces) =>
        asked = [user |-> overlay'.user, ok |-> overlay'.ok] /\ overlay'.age <= Fresh]_cardVars

(* A card stays for its full time unless a later one replaces it: no job   *)
(* left over from an earlier card takes it away.                           *)
StaysFullTime == [][overlay # NoCard /\ overlay' = NoCard => shown_for = Seconds]_cardVars

(* Nothing is animated under a hidden card, and one animation at a time.   *)
NoAnimationWhenHidden ==
    /\ overlay = NoCard => frame = "none" /\ \A j \in anim_jobs : j.gen # anim_generation
    /\ \A j, k \in anim_jobs : j.gen = anim_generation /\ k.gen = anim_generation => j = k

(* The page returns to the two channels.                                   *)
ReturnsToChannels == []<>(overlay = NoCard)

(* Events are looked through in the order of their arrival, whichever of   *)
(* them earlier searches left behind.                                      *)
OldestFirst == \A i, j \in DOMAIN Received : i < j => Received[i].age >= Received[j].age

(* No animation outlives its card, and no event its place.                 *)
CardInv == CardTypeOK /\ OldestFirst /\ NoAnimationWhenHidden

(* The right card, for the right time, and then the channels again.        *)
CardFollows == ShowsLastAsked /\ StaysFullTime /\ ReturnsToChannels
=============================================================================
