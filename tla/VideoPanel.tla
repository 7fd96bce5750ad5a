----------------------------- MODULE VideoPanel -----------------------------
(***************************************************************************)
(* The picture of channel B on the monitor page of app.py, over the stream *)
(* that receives it: CameraPanel's periodic _update, the master-key test   *)
(* (set_video_key_mode), session events and page changes, all in the UI    *)
(* thread and in any order, beside the thread of CameraStream.  Frames are *)
(* objects, named by the frame of the camera they show: the same name is   *)
(* the same object.  Handshake dropouts are never enabled and no panel     *)
(* modelled has a tint.                                                    *)
(***************************************************************************)
EXTENDS CameraStream

VARIABLES
    cctv_frame,          \* CH-A's last_frame; 0 is None
    video_invalid_mode, jpeg_error_sim, custom_error,   \* the key test, its copy on the panel,
                         \* and whether custom_error_msg is set
    last_frame, signature, tick, last_error,  \* _render_signature, _distortion_tick, _last_error_text
    picture, health,     \* on the screen: the label and the text above it
    active, size              \* _is_render_active(); 0 is a label under 16 pixels

mode   == <<video_invalid_mode, jpeg_error_sim, custom_error>>
render == <<signature, tick, last_error, picture, health>>
panel  == <<cctv_frame, mode, last_frame, render, active, size>>
panelVars == <<vars, panel>>

Frames == 1..MaxFrames   \* of channel B
ChA == MaxFrames + 1     \* the frame of channel A
Sizes == 0..1
None == 0
Named == Frames \union {ChA}
Ticks == 0..2      \* only 0, and whether two values differ, matters: 1 is the count now, 2 an earlier one
NoSignature == [frame |-> None, size |-> 0, tick |-> 0]
Waiting == [kind |-> "wait", frame |-> None, static |-> FALSE]

(* The types of the stream and of the panel; the panel's copies of the key *)
(* test say what it says.                                                  *)
PanelTypeOK ==
    /\ TypeOK /\ video_invalid_mode = b_wrong
    /\ cctv_frame \in {None, ChA}
    /\ video_invalid_mode \in BOOLEAN /\ jpeg_error_sim = video_invalid_mode /\ custom_error = jpeg_error_sim
    /\ last_frame \in Named \union {None}
    /\ signature \in [frame : Named \union {None}, size : Sizes, tick : Ticks]
    /\ tick \in 0..1 /\ last_error \in {"none", "plain", "key"}
    /\ picture \in [kind : {"wait", "picture", "error"}, frame : Named \union {None}, static : BOOLEAN]
    /\ health \in {"READY", "LIVE", "KEY FAIL", "DECRYPT FAIL"}
    /\ active \in BOOLEAN /\ size \in Sizes

PanelInit ==
    /\ Init /\ cctv_frame = None
    /\ video_invalid_mode = FALSE /\ jpeg_error_sim = FALSE /\ custom_error = FALSE
    /\ last_frame = None /\ signature = NoSignature /\ tick = 0 /\ last_error = "none"
    /\ picture = Waiting /\ health = "READY" /\ active = TRUE /\ size = 1
-----------------------------------------------------------------------------
(* CH-A's own panel has drawn a picture of its channel.                    *)
ChannelA ==
    /\ active /\ last_a # 0 /\ cctv_frame' = ChA
    /\ UNCHANGED <<vars, mode, last_frame, render, active, size>>

(* A mutant of SetVideoKeyMode. *)
SetVideoKeyModeSticky(invalid) ==
    /\ video_invalid_mode' = invalid
    /\ jpeg_error_sim' = (jpeg_error_sim \/ invalid) /\ custom_error' = (jpeg_error_sim \/ invalid)
    /\ last_frame' = IF invalid /\ last_frame = None THEN cctv_frame ELSE last_frame
    /\ SetBMasterKey(invalid)
    /\ UNCHANGED <<cctv_frame, render, active, size>>

(* set_video_key_mode: the operator selects the false or the true key.     *)
SetVideoKeyMode(invalid) ==
    /\ video_invalid_mode' = invalid /\ jpeg_error_sim' = invalid /\ custom_error' = invalid
    /\ last_frame' = IF invalid /\ last_frame = None THEN cctv_frame ELSE last_frame
    /\ SetBMasterKey(invalid)
    /\ UNCHANGED <<cctv_frame, render, active, size>>

(* A mutant of SetSecureVideoAllowed. *)
SetSecureVideoAllowedStatic(allowed) ==
    /\ jpeg_error_sim' = (video_invalid_mode \/ ~allowed)
    /\ custom_error' = (video_invalid_mode \/ ~allowed)
    /\ signature' = NoSignature
    /\ UNCHANGED <<vars, cctv_frame, video_invalid_mode, last_frame, tick, last_error, picture,
                   health, active, size>>

(* set_secure_video_allowed, of any session event.                         *)
SetSecureVideoAllowed(allowed) ==
    /\ jpeg_error_sim' = video_invalid_mode
    /\ custom_error' = video_invalid_mode
    /\ signature' = NoSignature
    /\ UNCHANGED <<vars, cctv_frame, video_invalid_mode, last_frame, tick, last_error, picture,
                   health, active, size>>

(* _handle_event: a connection, a key change, a session and a refused frame *)
(* each allow or forbid the video, in the order the client reports them.   *)
HandleEvent == \E allowed \in BOOLEAN : SetSecureVideoAllowed(allowed)

ShowPage(shown) ==   \* on_show invalidates
    /\ active' = shown
    /\ signature' = IF shown THEN NoSignature ELSE signature
    /\ UNCHANGED <<vars, cctv_frame, mode, last_frame, tick, last_error, picture, health, size>>
Resize(s) ==
    /\ size' = s
    /\ UNCHANGED <<vars, cctv_frame, mode, last_frame, render, active>>
-----------------------------------------------------------------------------
(* A mutant of FrameToDraw. *)
FrameToDrawOfB ==
    IF last_b # None \/ ~jpeg_error_sim THEN last_b ELSE last_frame

(* The frame _update draws, with the sources of a static picture.          *)
FrameToDraw ==
    IF last_b # None \/ ~jpeg_error_sim THEN last_b
    ELSE IF last_frame # None THEN last_frame ELSE cctv_frame

(* A mutant of SignatureOf. *)
SignatureOfSize(frame) == [frame |-> None, size |-> size, tick |-> IF jpeg_error_sim THEN tick ELSE 0]

SignatureOf(frame) ==
    [frame |-> frame, size |-> size, tick |-> IF jpeg_error_sim THEN tick ELSE 0]

Plain(frame) == [kind |-> "picture", frame |-> frame, static |-> FALSE]
ApplyKeyMismatchEffect(shown) == [shown EXCEPT !.static = TRUE]

(* A distorted drawing counts the tick up after it has been compared.      *)
Drawn(frame) ==
    /\ tick' = IF jpeg_error_sim THEN 1 ELSE tick
    /\ signature' = IF jpeg_error_sim /\ tick = 1 THEN [SignatureOf(frame) EXCEPT !.tick = 2]
                    ELSE SignatureOf(frame)
    /\ last_error' = "none"

(* A mutant of DrawPicture. *)
DrawPictureHealth(frame) ==
    /\ picture' = [kind |-> "picture", frame |-> frame, static |-> jpeg_error_sim]
    /\ health' = IF health = "READY" \/ jpeg_error_sim THEN IF jpeg_error_sim THEN "KEY FAIL" ELSE "LIVE" ELSE health
    /\ Drawn(frame)

DrawPicture(frame) ==
    /\ picture' = IF jpeg_error_sim THEN ApplyKeyMismatchEffect(Plain(frame)) ELSE Plain(frame)
    /\ health' = IF jpeg_error_sim THEN "KEY FAIL" ELSE "LIVE"
    /\ Drawn(frame)

DrawError ==
    LET text == IF custom_error THEN "key" ELSE "plain"
    IN  IF text = last_error THEN UNCHANGED <<picture, health, tick, signature, last_error>>
        ELSE /\ picture' = [kind |-> "error", frame |-> None, static |-> FALSE]
             /\ health' = "DECRYPT FAIL" /\ last_error' = text
             /\ signature' = NoSignature /\ UNCHANGED tick

(* _update, when its page is shown.                                        *)
Update ==
    /\ active
    /\ LET frame == FrameToDraw
       IN  /\ last_frame' = IF frame = None THEN last_frame ELSE frame
           /\ IF frame = None THEN DrawError
              ELSE IF size = 0 \/ SignatureOf(frame) = signature
              THEN UNCHANGED <<picture, health, tick, signature, last_error>>
              ELSE DrawPicture(frame)
    /\ UNCHANGED <<vars, cctv_frame, mode, active, size>>

StreamStep(A) == A /\ UNCHANGED panel
UiStep == \/ ChannelA \/ Update \/ HandleEvent
          \/ \E b \in BOOLEAN : SetVideoKeyMode(b) \/ ShowPage(b)
          \/ \E s \in Sizes : Resize(s)
PanelNext == \/ StreamStep(NewR) \/ StreamStep(SameRAgain) \/ StreamStep(ClientStep) \/ StreamStep(ServerStep)
             \/ StreamStep(SendFrame) \/ StreamStep(Break) \/ StreamStep(BreakInPacket) \/ UiStep

(* The threads, the server and the timer of _update run.                   *)
PanelSpec == /\ PanelInit /\ [][PanelNext]_panelVars
             /\ WF_panelVars(StreamStep(ClientStep)) /\ WF_panelVars(StreamStep(ServerStep))
             /\ WF_panelVars(Update)
-----------------------------------------------------------------------------
(* "Static is exclusively a manual wrong-master-key effect": a session     *)
(* event never brings it, and with the true key it goes away as soon as    *)
(* the channel has another picture than the one that was distorted.        *)
StaticIsManual == [][picture'.static /\ ~picture.static => video_invalid_mode]_panelVars
StaticGoes == (picture.static /\ ~video_invalid_mode /\ last_b # picture.frame)
                 ~> (~picture.static \/ video_invalid_mode \/ ~active \/ size = 0 \/ last_b = picture.frame)

(* The words above the picture are about the picture.                      *)
HealthMatchesPicture ==
    /\ health = "LIVE" <=> picture.kind = "picture" /\ ~picture.static
    /\ health = "KEY FAIL" <=> picture.static
    /\ health = "DECRYPT FAIL" <=> picture.kind = "error"

(* With the false key the screen does not go empty once either channel has *)
(* had a picture.                                                          *)
NeverEmptyWithFalseKey ==
    [][picture'.kind = "error" /\ picture.kind # "error"
         => ~(jpeg_error_sim /\ (last_frame # None \/ cctv_frame # None))]_panelVars

(* The shown panel comes to the frame the channel has, however long the    *)
(* channel was blank or the page hidden before.                            *)
PictureFollows ==
    \A f \in Frames :
        last_b = f ~> (picture.frame = f \/ last_b # f \/ ~active \/ size = 0)

(* At rest the panel, its words and both ends of the channel agree.        *)
ScreenInv == PanelTypeOK /\ KeysAgreeAtRest /\ HealthMatchesPicture

(* The picture goes or changes only for a reason the operator can know: a  *)
(* key change, a broken connection, or the wrong master key that was set   *)
(* by hand.                                                                *)
OnlyWithCause == BlankOnlyInKeyChange /\ ChannelBBlocked /\ StaticIsManual /\ NeverEmptyWithFalseKey

(* The screen comes to what the channel has, and the channel to the key.   *)
ScreenFollows == FollowsR /\ PictureFollows /\ StaticGoes
=============================================================================
