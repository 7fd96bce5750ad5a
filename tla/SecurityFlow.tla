---------------------------- MODULE SecurityFlow ----------------------------
(***************************************************************************)
(* The live diagram of the rack page (SecurityFlowPanel of app.py): the    *)
(* keys it shows and the stage it lights, fed by the events of             *)
(* SecureSerialClient's threads.  A key is named by the random number R it *)
(* is made of (the master key is the same): the diagram's formula          *)
(* "master XOR random = session" holds when both names are equal.          *)
(***************************************************************************)
EXTENDS Naturals, Sequences

CONSTANTS MaxEpochs,    \* bound on the random numbers of the ZYBO
          MaxEvents,    \* bound on the events waiting for the UI
          MaxCommands   \* bound on the animated commands and faces

ASSUME DiagramAssumption == MaxEpochs \in Nat \ {0} /\ MaxEvents \in Nat /\ MaxCommands \in Nat

VARIABLES
    session_ready, current_random, pending_random, tx_key,  \* the client's fields
    epoch,      \* R's drawn by the ZYBO
    sender,     \* a thread in _send_secure_payload, and the key it has read
    events,     \* the queue to the UI
    random_key, diagram_key, active_stage, flow_enabled,    \* the panel's fields; its session_key
    jobs,       \* scheduled _set_stage calls, one sequence per animation
    route,      \* history: the stages of the last animation, "" at its end
    diagram_active, refreshing, drawn,      \* the page is shown; on_show is due; the canvas
    commands    \* animations begun

client  == <<session_ready, current_random, pending_random, tx_key, epoch>>
diagram == <<random_key, diagram_key, active_stage, flow_enabled, jobs, route, commands>>
view    == <<diagram_active, refreshing, drawn>>
diagramVars == <<client, sender, events, diagram, view>>

Randoms == 0..MaxEpochs   \* 0: none yet; as a session key, the key of the start
Unread  == MaxEpochs + 1
ToRack  == <<"pc_uart", "zybo_decrypt", "zybo_command", "zybo_encrypt", "basys_spi", "basys_return", "pc_uart_up">>
ToDoor  == <<"pc_uart", "zybo_decrypt", "zybo_command", "zybo_encrypt", "jetson_door", "jetson_ack", "pc_uart_up">>
OfFace  == <<"jetson_face", "zybo_decrypt", "zybo_command", "pc_uart_up">>
Stages  == {"", "pc_uart", "zybo_decrypt", "zybo_command", "zybo_encrypt", "basys_spi",
            "basys_return", "pc_uart_up", "jetson_door", "jetson_ack", "jetson_face"}
Event == [type : {"rekeying", "secure", "crypto", "attack"}, random : Randoms, key : Randoms]

(* The blocks and links drawn in orange at a stage.                        *)
Lit(stage) ==
    [jetson |-> stage \in {"jetson_face", "jetson_door", "jetson_ack"},
     pc     |-> stage \in {"pc_uart", "pc_uart_up"},
     zybo   |-> stage \in {"zybo_decrypt", "zybo_command", "zybo_encrypt"},
     basys  |-> stage \in {"basys_spi", "basys_return"},
     spi_jetson |-> stage \in {"jetson_face", "jetson_ack", "jetson_door"},
     uart   |-> stage \in {"pc_uart", "pc_uart_up"},
     spi_basys |-> stage \in {"basys_spi", "basys_return"}]
Picture(random, key, stage) == [random |-> random, key |-> key, lit |-> Lit(stage)]

DiagramTypeOK ==
    /\ session_ready \in BOOLEAN /\ current_random \in Randoms /\ pending_random \in Randoms
    /\ tx_key \in Randoms /\ epoch \in Randoms
    /\ sender \in [step : {"idle", "tested", "written", "read"}, key : Randoms]
    /\ events \in Seq(Event) /\ Len(events) <= MaxEvents
    /\ random_key \in Randoms /\ diagram_key \in Randoms \union {Unread}
    /\ active_stage \in Stages /\ flow_enabled \in BOOLEAN
    /\ jobs \in Seq(Seq(Stages)) /\ Len(jobs) <= 1 /\ route \in Seq(Stages)
    /\ diagram_active \in BOOLEAN /\ refreshing \in BOOLEAN
    /\ commands \in 0..MaxCommands

DiagramInit ==
    /\ session_ready = FALSE /\ current_random = 0 /\ pending_random = 0 /\ tx_key = 0 /\ epoch = 0
    /\ sender = [step |-> "idle", key |-> 0] /\ events = <<>>
    /\ random_key = 0 /\ diagram_key = Unread /\ active_stage = "" /\ flow_enabled = TRUE
    /\ jobs = <<>> /\ route = <<>> /\ commands = 0
    /\ diagram_active = FALSE /\ refreshing = FALSE /\ drawn = Picture(0, Unread, "")
-----------------------------------------------------------------------------
(* The receive thread: _handle_management of the three messages.           *)
Emit(type, random, key) ==
    /\ Len(events) < MaxEvents
    /\ events' = Append(events, [type |-> type, random |-> random, key |-> key])

KeyUpdate ==
    /\ epoch < MaxEpochs /\ epoch' = epoch + 1
    /\ session_ready' = FALSE /\ pending_random' = epoch + 1
    /\ Emit("rekeying", epoch + 1, epoch + 1)
    /\ UNCHANGED <<current_random, tx_key, sender, diagram, view>>
KeyCommit ==
    /\ pending_random # 0 /\ tx_key # pending_random
    /\ tx_key' = pending_random
    /\ UNCHANGED <<session_ready, current_random, pending_random, epoch, sender, events, diagram, view>>
KeyConfirm ==
    /\ pending_random # 0 /\ tx_key = pending_random /\ ~(session_ready /\ current_random = pending_random)
    /\ current_random' = pending_random /\ session_ready' = TRUE
    /\ Emit("secure", pending_random, 0)
    /\ UNCHANGED <<pending_random, tx_key, epoch, sender, diagram, view>>

(* A data frame of the ZYBO, which sends them only in a session.           *)
ReceiveData ==
    /\ session_ready /\ Emit("crypto", current_random, tx_key)
    /\ UNCHANGED <<client, sender, diagram, view>>

(* A sender (the poll, the UI): the test of session_ready, the write, and  *)
(* _emit_crypto, whose caller reads the key before it reads R.             *)
Send ==
    /\ \/ sender.step = "idle" /\ session_ready /\ sender' = [sender EXCEPT !.step = "tested"]
       \/ sender.step = "tested" /\ sender' = [sender EXCEPT !.step = "written"]
       \/ sender.step = "written" /\ sender' = [step |-> "read", key |-> tx_key]
    /\ UNCHANGED <<client, events, diagram, view>>
EmitSent ==
    /\ sender.step = "read" /\ sender' = [step |-> "idle", key |-> 0]
    /\ Emit("crypto", current_random, sender.key)
    /\ UNCHANGED <<client, diagram, view>>
SendInvalidKey ==
    /\ Emit("attack", current_random, tx_key)
    /\ UNCHANGED <<client, sender, diagram, view>>
-----------------------------------------------------------------------------
(* _redraw: only while the page is shown.                                  *)
Redraw(random, key, stage) ==
    drawn' = IF diagram_active THEN Picture(random, key, stage) ELSE drawn

(* A mutant of UpdateSecurity. *)
UpdateSecurityOnce ==
    /\ events # <<>> /\ events' = Tail(events)
    /\ LET e == Head(events)
       IN  /\ random_key' = IF e.type # "attack" /\ e.random # 0 THEN e.random ELSE random_key
           /\ diagram_key' = IF e.type \in {"rekeying", "crypto"} /\ diagram_key = Unread THEN e.key ELSE diagram_key
    /\ Redraw(random_key', diagram_key', active_stage)
    /\ UNCHANGED <<client, sender, active_stage, flow_enabled, jobs, route, commands, diagram_active, refreshing>>

(* update_security and update_crypto: a field an event leaves empty stays; *)
(* an attack's keys are kept for a comparison that is not drawn.           *)
UpdateSecurity ==
    /\ events # <<>> /\ events' = Tail(events)
    /\ LET e == Head(events)
       IN  /\ random_key' = IF e.type # "attack" /\ e.random # 0 THEN e.random ELSE random_key
           /\ diagram_key' = IF e.type \in {"rekeying", "crypto"} THEN e.key ELSE diagram_key
    /\ Redraw(random_key', diagram_key', active_stage)
    /\ UNCHANGED <<client, sender, active_stage, flow_enabled, jobs, route, commands, diagram_active, refreshing>>

(* A mutant of CancelJobs. *)
CancelJobsNot == jobs

(* _animate: the stages still to come of the animation before are cancelled. *)
CancelJobs == <<>>

Animate(stages) ==
    /\ flow_enabled /\ commands < MaxCommands /\ commands' = commands + 1
    /\ route' = Append(stages, "")
    /\ jobs' = Append(CancelJobs, Append(stages, ""))
    /\ UNCHANGED <<client, sender, events, random_key, diagram_key, active_stage, flow_enabled, view>>

SetStage ==
    /\ \E i \in DOMAIN jobs :
        /\ active_stage' = Head(jobs[i])
        /\ jobs' = IF Len(jobs[i]) = 1 THEN SubSeq(jobs, 1, i - 1) \o SubSeq(jobs, i + 1, Len(jobs))
                   ELSE [jobs EXCEPT ![i] = Tail(@)]
    /\ Redraw(random_key, diagram_key, active_stage')
    /\ UNCHANGED <<client, sender, events, random_key, diagram_key, flow_enabled, route, commands, diagram_active, refreshing>>

(* A mutant of SetFlowEnabled. *)
SetFlowEnabledKeepsJobs(enabled) ==
    /\ flow_enabled' = enabled
    /\ active_stage' = IF enabled THEN active_stage ELSE ""
    /\ Redraw(random_key, diagram_key, active_stage')
    /\ UNCHANGED <<client, sender, events, jobs, random_key, diagram_key, route, commands, diagram_active, refreshing>>

(* The key mode of the operator: with the false key nothing is animated.   *)
SetFlowEnabled(enabled) ==
    /\ flow_enabled' = enabled
    /\ IF enabled THEN UNCHANGED <<jobs, active_stage>> ELSE jobs' = <<>> /\ active_stage' = ""
    /\ Redraw(random_key, diagram_key, active_stage')
    /\ UNCHANGED <<client, sender, events, random_key, diagram_key, route, commands, diagram_active, refreshing>>

(* A mutant of ShowRackPage. *)
ShowRackPageUnrefreshed(rack_page) ==
    /\ diagram_active' = rack_page
    /\ UNCHANGED <<client, sender, events, diagram, refreshing, drawn>>

(* show_page: the redraw of the page follows when Tk is idle.              *)
ShowRackPage(rack_page) ==
    /\ diagram_active' = rack_page
    /\ refreshing' = (refreshing \/ rack_page)
    /\ UNCHANGED <<client, sender, events, diagram, drawn>>
Refresh ==
    /\ refreshing /\ refreshing' = FALSE
    /\ Redraw(random_key, diagram_key, active_stage)
    /\ UNCHANGED <<client, sender, events, diagram, diagram_active>>

ShowRacks == ShowRackPage(TRUE)
DiagramNext ==
        \/ KeyUpdate \/ KeyCommit \/ KeyConfirm \/ ReceiveData \/ Send \/ EmitSent \/ SendInvalidKey
        \/ UpdateSecurity \/ SetStage \/ Refresh
        \/ \E stages \in {ToRack, ToDoor, OfFace} : Animate(stages)
        \/ \E enabled \in BOOLEAN : SetFlowEnabled(enabled)
        \/ ShowRacks \/ ShowRackPage(FALSE)

(* The threads and timers run; the ZYBO completes an epoch; polls go on.   *)
(* Strong fairness where only the bound MaxEvents can disable an emission. *)
DiagramSpec == DiagramInit /\ [][DiagramNext]_diagramVars /\ WF_diagramVars(KeyCommit) /\ SF_diagramVars(KeyConfirm)
             /\ WF_diagramVars(Send) /\ SF_diagramVars(EmitSent) /\ WF_diagramVars(UpdateSecurity)
             /\ WF_diagramVars(SetStage) /\ WF_diagramVars(Refresh)
-----------------------------------------------------------------------------
(* What the shown page draws is what the panel's fields say, or a redraw   *)
(* is due: nothing that came while it was hidden is lost.                  *)
DrawnIsCurrent == diagram_active /\ ~refreshing => drawn = Picture(random_key, diagram_key, active_stage)

(* The light follows the route of the last command: no stage of an older   *)
(* animation comes in between.                                             *)
LightFollowsRoute ==
    [][active_stage' # active_stage =>
        \/ active_stage' = "" \/ active_stage' = route[1]
        \/ \E i \in 2..Len(route) : active_stage = route[i - 1] /\ active_stage' = route[i]]_diagramVars

(* With the false key set no stage is lit or scheduled.                    *)
DarkWithFalseKey == ~flow_enabled => active_stage = "" /\ jobs = <<>>

(* The light goes out.                                                     *)
LightGoesOut == active_stage # "" ~> active_stage = ""

(* The formula on the screen, "MASTER KEY XOR ZYBO RANDOM R = SESSION KEY":  *)
(* an emission that reads the key and R while a key change goes on makes it *)
(* false, and the frames that follow put it right.                         *)
FormulaHealed == (diagram_key # Unread /\ random_key # diagram_key) ~> (random_key = diagram_key)

(* What is drawn is what the panel holds, and nothing with the false key.  *)
DiagramInv == DiagramTypeOK /\ DrawnIsCurrent /\ DarkWithFalseKey

(* The light runs along one route and goes out, and the formula becomes    *)
(* true.                                                                   *)
DiagramFollows == LightFollowsRoute /\ LightGoesOut /\ FormulaHealed
=============================================================================
