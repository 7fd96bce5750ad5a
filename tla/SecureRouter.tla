---------------------------- MODULE SecureRouter ----------------------------
(***************************************************************************)
(* The shared engines and the command FIFO of the ZYBO's router, clock by  *)
(* clock (zybo_secure_control_unit_v2.sv): commands that come out of the   *)
(* decrypter are written to the FIFO one clock later, and the FIFO goes    *)
(* before the reports to the PC when the encrypter takes the next packet.  *)
(* KeyInstall and SyncFifo each leave the other's half open; here each     *)
(* drives the other, while the session manager changes the key.            *)
(***************************************************************************)
EXTENDS KeyInstall, SyncFifo

CONSTANT NoWrite

ASSUME NoWriteAssumption == NoWrite \notin Data

VARIABLE wr    \* basys_cmd_fifo_wr with its data: set in one clock, written in the next

routerVars == <<vars, fifoVars, wr>>

RouterInit == Init /\ FifoInit /\ wr = NoWrite
-----------------------------------------------------------------------------
(* A mutant of CommandOpened. *)
CommandInDecrypter == core["dec"] # 0 /\ group_state = "G_RUN"

(* dec_plaintext_valid under session_normal_enable; the result is taken in *)
(* this clock.                                                             *)
CommandOpened == core["dec"] = Steps /\ group_state = "G_RUN"

(* The decision to write looks at full now.  Not every plaintext is a PC   *)
(* command.                                                                *)
RequestWrite == wr' \in IF CommandOpened /\ ~full THEN Data \cup {NoWrite} ELSE {NoWrite}

(* wr_en && !full, and basys_cmd_fifo_rd && !empty. *)
writes == wr # NoWrite /\ ~full
reads == Accepts("enc") /\ ~empty

(* One clock of the FIFO. *)
FifoClock ==
    \/ writes /\ ~reads /\ Write(wr)
    \/ reads /\ ~writes /\ Read
    \/ writes /\ reads /\ WriteRead(wr)
    \/ ~writes /\ ~reads /\ UNCHANGED fifoVars

(* A clock edge.  The encrypter is offered a command, or else what the     *)
(* FIFOs of the Jetson and the sensors hold.                               *)
RouterClock ==
    /\ KeyFsm /\ Schedule /\ Session
    /\ \E ready \in BOOLEAN : Core(Taken(ready))
    /\ FifoClock /\ RequestWrite
    /\ \E other, dec \in BOOLEAN : Offer(~empty' \/ other, dec)

RouterSpec == RouterInit /\ [][RouterClock]_routerVars
FairRouterSpec == RouterSpec /\ WF_routerVars(RouterClock)

-----------------------------------------------------------------------------
(* A write that was decided on finds room, although full is a clock old    *)
(* when the FIFO looks again: no command is lost between the two.          *)
GrantedWriteLands == wr # NoWrite => ~full
=============================================================================
