----------------------------- MODULE KeyInstall -----------------------------
(***************************************************************************)
(* Clock by clock, how the ZYBO gives a new key to an engine pair that is  *)
(* in use: the key FSM of zybo_secure_control_unit_v2.sv, the key schedule *)
(* and handshakes of aes128_gcm_{en,de}crypt_ip.sv, and the part of        *)
(* zybo_session_manager.sv that asks for the key.  GroupRekey takes this   *)
(* for one step; here is what it rests on.  Frames are left out: a packet  *)
(* is the key it was accepted under.                                       *)
(***************************************************************************)
EXTENDS Integers

CONSTANTS Keys, MASTER_KEY,
          Rounds,       \* cycles of the key schedule, 10 in the code
          Steps         \* cycles a packet takes in the core

Engines == {"enc", "dec"}

ASSUME KeyAssumption ==
    /\ MASTER_KEY \in Keys
    /\ Rounds \in Nat \ {0} /\ Steps \in Nat \ {0}

VARIABLES
    group_state, pending_key, reload,       \* session manager; its registered pulse
    key_state, active_key, key_load, done,  \* key FSM and its registered outputs
    round_key, key_valid, round_number,     \* key schedules; round 0: not busy
    core,               \* cycles a packet has been in the core, 0: IDLE
    offered,            \* a packet waits at the engine's input
    under,              \* history: the key the packet was accepted under
    quiet               \* history: no frame has waited for the decrypter in the last installation

session == <<group_state, pending_key, reload>>
fsm == <<key_state, active_key, key_load, done>>
engines == <<round_key, key_valid, round_number, core, under>>
vars == <<session, fsm, engines, offered, quiet>>

Init ==
    /\ group_state = "G_BOOT" /\ pending_key = MASTER_KEY /\ reload = FALSE
    /\ key_state = "KEY_WAIT_READY" /\ active_key = MASTER_KEY /\ done = FALSE
    /\ key_load = [e \in Engines |-> FALSE]
    /\ round_key = [e \in Engines |-> MASTER_KEY]
    /\ key_valid = [e \in Engines |-> FALSE]
    /\ round_number = [e \in Engines |-> 0]
    /\ core = [e \in Engines |-> 0]
    /\ under = [e \in Engines |-> MASTER_KEY]
    /\ offered = [e \in Engines |-> FALSE] /\ quiet = TRUE

-----------------------------------------------------------------------------
(* A mutant of KeyReady. *)
KeyReadyWhenScheduled(e) == round_number[e] = 0

(* Combinational outputs of an engine. *)
KeyReady(e) == round_number[e] = 0 /\ core[e] = 0
InputReady(e) == core[e] = 0 /\ key_valid[e] /\ ~key_load[e]
Accepts(e) == offered[e] /\ InputReady(e)

(* A mutant of Loads. *)
LoadsBusy(e) == key_load[e] /\ round_number[e] = 0

(* key_set_valid && key_set_ready: a load is ignored while the core is busy. *)
Loads(e) == key_load[e] /\ core[e] = 0 /\ round_number[e] = 0

NextRound(n) == IF n \in {0, Rounds} THEN 0 ELSE n + 1

(* One clock of the key schedules. *)
Schedule ==
    /\ round_key' = [e \in Engines |-> IF Loads(e) THEN active_key ELSE round_key[e]]
    /\ round_number' = [e \in Engines |->
          IF Loads(e) THEN 1 ELSE NextRound(round_number[e])]
    /\ key_valid' = [e \in Engines |-> ~Loads(e) /\ (key_valid[e] \/ round_number[e] = Rounds)]

(* A mutant of Taken. *)
TakenByConsumer(ready) == [e \in Engines |-> e = "dec" \/ ready]

(* Whether a result is taken: the decrypter's always is, the encrypter's   *)
(* when its consumer is ready, and outside G_RUN it is discarded.          *)
Taken(ready) == [e \in Engines |-> e = "dec" \/ ready \/ group_state # "G_RUN"]

(* One clock of the cores, which are held in reset without a key; a result *)
(* waits in the last state until it is taken.                              *)
Core(taken) ==
    /\ core' = [e \in Engines |->
          IF ~key_valid[e] THEN 0
          ELSE IF Accepts(e) THEN 1
          ELSE IF core[e] = 0 \/ (core[e] = Steps /\ taken[e]) THEN 0
          ELSE IF core[e] = Steps THEN Steps ELSE core[e] + 1]
    /\ under' = [e \in Engines |-> IF Accepts(e) THEN round_key[e] ELSE under[e]]

-----------------------------------------------------------------------------
(* One clock of the key FSM. *)
KeyWaitReady ==
    /\ key_state = "KEY_WAIT_READY"
    /\ LET ready == \A e \in Engines : KeyReady(e) IN
          /\ key_load' = [e \in Engines |-> ready]
          /\ key_state' = IF ready THEN "KEY_PULSE" ELSE key_state
    /\ done' = FALSE /\ UNCHANGED active_key

KeyPulse ==
    /\ key_state = "KEY_PULSE" /\ key_state' = "KEY_WAIT_VALID"
    /\ key_load' = [e \in Engines |-> FALSE] /\ done' = FALSE
    /\ UNCHANGED active_key

KeyWaitValid ==
    /\ key_state = "KEY_WAIT_VALID"
    /\ done' = (\A e \in Engines : key_valid[e])
    /\ key_state' = IF done' THEN "KEY_ACTIVE" ELSE key_state
    /\ key_load' = [e \in Engines |-> FALSE]
    /\ UNCHANGED active_key

KeyActive ==
    /\ key_state = "KEY_ACTIVE"
    /\ key_state' = IF reload THEN "KEY_WAIT_READY" ELSE key_state
    /\ active_key' = IF reload THEN pending_key ELSE active_key
    /\ key_load' = [e \in Engines |-> FALSE] /\ done' = FALSE

KeyFsm == KeyWaitReady \/ KeyPulse \/ KeyWaitValid \/ KeyActive

-----------------------------------------------------------------------------
(* The session manager: the states in which the engines are concerned.     *)
(* The rounds before the switch and after it are G_REKEY and G_CONFIRM.    *)
NewEpoch(k) ==
    /\ \/ group_state = "G_BOOT" /\ key_state = "KEY_ACTIVE"
       \/ group_state = "G_RUN"
    /\ group_state' = "G_REKEY" /\ pending_key' = k
    /\ reload' = FALSE

Rounds1To4 ==
    /\ group_state = "G_REKEY"
    /\ group_state' = "G_SWITCH_LOCAL"
    /\ reload' = FALSE /\ UNCHANGED pending_key

SwitchLocal ==
    /\ group_state = "G_SWITCH_LOCAL"
    /\ group_state' = "G_WAIT_LOCAL_KEY"
    /\ reload' = TRUE /\ UNCHANGED pending_key

WaitLocalKey ==
    /\ group_state = "G_WAIT_LOCAL_KEY" /\ done
    /\ group_state' = "G_CONFIRM"
    /\ reload' = FALSE /\ UNCHANGED pending_key

ConfirmRounds ==
    /\ group_state = "G_CONFIRM" /\ group_state' = "G_RUN"
    /\ reload' = FALSE /\ UNCHANGED pending_key

Stay ==
    /\ group_state # "G_SWITCH_LOCAL" /\ ~(group_state = "G_WAIT_LOCAL_KEY" /\ done)
    /\ reload' = FALSE /\ UNCHANGED <<group_state, pending_key>>

Session ==
    \/ \E k \in Keys : NewEpoch(k)
    \/ Rounds1To4 \/ SwitchLocal \/ WaitLocalKey \/ ConfirmRounds \/ Stay

(* What waits at the inputs in the next cycle: a packet stays until it is  *)
(* accepted; the encrypter is fed in G_RUN only (session_normal_enable),   *)
(* the decrypter whenever a frame comes.                                   *)
Switching(s) == s \in {"G_SWITCH_LOCAL", "G_WAIT_LOCAL_KEY"}

Offer(enc, dec) ==
    /\ (offered["dec"] /\ ~Accepts("dec")) => dec
    /\ offered' = [e \in Engines |-> IF e = "enc" THEN enc /\ group_state' = "G_RUN" ELSE dec]
    /\ quiet' = (/\ quiet \/ (key_state = "KEY_ACTIVE" /\ reload)
                /\ ~(Switching(group_state') /\ dec))

(* A clock edge. *)
Clock ==
    /\ KeyFsm /\ Schedule /\ Session
    /\ \E ready \in BOOLEAN : Core(Taken(ready))
    /\ \E enc, dec \in BOOLEAN : Offer(enc, dec)

Next == Clock
Spec == Init /\ [][Next]_vars
FairSpec == Spec /\ WF_vars(Clock)

-----------------------------------------------------------------------------
(* Type invariant. *)
TypeOK ==
    /\ group_state \in {"G_BOOT", "G_RUN", "G_REKEY", "G_SWITCH_LOCAL",
                        "G_WAIT_LOCAL_KEY", "G_CONFIRM"}
    /\ key_state \in {"KEY_WAIT_READY", "KEY_PULSE", "KEY_WAIT_VALID", "KEY_ACTIVE"}
    /\ pending_key \in Keys /\ active_key \in Keys
    /\ reload \in BOOLEAN /\ done \in BOOLEAN /\ quiet \in BOOLEAN
    /\ key_load \in [Engines -> BOOLEAN] /\ key_valid \in [Engines -> BOOLEAN]
    /\ offered \in [Engines -> BOOLEAN]
    /\ round_key \in [Engines -> Keys] /\ under \in [Engines -> Keys]
    /\ round_number \in [Engines -> 0..Rounds]
    /\ core \in [Engines -> 0..Steps]

(* KEY HOLD: a packet in a core is finished under the key it was accepted  *)
(* under, and the core is not reset under it.                              *)
KeyHeld == \A e \in Engines :
    core[e] # 0 => key_valid[e] /\ round_key[e] = under[e]

(* When the key FSM reports the key active, both engines hold this key,     *)
(* provided no frame waited for the decrypter while it was installed: one  *)
(* that is accepted just before the load keeps the new key out.            *)
KeyInstalled == quiet /\ key_state = "KEY_ACTIVE" =>
    \A e \in Engines : key_valid[e] /\ round_key[e] = active_key

(* A key that was asked for is reported, whatever the engines are fed. *)
InstallEnds == (group_state = "G_SWITCH_LOCAL") ~> (group_state = "G_CONFIRM")
=============================================================================
