------------------------- MODULE SecureRouter_proofs -------------------------
(***************************************************************************)
(* The key installation, the FIFO of the router, and their composition,    *)
(* which keeps what is proved of its parts: a clock of the router is a     *)
(* clock of the engines and a step of the FIFO, or none.  Behind them, the *)
(* framing of the line the engines' packets leave on, FrameSync, which     *)
(* shares no variable with the router.                                     *)
(***************************************************************************)
EXTENDS SecureRouter, FrameSync, FiniteSetTheorems, WellFoundedInduction, SequenceTheorems, TLAPS

-----------------------------------------------------------------------------
(* KeyInstall, for any number of keys, length of the key schedule and of   *)
(* the core's work: packets are finished under their own key whatever the engines are *)
(* fed, and if no frame waited for the decrypter in an installation,       *)
(* both engines hold the key that is reported active.                      *)

(* What the schedule's flags say of each other. *)
ScheduleInv == \A e \in Engines :
    /\ key_valid[e] => round_number[e] = 0
    /\ key_load[e] <=> key_state = "KEY_PULSE"

(* Which session state goes with which state of the key FSM. *)
PhaseInv ==
    /\ reload => group_state = "G_WAIT_LOCAL_KEY" /\ key_state = "KEY_ACTIVE" /\ ~done
    /\ (group_state \notin {"G_BOOT", "G_WAIT_LOCAL_KEY"}) => key_state = "KEY_ACTIVE" /\ ~done
    /\ done => key_state = "KEY_ACTIVE"

(* How far the installation is: idle engines that do not listen, a load in *)
(* both, schedules that run or have ended, the key in both.                *)
InstallInv ==
    /\ group_state = "G_BOOT" /\ key_state = "KEY_WAIT_READY" =>
          \A e \in Engines : ~key_valid[e] /\ round_number[e] = 0
    /\ quiet /\ key_state = "KEY_WAIT_READY" =>
          \A e \in Engines : ~key_valid[e] \/ ~offered[e]
    /\ quiet /\ key_state = "KEY_PULSE" =>
          \A e \in Engines : KeyReady(e)
    /\ quiet /\ key_state = "KEY_WAIT_VALID" =>
          \A e \in Engines : round_key[e] = active_key
    /\ KeyInstalled

(* The encrypter is fed in G_RUN only, the decrypter not during a switch. *)
OfferInv ==
    /\ offered["enc"] => group_state = "G_RUN"
    /\ quiet /\ Switching(group_state) => ~offered["dec"]

IInv == TypeOK /\ KeyHeld /\ ScheduleInv /\ PhaseInv /\ OfferInv /\ InstallInv

-----------------------------------------------------------------------------
(* The initial state satisfies the inductive invariant. *)
LEMMA InitInv == Init => IInv
  <1> SUFFICES ASSUME Init PROVE IInv
    OBVIOUS
  <1>1. TypeOK
    <2>1. 0 \in 0..Rounds /\ 0 \in 0..Steps /\ MASTER_KEY \in Keys
      BY KeyAssumption
    <2>2. /\ round_number \in [Engines -> 0..Rounds] /\ core \in [Engines -> 0..Steps]
          /\ round_key \in [Engines -> Keys] /\ under \in [Engines -> Keys]
      BY <2>1 DEF Init
    <2>3. /\ key_load \in [Engines -> BOOLEAN] /\ key_valid \in [Engines -> BOOLEAN]
          /\ offered \in [Engines -> BOOLEAN]
      BY DEF Init
    <2> QED
      BY <2>1, <2>2, <2>3 DEF Init, TypeOK
  <1>2. KeyHeld /\ ScheduleInv
    BY DEF Init, KeyHeld, ScheduleInv
  <1>3. PhaseInv /\ OfferInv
    BY DEF Init, PhaseInv, OfferInv, Switching, Engines
  <1>4. InstallInv
    BY DEF Init, InstallInv, KeyInstalled
  <1> QED
    BY <1>1, <1>2, <1>3, <1>4 DEF IInv

(* A clock edge preserves the types. *)
LEMMA TypeStep == TypeOK /\ Clock => TypeOK'
  <1> SUFFICES ASSUME TypeOK, Clock PROVE TypeOK'
    OBVIOUS
  <1>1. PICK taken \in [Engines -> BOOLEAN] : Core(taken)
    BY DEF Clock, Taken, TypeOK
  <1>2. PICK enc \in BOOLEAN, dec \in BOOLEAN : Offer(enc, dec)
    BY DEF Clock
  <1>3. /\ key_state' \in {"KEY_WAIT_READY", "KEY_PULSE", "KEY_WAIT_VALID", "KEY_ACTIVE"}
        /\ active_key' \in Keys /\ done' \in BOOLEAN
        /\ key_load' \in [Engines -> BOOLEAN]
    BY DEF Clock, TypeOK, KeyFsm, KeyWaitReady, KeyPulse, KeyWaitValid, KeyActive
  <1>4. /\ group_state' \in {"G_BOOT", "G_RUN", "G_REKEY", "G_SWITCH_LOCAL",
                            "G_WAIT_LOCAL_KEY", "G_CONFIRM"}
        /\ pending_key' \in Keys /\ reload' \in BOOLEAN
    BY DEF Clock, TypeOK, Session, NewEpoch, Rounds1To4, SwitchLocal, WaitLocalKey,
           ConfirmRounds, Stay
  <1>5. /\ round_key' \in [Engines -> Keys] /\ key_valid' \in [Engines -> BOOLEAN]
        /\ round_number' \in [Engines -> 0..Rounds]
    BY KeyAssumption DEF Clock, TypeOK, Schedule, NextRound
  <1>6. core' \in [Engines -> 0..Steps] /\ under' \in [Engines -> Keys]
    BY <1>1, KeyAssumption DEF TypeOK, Core
  <1>7. offered' \in [Engines -> BOOLEAN]
    BY <1>2 DEF TypeOK, Offer
  <1>8. quiet' \in BOOLEAN
    BY <1>2, Zenon DEF Offer
  <1> QED
    BY <1>3, <1>4, <1>5, <1>6, <1>7, <1>8 DEF TypeOK

(* The load pulse lasts a cycle, and a valid key is not being scheduled. *)
LEMMA ScheduleStep == TypeOK /\ ScheduleInv /\ Clock => ScheduleInv'
  <1> SUFFICES ASSUME TypeOK, ScheduleInv, Clock, NEW e \in Engines
               PROVE  /\ key_valid'[e] => round_number'[e] = 0
                      /\ key_load'[e] <=> key_state' = "KEY_PULSE"
    BY DEF ScheduleInv
  <1>1. key_valid'[e] => round_number'[e] = 0
    BY KeyAssumption DEF Clock, TypeOK, ScheduleInv, Schedule, NextRound
  <1>2. key_load'[e] <=> key_state' = "KEY_PULSE"
    BY DEF Clock, TypeOK, KeyFsm, KeyWaitReady, KeyPulse, KeyWaitValid, KeyActive
  <1> QED
    BY <1>1, <1>2

(* KEY HOLD: the schedule of an engine that works is not loaded. *)
LEMMA HeldStep == TypeOK /\ KeyHeld /\ ScheduleInv /\ Clock => KeyHeld'
  <1> SUFFICES ASSUME TypeOK, KeyHeld, ScheduleInv, Clock, NEW e \in Engines,
                      core'[e] # 0
               PROVE  key_valid'[e] /\ round_key'[e] = under'[e]
    BY DEF KeyHeld
  <1>1. PICK taken \in [Engines -> BOOLEAN] : Core(taken)
    BY DEF Clock, Taken, TypeOK
  <1>2. Schedule
    BY DEF Clock
  <1>3. key_valid[e]
    BY <1>1 DEF Core, TypeOK
  <1>4. CASE Accepts(e)
    <2>1. ~Loads(e)
      BY <1>4 DEF Accepts, InputReady, Loads
    <2>2. key_valid'[e] /\ round_key'[e] = round_key[e]
      BY <1>2, <1>3, <2>1 DEF Schedule, TypeOK
    <2>3. under'[e] = round_key[e]
      BY <1>1, <1>4 DEF Core, TypeOK
    <2> QED
      BY <2>2, <2>3
  <1>5. CASE ~Accepts(e)
    <2>1. core[e] # 0
      BY <1>1, <1>5 DEF Core, TypeOK
    <2>2. ~Loads(e)
      BY <2>1 DEF Loads
    <2>3. key_valid'[e] /\ round_key'[e] = round_key[e]
      BY <1>2, <1>3, <2>2 DEF Schedule, TypeOK
    <2>4. under'[e] = under[e]
      BY <1>1, <1>5 DEF Core, TypeOK
    <2> QED
      BY <2>1, <2>3, <2>4 DEF KeyHeld
  <1> QED
    BY <1>4, <1>5

(* The session manager waits for the key FSM and is not ahead of it. *)
LEMMA PhaseStep == TypeOK /\ PhaseInv /\ Clock => PhaseInv'
  <1> SUFFICES ASSUME TypeOK, PhaseInv, Clock PROVE PhaseInv'
    OBVIOUS
  <1>1. KeyFsm /\ Session
    BY DEF Clock
  <1>2. done' => key_state' = "KEY_ACTIVE"
    BY <1>1 DEF KeyFsm, KeyWaitReady, KeyPulse, KeyWaitValid, KeyActive
  <1>3. key_state = "KEY_ACTIVE" /\ ~reload => key_state' = "KEY_ACTIVE" /\ ~done'
    BY <1>1 DEF KeyFsm, KeyWaitReady, KeyPulse, KeyWaitValid, KeyActive
  <1>4. reload' => group_state = "G_SWITCH_LOCAL" /\ group_state' = "G_WAIT_LOCAL_KEY"
    BY <1>1 DEF Session, NewEpoch, Rounds1To4, SwitchLocal, WaitLocalKey, ConfirmRounds, Stay
  <1>5. group_state' \notin {"G_BOOT", "G_WAIT_LOCAL_KEY"} =>
           \/ group_state \notin {"G_BOOT", "G_WAIT_LOCAL_KEY"}
           \/ group_state = "G_BOOT" /\ key_state = "KEY_ACTIVE"
           \/ group_state = "G_WAIT_LOCAL_KEY" /\ done
    BY <1>1 DEF Session, NewEpoch, Rounds1To4, SwitchLocal, WaitLocalKey, ConfirmRounds, Stay
  <1>6. reload' => key_state' = "KEY_ACTIVE" /\ ~done'
    BY <1>3, <1>4 DEF PhaseInv
  <1>7. (group_state' \notin {"G_BOOT", "G_WAIT_LOCAL_KEY"}) => key_state' = "KEY_ACTIVE" /\ ~done'
    BY <1>3, <1>5 DEF PhaseInv
  <1> QED
    BY <1>2, <1>4, <1>6, <1>7 DEF PhaseInv

(* What is offered in a switch. *)
LEMMA OfferStep == TypeOK /\ OfferInv /\ Clock => OfferInv'
  <1> SUFFICES ASSUME TypeOK, OfferInv, Clock PROVE OfferInv'
    OBVIOUS
  <1>1. PICK enc \in BOOLEAN, dec \in BOOLEAN : Offer(enc, dec)
    BY DEF Clock
  <1> QED
    BY <1>1 DEF Offer, OfferInv, Engines, Switching

(* The installation goes on in both engines at once. *)
LEMMA InstallStep == IInv /\ Clock => InstallInv'
  <1> SUFFICES ASSUME IInv, Clock PROVE InstallInv'
    OBVIOUS
  <1> USE DEF IInv
  <1>1. PICK taken \in [Engines -> BOOLEAN] : Core(taken)
    BY DEF Clock, Taken, TypeOK
  <1>2. Schedule /\ KeyFsm /\ Session
    BY DEF Clock
  <1>3. OfferInv' /\ PhaseInv' /\ ScheduleInv' /\ TypeOK'
    BY OfferStep, PhaseStep, ScheduleStep, TypeStep
  <1>0. ASSUME quiet', key_state # "KEY_ACTIVE" \/ key_state' = "KEY_ACTIVE" PROVE quiet
    <2>1. ~(key_state = "KEY_ACTIVE" /\ reload)
      BY <1>0, <1>2 DEF KeyFsm, KeyWaitReady, KeyPulse, KeyWaitValid, KeyActive
    <2> QED
      BY <1>0, <2>1 DEF Clock, Offer
  <1>4. ASSUME NEW e \in Engines, ~Loads(e)
        PROVE  /\ round_key'[e] = round_key[e]
               /\ key_valid[e] => key_valid'[e]
               /\ round_number[e] = 0 => /\ round_number'[e] = 0
                                         /\ ~key_valid[e] => ~key_valid'[e]
    BY <1>2, <1>4, KeyAssumption DEF Schedule, TypeOK, NextRound
  <1>5. ASSUME group_state' = "G_BOOT", key_state' = "KEY_WAIT_READY", NEW e \in Engines
        PROVE  ~key_valid'[e] /\ round_number'[e] = 0
    <2>1. group_state = "G_BOOT"
      BY <1>2, <1>5 DEF Session, NewEpoch, Rounds1To4, SwitchLocal, WaitLocalKey,
                        ConfirmRounds, Stay
    <2>2. key_state = "KEY_WAIT_READY"
      BY <1>2, <1>5, <2>1 DEF KeyFsm, KeyWaitReady, KeyPulse, KeyWaitValid, KeyActive,
                              PhaseInv, TypeOK
    <2>3. ~Loads(e)
      BY <2>2 DEF Loads, ScheduleInv
    <2> QED
      BY <1>4, <2>1, <2>2, <2>3 DEF InstallInv
  <1>6. ASSUME quiet', key_state' = "KEY_WAIT_READY", NEW e \in Engines
        PROVE  ~key_valid'[e] \/ ~offered'[e]
    <2>1. group_state' \in {"G_BOOT", "G_WAIT_LOCAL_KEY"}
      BY <1>3, <1>6 DEF PhaseInv, TypeOK
    <2>2. CASE group_state' = "G_BOOT"
      BY <1>5, <1>6, <2>2
    <2>3. CASE group_state' = "G_WAIT_LOCAL_KEY"
      BY <1>3, <1>6, <2>3 DEF OfferInv, Switching, Engines
    <2> QED
      BY <2>1, <2>2, <2>3
  <1>7. ASSUME quiet', key_state' = "KEY_PULSE", NEW e \in Engines
        PROVE  KeyReady(e)'
    <2>1. key_state = "KEY_WAIT_READY" /\ \A d \in Engines : KeyReady(d)
      BY <1>2, <1>7 DEF KeyFsm, KeyWaitReady, KeyPulse, KeyWaitValid, KeyActive
    <2>2. ~Loads(e)
      BY <2>1 DEF Loads, ScheduleInv
    <2>3. round_number'[e] = 0
      BY <1>4, <2>1, <2>2 DEF KeyReady
    <2>4. ~Accepts(e)
      <3>1. ~key_valid[e] \/ ~offered[e]
        BY <1>0, <1>7, <2>1 DEF InstallInv
      <3> QED
        BY <3>1 DEF Accepts, InputReady
    <2>5. core'[e] = 0
      BY <1>1, <2>1, <2>4 DEF Core, KeyReady, TypeOK
    <2> QED
      BY <2>3, <2>5 DEF KeyReady
  <1>8. ASSUME quiet', key_state' = "KEY_WAIT_VALID", NEW e \in Engines
        PROVE  round_key'[e] = active_key'
    <2>1. /\ key_state \in {"KEY_PULSE", "KEY_WAIT_VALID"}
          /\ active_key' = active_key
      BY <1>2, <1>8 DEF KeyFsm, KeyWaitReady, KeyPulse, KeyWaitValid, KeyActive
    <2>2. CASE key_state = "KEY_PULSE"
      <3>1. Loads(e)
        <4>1. key_load[e]
          BY <2>2 DEF ScheduleInv
        <4>2. KeyReady(e)
          BY <1>0, <1>8, <2>2 DEF InstallInv
        <4> QED
          BY <4>1, <4>2 DEF Loads, KeyReady
      <3> QED
        BY <1>2, <2>1, <3>1 DEF Schedule, TypeOK
    <2>3. CASE key_state = "KEY_WAIT_VALID"
      <3>1. ~Loads(e)
        BY <2>3 DEF Loads, ScheduleInv
      <3>2. round_key[e] = active_key
        BY <1>0, <1>8, <2>3 DEF InstallInv
      <3> QED
        BY <1>4, <2>1, <3>1, <3>2
    <2> QED
      BY <2>1, <2>2, <2>3
  <1>9. ASSUME quiet', key_state' = "KEY_ACTIVE", NEW e \in Engines
        PROVE  key_valid'[e] /\ round_key'[e] = active_key'
    <2>1. \/ key_state = "KEY_WAIT_VALID" /\ \A d \in Engines : key_valid[d]
          \/ key_state = "KEY_ACTIVE"
      BY <1>2, <1>9 DEF KeyFsm, KeyWaitReady, KeyPulse, KeyWaitValid, KeyActive
    <2>2. active_key' = active_key
      BY <1>2, <1>9 DEF KeyFsm, KeyWaitReady, KeyPulse, KeyWaitValid, KeyActive
    <2>3. ~Loads(e)
      BY <2>1 DEF Loads, ScheduleInv
    <2>4. key_valid[e] /\ round_key[e] = active_key
      <3>1. CASE key_state = "KEY_WAIT_VALID"
        BY <1>0, <1>9, <2>1, <3>1 DEF InstallInv
      <3>2. CASE key_state = "KEY_ACTIVE"
        BY <1>0, <1>9, <3>2 DEF InstallInv, KeyInstalled
      <3> QED
        BY <2>1, <3>1, <3>2
    <2> QED
      BY <1>4, <2>2, <2>3, <2>4
  <1> QED
    BY <1>5, <1>6, <1>7, <1>8, <1>9 DEF InstallInv, KeyInstalled, KeyReady

(* The inductive invariant holds in every behaviour. *)
THEOREM Inductive == Spec => []IInv
  <1>1. IInv /\ Clock => IInv'
    BY TypeStep, ScheduleStep, HeldStep, PhaseStep, OfferStep, InstallStep DEF IInv
  <1>2. IInv /\ UNCHANGED vars => IInv'
    BY DEF IInv, TypeOK, KeyHeld, ScheduleInv, PhaseInv, OfferInv, InstallInv, KeyInstalled,
           KeyReady, Switching, vars, session, fsm, engines
  <1> QED
    BY InitInv, <1>1, <1>2, PTL DEF Spec, Next

(* Every variable keeps its type. *)
THEOREM TypeCorrect == Spec => []TypeOK
  BY Inductive, PTL DEF IInv

(* A packet is finished under the key it was accepted under, whatever the  *)
(* engines are fed: this is the KEY HOLD of the README.                    *)
THEOREM PacketsKeepTheirKey == Spec => []KeyHeld
  BY Inductive, PTL DEF IInv

(* If no frame waited for the decrypter in its installation, an active key *)
(* is the key of both engines.                                             *)
THEOREM BothEnginesInstall == Spec => []KeyInstalled
  BY Inductive, PTL DEF IInv, InstallInv

-----------------------------------------------------------------------------
(* SyncFifo: for every depth above one and every kind of data, the FIFO    *)
(* implements the bounded queue of the same capacity.                      *)

FifoInv == FifoTypeOK /\ CountIsDistance

(* The pointers go round by one slot. *)
LEMMA AdvanceWraps ==
    ASSUME NEW p \in Slots
    PROVE  Advance(p) = Wrap(p + 1) /\ Advance(p) \in Slots
  <1> USE DepthAssumption DEF Slots
  <1>1. CASE p + 1 = DEPTH
    BY <1>1 DEF Advance, Wrap
  <1>2. CASE p + 1 < DEPTH
    BY <1>2 DEF Advance, Wrap
  <1> QED
    BY <1>1, <1>2

(* Going on by one slot before or after n others is the same. *)
LEMMA WrapCommutes ==
    ASSUME NEW p \in Slots, NEW n \in 0..DEPTH - 1
    PROVE  Wrap(Wrap(p + n) + 1) = Wrap(Wrap(p + 1) + n)
  <1>1. CASE p + n + 1 < DEPTH
    BY <1>1, DepthAssumption DEF Wrap, Slots
  <1>2. CASE p + n + 1 = DEPTH
    BY <1>2, DepthAssumption DEF Wrap, Slots
  <1>3. CASE p + n + 1 > DEPTH
    BY <1>3, DepthAssumption DEF Wrap, Slots
  <1> QED
    BY <1>1, <1>2, <1>3, DepthAssumption DEF Slots

(* Types and the distance of the pointers are preserved: at the start ... *)
LEMMA InitFifo == FifoInit => FifoInv
  BY DepthAssumption DEF FifoInit, FifoInv, FifoTypeOK, CountIsDistance, Wrap, Slots

(* ... by every step. *)
LEMMA StepFifo == FifoInv /\ [FifoNext]_fifoVars => FifoInv'
  <1> SUFFICES ASSUME FifoInv, [FifoNext]_fifoVars PROVE FifoInv'
    OBVIOUS
  <1> USE DepthAssumption DEF FifoInv, FifoTypeOK, CountIsDistance
  <1>1. /\ Advance(wr_ptr) = Wrap(wr_ptr + 1) /\ Advance(wr_ptr) \in Slots
        /\ Advance(rd_ptr) = Wrap(rd_ptr + 1) /\ Advance(rd_ptr) \in Slots
    BY AdvanceWraps
  <1>2. ASSUME NEW d \in Data, Write(d)
        PROVE  FifoInv'
    <2>1. mem' \in [Slots -> Data] /\ count' \in 0..DEPTH
      BY <1>2 DEF Write, full
    <2>2. wr_ptr' \in Slots /\ rd_ptr' \in Slots
      BY <1>1, <1>2 DEF Write
    <2>3. wr_ptr' = Wrap(rd_ptr' + count')
      <3>1. rd_ptr' = rd_ptr /\ count' = count + 1 /\ wr_ptr' = Wrap(wr_ptr + 1)
        BY <1>1, <1>2 DEF Write
      <3>2. rd_ptr + (count + 1) = (rd_ptr + count) + 1
        BY <1>1 DEF Slots
      <3>3. wr_ptr = Wrap(rd_ptr + count)
        OBVIOUS
      <3> QED
        BY <1>1, <1>2, <3>1, <3>2, <3>3 DEF Write, full, Wrap, Slots
    <2> QED
      BY <2>1, <2>2, <2>3 DEF Wrap
  <1>3. ASSUME NEW d \in Data, WriteRead(d)
        PROVE  FifoInv'
    <2>1. mem' \in [Slots -> Data] /\ count' \in 0..DEPTH
      BY <1>3 DEF WriteRead
    <2>2. wr_ptr' \in Slots /\ rd_ptr' \in Slots
      BY <1>1, <1>3 DEF WriteRead
    <2>3. wr_ptr' = Wrap(rd_ptr' + count')
      <3>1. count \in 0..DEPTH - 1
        BY <1>3 DEF WriteRead, full
      <3>2. wr_ptr' = Wrap(Wrap(rd_ptr + count) + 1) /\ rd_ptr' = Wrap(rd_ptr + 1) /\ count' = count
        BY <1>1, <1>3 DEF WriteRead
      <3> QED
        BY <3>1, <3>2, WrapCommutes
    <2> QED
      BY <2>1, <2>2, <2>3 DEF Wrap
  <1>4. CASE Read
    <2>1. /\ count \in 1..DEPTH /\ count' = count - 1 /\ rd_ptr' = Wrap(rd_ptr + 1)
          /\ rd_ptr' \in Slots /\ UNCHANGED <<wr_ptr, mem>>
      BY <1>1, <1>4 DEF Read, empty
    <2>2. Wrap(rd_ptr' + count') = Wrap(rd_ptr + count)
      BY <2>1 DEF Wrap, Slots
    <2> QED
      BY <2>1, <2>2 DEF Wrap
  <1>5. CASE UNCHANGED fifoVars
    BY <1>5 DEF fifoVars, Wrap
  <1> QED
    BY <1>2, <1>3, <1>4, <1>5 DEF FifoNext

(* Types and the distance of the pointers, in every behaviour. *)
THEOREM FifoCorrect == FifoSpec => [](FifoTypeOK /\ CountIsDistance)
  BY InitFifo, StepFifo, PTL DEF FifoSpec, FifoInv

-----------------------------------------------------------------------------
(* The elements between two pointers are a sequence. *)
LEMMA ElementsIsSeq ==
    ASSUME NEW m \in [Slots -> Data], NEW first \in Slots, NEW n \in 0..DEPTH
    PROVE  /\ Elements(m, first, n) \in Seq(Data) /\ Len(Elements(m, first, n)) = n
           /\ \A i \in 1..n : Elements(m, first, n)[i] = m[Wrap(first + i - 1)]
  <1>1. \A i \in 1..n : Wrap(first + i - 1) \in Slots
    BY DepthAssumption DEF Wrap, Slots
  <1>2. Elements(m, first, n) \in [1..n -> Data]
    BY <1>1 DEF Elements
  <1>3. n \in Nat
    BY DepthAssumption
  <1> QED
    BY <1>2, <1>3 DEF Elements

(* One element more, behind the others. *)
LEMMA ElementsAppend ==
    ASSUME NEW m \in [Slots -> Data], NEW first \in Slots, NEW n \in 0..DEPTH - 1,
           NEW d \in Data
    PROVE  Elements([m EXCEPT ![Wrap(first + n)] = d], first, n + 1)
             = Append(Elements(m, first, n), d)
  <1> DEFINE m2 == [m EXCEPT ![Wrap(first + n)] = d]
             old == Elements(m, first, n)
             new == Elements(m2, first, n + 1)
  <1>1. Wrap(first + n) \in Slots /\ m2 \in [Slots -> Data]
    BY DepthAssumption DEF Wrap, Slots
  <1>2. \A i \in 1..n : Wrap(first + i - 1) \in Slots /\ Wrap(first + i - 1) # Wrap(first + n)
    BY DepthAssumption DEF Wrap, Slots
  <1>3. /\ old \in Seq(Data) /\ Len(old) = n
        /\ \A i \in 1..n : old[i] = m[Wrap(first + i - 1)]
    BY ElementsIsSeq, DepthAssumption
  <1>4. n + 1 \in 0..DEPTH
    BY DepthAssumption
  <1>5. /\ new \in Seq(Data) /\ Len(new) = n + 1
        /\ \A i \in 1..n + 1 : new[i] = m2[Wrap(first + i - 1)]
    BY <1>1, <1>4, ElementsIsSeq
  <1>6. m2[Wrap(first + n)] = d /\ \A j \in Slots \ {Wrap(first + n)} : m2[j] = m[j]
    BY <1>1
  <1> HIDE DEF old, new, m2
  <1>7. \A i \in 1..n : new[i] = old[i]
    <2> SUFFICES ASSUME NEW i \in 1..n PROVE new[i] = old[i]
      OBVIOUS
    <2>1. i \in 1..n + 1
      BY DepthAssumption
    <2> QED
      BY <1>2, <1>3, <1>5, <1>6, <2>1
  <1>8. new[n + 1] = d
    <2>1. n + 1 \in 1..n + 1 /\ first + (n + 1) - 1 = first + n
      BY DepthAssumption DEF Slots
    <2> QED
      BY <1>5, <1>6, <2>1
  <1>9. /\ Append(old, d) \in Seq(Data) /\ Len(Append(old, d)) = n + 1
        /\ \A i \in 1..n : Append(old, d)[i] = old[i]
        /\ Append(old, d)[n + 1] = d
    BY <1>3, AppendProperties
  <1>10. \A i \in 1..n + 1 : new[i] = Append(old, d)[i]
    BY <1>7, <1>8, <1>9, DepthAssumption
  <1>11. new = Append(old, d)
    BY <1>5, <1>9, <1>10, SeqEqual
  <1> QED
    BY <1>11 DEF old, new, m2

(* One element less: the first slot is left. *)
LEMMA ElementsTail ==
    ASSUME NEW m \in [Slots -> Data], NEW first \in Slots, NEW n \in 1..DEPTH
    PROVE  Elements(m, Wrap(first + 1), n - 1) = Tail(Elements(m, first, n))
  <1> DEFINE old == Elements(m, first, n)
             new == Elements(m, Wrap(first + 1), n - 1)
  <1>1. /\ old \in Seq(Data) /\ Len(old) = n
        /\ \A i \in 1..n : old[i] = m[Wrap(first + i - 1)]
    BY ElementsIsSeq, DepthAssumption
  <1>2. Wrap(first + 1) \in Slots /\ n - 1 \in 0..DEPTH
    BY DepthAssumption DEF Wrap, Slots
  <1>3. /\ new \in Seq(Data) /\ Len(new) = n - 1
        /\ \A i \in 1..n - 1 : new[i] = m[Wrap(Wrap(first + 1) + i - 1)]
    BY <1>2, ElementsIsSeq
  <1>4. \A i \in 1..n - 1 : Wrap(Wrap(first + 1) + i - 1) = Wrap(first + (i + 1) - 1)
    BY DepthAssumption DEF Wrap, Slots
  <1>5. ASSUME NEW i \in 1..n - 1 PROVE new[i] = old[i + 1]
    <2>1. i + 1 \in 1..n
      BY DepthAssumption
    <2>2. new[i] = m[Wrap(first + (i + 1) - 1)]
      BY <1>3, <1>4
    <2> QED
      BY <1>1, <2>1, <2>2
  <1> HIDE DEF old, new
  <1>6. old # <<>>
    BY <1>1
  <1>7. /\ Tail(old) \in Seq(Data) /\ Len(Tail(old)) = n - 1
        /\ \A i \in 1..n - 1 : Tail(old)[i] = old[i + 1]
    BY <1>1, <1>6, HeadTailProperties
  <1>8. new = Tail(old)
    BY <1>3, <1>5, <1>7, SeqEqual
  <1> QED
    BY <1>8 DEF old, new

-----------------------------------------------------------------------------
(* Each operation of the FIFO is one of the queue. *)
LEMMA StepImplements == FifoInv /\ [FifoNext]_fifoVars => [Queue!Next]_Contents
  <1> SUFFICES ASSUME FifoInv, [FifoNext]_fifoVars PROVE [Queue!Next]_Contents
    OBVIOUS
  <1>1. /\ mem \in [Slots -> Data] /\ rd_ptr \in Slots /\ wr_ptr \in Slots
        /\ count \in 0..DEPTH /\ wr_ptr = Wrap(rd_ptr + count)
        /\ Advance(rd_ptr) = Wrap(rd_ptr + 1)
    BY AdvanceWraps DEF FifoInv, FifoTypeOK, CountIsDistance
  <1>2. Contents \in Seq(Data) /\ Len(Contents) = count
    BY <1>1, ElementsIsSeq DEF Contents
  <1>3. ASSUME NEW d \in Data, Write(d)
        PROVE  Queue!Put(d)
    <2>1. count \in 0..DEPTH - 1
      BY <1>1, <1>3, DepthAssumption DEF Write, full
    <2>2. Contents' = Elements([mem EXCEPT ![Wrap(rd_ptr + count)] = d], rd_ptr, count + 1)
      BY <1>1, <1>3 DEF Contents, Write
    <2>3. Contents' = Append(Contents, d)
      BY <1>1, <2>1, <2>2, ElementsAppend DEF Contents
    <2> QED
      BY <1>2, <2>1, <2>3, DepthAssumption DEF Queue!Put
  <1>4. ASSUME Read
        PROVE  Queue!Get
    <2>1. count \in 1..DEPTH
      BY <1>1, <1>4 DEF Read, empty
    <2>2. Contents' = Elements(mem, Wrap(rd_ptr + 1), count - 1)
      BY <1>1, <1>4 DEF Contents, Read
    <2>3. Contents' = Tail(Contents)
      BY <1>1, <2>1, <2>2, ElementsTail DEF Contents
    <2>4. Contents # <<>>
      BY <1>2, <2>1
    <2> QED
      BY <2>3, <2>4 DEF Queue!Get
  <1>5. ASSUME NEW d \in Data, WriteRead(d)
        PROVE  Queue!PutGet(d)
    <2>1. count \in 1..DEPTH - 1 /\ count \in 0..DEPTH - 1 /\ count \in 1..DEPTH
      BY <1>1, <1>5, DepthAssumption DEF WriteRead, full, empty
    <2> DEFINE first == Wrap(rd_ptr + 1)
    <2>2. first \in Slots /\ Wrap(first + (count - 1)) = Wrap(rd_ptr + count)
      BY <1>1, <2>1, DepthAssumption DEF Wrap, Slots
    <2>3. count - 1 \in 0..DEPTH - 1 /\ (count - 1) + 1 = count
      BY <2>1, DepthAssumption
    <2>4. Contents' = Elements([mem EXCEPT ![Wrap(first + (count - 1))] = d], first, (count - 1) + 1)
      BY <1>1, <1>5, <2>2, <2>3 DEF Contents, WriteRead
    <2> HIDE DEF first
    <2>5. Contents' = Append(Elements(mem, first, count - 1), d)
      BY <1>1, <2>2, <2>3, <2>4, ElementsAppend
    <2>6. Elements(mem, first, count - 1) = Tail(Contents)
      BY <1>1, <2>1, ElementsTail DEF Contents, first
    <2>7. Contents # <<>>
      BY <1>2, <2>1
    <2> QED
      BY <1>2, <2>1, <2>5, <2>6, <2>7, DepthAssumption DEF Queue!PutGet
  <1>6. ASSUME UNCHANGED fifoVars
        PROVE  UNCHANGED Contents
    BY <1>6 DEF fifoVars, Contents, Elements
  <1> QED
    BY <1>3, <1>4, <1>5, <1>6 DEF FifoNext, Queue!Next

(* The FIFO implements the bounded queue of its depth. *)
THEOREM FifoImplementsQueue == FifoSpec => ImplementsQueue
  <1>1. FifoInit => Queue!Init
    <2>1. FifoInit => Contents = <<>>
      BY DEF FifoInit, Contents, Elements
    <2> QED
      BY <2>1 DEF Queue!Init
  <1> QED
    BY InitFifo, StepFifo, StepImplements, <1>1, PTL DEF FifoSpec, ImplementsQueue, Queue!Spec

-----------------------------------------------------------------------------
(* The router.                                                             *)

(* A clock of the router is a clock of KeyInstall. *)
LEMMA RouterIsClock == [RouterClock]_routerVars => [Next]_vars
  <1>1. ASSUME RouterClock PROVE Clock
    <2>1. PICK other \in BOOLEAN, dec \in BOOLEAN : Offer(~empty' \/ other, dec)
      BY <1>1 DEF RouterClock
    <2>2. (~empty' \/ other) \in BOOLEAN
      OBVIOUS
    <2>3. \E enc, d \in BOOLEAN : Offer(enc, d)
      BY <2>1, <2>2
    <2>4. KeyFsm /\ Schedule /\ Session /\ (\E ready \in BOOLEAN : Core(Taken(ready)))
      BY <1>1 DEF RouterClock
    <2> QED
      BY <2>3, <2>4 DEF Clock
  <1>2. UNCHANGED routerVars => UNCHANGED vars
    BY DEF routerVars
  <1> QED
    BY <1>1, <1>2 DEF Next

(* What is written is a command. *)
LEMMA WrittenIsData == wr \in Data \cup {NoWrite} /\ writes => wr \in Data
  BY DEF writes

LEMMA WrStep == wr \in Data \cup {NoWrite} /\ [RouterClock]_routerVars => (wr \in Data \cup {NoWrite})'
  BY DEF RouterClock, RequestWrite, routerVars

(* A clock of the router is a step of the FIFO, or leaves it alone. *)
LEMMA RouterIsFifo ==
    wr \in Data \cup {NoWrite} /\ [RouterClock]_routerVars => [FifoNext]_fifoVars
  <1> SUFFICES ASSUME wr \in Data \cup {NoWrite}, [RouterClock]_routerVars
               PROVE  [FifoNext]_fifoVars
    OBVIOUS
  <1>1. CASE RouterClock
    <2>1. FifoClock
      BY <1>1 DEF RouterClock
    <2> QED
      BY <2>1, WrittenIsData DEF FifoClock, FifoNext
  <1>2. CASE UNCHANGED routerVars
    BY <1>2 DEF routerVars
  <1> QED
    BY <1>1, <1>2

(* The engines of the router behave as KeyInstall says ... *)
THEOREM RouterImplementsKeyInstall == RouterSpec => Spec
  <1>1. RouterInit => Init
    BY DEF RouterInit
  <1> QED
    BY <1>1, RouterIsClock, PTL DEF RouterSpec, Spec

(* ... and its FIFO as SyncFifo says. *)
THEOREM RouterImplementsFifo == RouterSpec => FifoSpec
  <1>1. RouterInit => FifoInit /\ wr \in Data \cup {NoWrite}
    BY DEF RouterInit
  <1> QED
    BY <1>1, WrStep, RouterIsFifo, PTL DEF RouterSpec, FifoSpec

(* So the commands of the router wait in a bounded queue, whatever the     *)
(* engines do, ...                                                         *)
THEOREM RouterImplementsQueue == RouterSpec => ImplementsQueue
  BY RouterImplementsFifo, FifoImplementsQueue

(* ... and whatever the FIFO feeds them, the engines keep a packet's key   *)
(* and install the key of an undisturbed epoch.                            *)
THEOREM RouterKeepsKeys == RouterSpec => [](KeyHeld /\ KeyInstalled)
  BY RouterImplementsKeyInstall, PacketsKeepTheirKey, BothEnginesInstall, PTL

-----------------------------------------------------------------------------
(* A write that was decided on: a packet has just left the decrypter, and  *)
(* takes Steps clocks, more than one, to come again.                       *)
GrantInv ==
    wr # NoWrite => count < DEPTH /\ core["dec"] # Steps

(* The decrypter's core is idle in the clock after it has presented its    *)
(* plaintext, or takes up a packet that is more than a clock away.         *)
LEMMA AfterOpened ==
    ASSUME Steps > 1, TypeOK, core["dec"] = Steps, RouterClock
    PROVE  core'["dec"] # Steps
  <1>1. PICK ready \in BOOLEAN : Core(Taken(ready))
    BY DEF RouterClock
  <1>2. "dec" \in Engines /\ Taken(ready)["dec"]
    BY DEF Engines, Taken
  <1>3. core'["dec"] \in {0, 1}
    BY <1>1, <1>2, KeyAssumption DEF Core, TypeOK
  <1> QED
    BY <1>3, KeyAssumption

(* While nothing is granted the FIFO does not fill up by itself.           *)
LEMMA GrantStep ==
    ASSUME Steps > 1
    PROVE  TypeOK /\ FifoTypeOK /\ GrantInv /\ [RouterClock]_routerVars => GrantInv'
  <1> SUFFICES ASSUME TypeOK, FifoTypeOK, GrantInv, [RouterClock]_routerVars, wr' # NoWrite
               PROVE  count' < DEPTH /\ core'["dec"] # Steps
    BY DEF GrantInv
  <1>1. CASE RouterClock
    <2>1. core["dec"] = Steps /\ ~full
      BY <1>1 DEF RouterClock, RequestWrite, CommandOpened
    <2>2. wr = NoWrite
      BY <2>1 DEF GrantInv
    <2>3. count' = count \/ count' = count - 1
      BY <1>1, <2>2 DEF RouterClock, FifoClock, writes, Read, fifoVars
    <2>4. count < DEPTH /\ count \in Nat
      BY <2>1, DepthAssumption DEF FifoTypeOK, full
    <2>5. core'["dec"] # Steps
      BY <1>1, <2>1, AfterOpened
    <2> QED
      BY <2>3, <2>4, <2>5, DepthAssumption
  <1>2. CASE UNCHANGED routerVars
    BY <1>2 DEF routerVars, vars, fifoVars, engines, GrantInv
  <1> QED
    BY <1>1, <1>2

(* No command is lost between the look at full and the write, for every    *)
(* depth of the FIFO and every decrypter that takes more than one clock.   *)
THEOREM GrantsLand == ASSUME Steps > 1 PROVE RouterSpec => []GrantedWriteLands
  <1>1. RouterInit => GrantInv
    BY DEF RouterInit, GrantInv
  <1>2. TypeOK /\ FifoTypeOK /\ GrantInv /\ [RouterClock]_routerVars => GrantInv'
    BY Steps > 1, GrantStep
  <1>3. GrantInv /\ FifoTypeOK => GrantedWriteLands
    BY DepthAssumption DEF GrantInv, GrantedWriteLands, FifoTypeOK, full
  <1> QED
    BY <1>1, <1>2, <1>3, RouterImplementsKeyInstall, RouterImplementsFifo, TypeCorrect,
       FifoCorrect, PTL DEF RouterSpec

-----------------------------------------------------------------------------
(* FrameSync: the serial line on which the engines' frames leave.          *)
(* Frames and bytes. *)
LEMMA FrameBytes ==
    ASSUME NEW f \in Frames
    PROVE  /\ f \in Seq(Bytes) /\ Len(f) = FrameSize /\ f[1] = "A5" /\ f[2] = "5A"
           /\ "A5" \in Bytes /\ "5A" \in Bytes
  <1>1. /\ f \in Seq(Range(f)) /\ Len(f) = FrameSize /\ SubSeq(f, 1, 2) = Magic
        /\ FrameSize \in Nat /\ FrameSize > 2
    BY FrameAssumption
  <1>2. Range(f) \subseteq Bytes
    BY DEF Bytes
  <1>3. f \in Seq(Bytes)
    BY <1>1, <1>2, SeqMonotonic
  <1>4. SubSeq(f, 1, 2)[1] = f[1] /\ SubSeq(f, 1, 2)[2] = f[2]
    BY <1>1, <1>3
  <1>5. Magic[1] = "A5" /\ Magic[2] = "5A"
    BY DEF Magic
  <1>6. f[1] \in Bytes /\ f[2] \in Bytes
    BY <1>1, <1>3
  <1> QED
    BY <1>1, <1>3, <1>4, <1>5, <1>6

(* The two bytes a frame begins with. *)
LEMMA Magics == ASSUME "A5" \in Bytes, "5A" \in Bytes
                PROVE  /\ Magic \in Seq(Bytes) /\ Len(Magic) = 2
                       /\ Magic[1] = "A5" /\ Magic[2] = "5A"
                       /\ <<"A5">> \in Seq(Bytes) /\ Len(<<"A5">>) = 1
                       /\ <<>> \in Seq(Bytes) /\ Len(<<>>) = 0
  BY EmptySeq DEF Magic

-----------------------------------------------------------------------------
(* Types. *)
Collected(st, n) ==
    \/ st = "WAIT_A5" /\ n = 0
    \/ st = "WAIT_5A" /\ n = 1
    \/ st = "COLLECT" /\ n \in 2..FrameSize - 1
    \/ st = "HOLD" /\ n = FrameSize
HardwareOK == packet \in Seq(Bytes) /\ Collected(state, Len(packet)) /\ missed \in BOOLEAN
LineOK ==
    /\ frame \in Frames /\ pos \in 0..FrameSize
    /\ faults \in 0..MaxFaults /\ lost \in 0..LossCap
    /\ inner \in 0..MaxInner
ProgramOK ==
    /\ wire \in Seq(Bytes) /\ Len(wire) <= ChunkCap
    /\ rx_buffer \in Seq(Bytes) /\ (~consuming => Len(rx_buffer) < FrameSize)
    /\ {consuming, disagree} \subseteq BOOLEAN
Types == LineOK /\ HardwareOK /\ ProgramOK /\ ahead \in Seq(Seq(Bytes))

(* The types, one by one, are TypeOK. *)
LEMMA TypesMean == Types => LineTypeOK
  BY DEF Types, LineTypeOK, LineOK, HardwareOK, ProgramOK, Collected

(* The next state of the hardware receiver. *)
LEMMA Searching ==
    ASSUME "A5" \in Bytes, "5A" \in Bytes, HardwareOK, NEW b \in Bytes
    PROVE  /\ state = "WAIT_A5" => After(b) = IF b = "A5" THEN [state |-> "WAIT_5A", packet |-> <<b>>]
                                              ELSE [state |-> "WAIT_A5", packet |-> packet]
           /\ state = "WAIT_5A" => After(b) = IF b = "5A" THEN [state |-> "COLLECT", packet |-> Magic]
                                              ELSE IF b = "A5" THEN [state |-> "WAIT_5A", packet |-> <<"A5">>]
                                              ELSE [state |-> "WAIT_A5", packet |-> <<>>]
           /\ state = "HOLD" => After(b) = [state |-> "HOLD", packet |-> packet]
  <1>1. CASE state = "WAIT_A5"
    BY <1>1 DEF After
  <1>2. CASE state = "WAIT_5A"
    <2>1. After(b) = Next5A(b)
      BY <1>2 DEF After
    <2>2. CASE b = "5A"
      BY <1>2, <2>1, <2>2 DEF Next5A
    <2>3. CASE b = "A5"
      BY <1>2, <2>1, <2>3 DEF Next5A
    <2>4. CASE b # "A5" /\ b # "5A"
      BY <1>2, <2>1, <2>4 DEF Next5A
    <2> QED
      BY <1>2, <2>2, <2>3, <2>4
  <1>3. CASE state = "HOLD"
    BY <1>3 DEF After
  <1> QED
    BY <1>1, <1>2, <1>3

(* It collects until it has a frame. *)
LEMMA Collecting ==
    ASSUME HardwareOK, state = "COLLECT", NEW b \in Bytes
    PROVE  /\ After(b).packet = Append(packet, b) /\ Append(packet, b) \in Seq(Bytes)
           /\ Len(Append(packet, b)) = Len(packet) + 1 /\ Len(packet) \in 2..FrameSize - 1
           /\ After(b).state = IF Len(packet) = FrameSize - 1 THEN "HOLD" ELSE "COLLECT"
  <1>1. After(b) = Collect(b)
    BY DEF After
  <1>2. Len(packet) \in 2..FrameSize - 1 /\ packet \in Seq(Bytes)
    BY DEF HardwareOK, Collected
  <1> QED
    BY <1>1, <1>2 DEF Collect

(* Whatever arrives, it has collected as many bytes as its state says. *)
LEMMA AfterTypes ==
    ASSUME HardwareOK, "A5" \in Bytes, "5A" \in Bytes, NEW b \in Bytes
    PROVE  After(b).packet \in Seq(Bytes) /\ Collected(After(b).state, Len(After(b).packet))
  <1>1. FrameSize \in Nat /\ FrameSize > 2 /\ packet \in Seq(Bytes) /\ Len(packet) \in Nat
    BY FrameAssumption DEF HardwareOK
  <1>2. CASE state = "WAIT_A5"
    <2>1. Len(packet) = 0
      BY <1>2 DEF HardwareOK, Collected
    <2>2. CASE b = "A5"
      <3>1. After(b).state = "WAIT_5A" /\ After(b).packet = <<"A5">>
        BY <1>2, <2>2, Searching
      <3> QED
        BY <3>1, Magics DEF Collected
    <2>3. CASE b # "A5"
      <3>1. After(b).state = "WAIT_A5" /\ After(b).packet = packet
        BY <1>2, <2>3, Searching
      <3> QED
        BY <1>1, <2>1, <3>1 DEF Collected
    <2> QED
      BY <2>2, <2>3
  <1>3. CASE state = "WAIT_5A"
    <2>1. CASE b = "5A"
      <3>1. After(b).state = "COLLECT" /\ After(b).packet = Magic
        BY <1>3, <2>1, Searching
      <3>2. Magic \in Seq(Bytes) /\ Len(Magic) = 2
        BY Magics
      <3>3. Len(Magic) \in 2..FrameSize - 1
        BY <1>1, <3>2
      <3> QED
        BY <3>1, <3>2, <3>3 DEF Collected
    <2>2. CASE b = "A5"
      <3>1. After(b).state = "WAIT_5A" /\ After(b).packet = <<"A5">>
        BY <1>3, <2>2, Searching
      <3> QED
        BY <3>1, Magics DEF Collected
    <2>3. CASE b # "A5" /\ b # "5A"
      <3>1. After(b).state = "WAIT_A5" /\ After(b).packet = <<>>
        BY <1>3, <2>3, Searching
      <3> QED
        BY <3>1, Magics DEF Collected
    <2> QED
      BY <2>1, <2>2, <2>3
  <1>4. CASE state = "COLLECT"
    <2>1. /\ After(b).packet \in Seq(Bytes) /\ Len(After(b).packet) = Len(packet) + 1
          /\ Len(packet) \in 2..FrameSize - 1
          /\ After(b).state = IF Len(packet) = FrameSize - 1 THEN "HOLD" ELSE "COLLECT"
      BY <1>4, Collecting
    <2> QED
      BY <1>1, <2>1 DEF Collected
  <1>5. CASE state = "HOLD"
    BY <1>5, Searching DEF HardwareOK, Collected
  <1> QED
    BY <1>2, <1>3, <1>4, <1>5 DEF HardwareOK, Collected

(* A byte of the line: the receiver, the frames it has cut, the wire. *)
LEMMA CarryTypes ==
    ASSUME Types, NEW b \in Bytes, Carry(b)
    PROVE  /\ HardwareOK' /\ ahead' \in Seq(Seq(Bytes))
           /\ wire' \in Seq(Bytes) /\ Len(wire') <= ChunkCap
  <1>1. "A5" \in Bytes /\ "5A" \in Bytes
    BY FrameBytes DEF Types, LineOK
  <1>2. /\ After(b).packet \in Seq(Bytes)
        /\ Collected(After(b).state, Len(After(b).packet))
    BY <1>1, AfterTypes DEF Types
  <1>3. state' = After(b).state /\ packet' = After(b).packet /\ missed' \in BOOLEAN
    BY DEF Carry, Types, HardwareOK
  <1>4. HardwareOK'
    BY <1>2, <1>3 DEF HardwareOK, Collected
  <1>5. ahead' \in Seq(Seq(Bytes))
    BY <1>2 DEF Carry, Types
  <1>6. wire' \in Seq(Bytes) /\ Len(wire') <= ChunkCap
    BY FrameAssumption DEF Carry, Types, ProgramOK
  <1> QED
    BY <1>4, <1>5, <1>6

(* The transmitter and the counters. *)
LEMMA AdvanceTypes ==
    ASSUME LineOK, NextByte, faults' \in 0..MaxFaults
    PROVE  LineOK' /\ UNCHANGED program
  <1>1. FrameSize \in Nat /\ MaxFaults \in Nat /\ LossCap \in Nat
    BY FrameAssumption DEF LossCap
  <1>2. pos' \in 0..FrameSize
    BY <1>1 DEF NextByte, LineOK
  <1>3. /\ lost + 1 \in Int /\ Min({lost + 1, LossCap}) \in {lost + 1, LossCap}
        /\ Min({lost + 1, LossCap}) <= LossCap
    <2>1. \E x \in {lost + 1, LossCap} : \A y \in {lost + 1, LossCap} : x <= y
      BY <1>1 DEF LineOK
    <2> QED
      BY <1>1, <2>1 DEF Min, LineOK
  <1>4. lost' \in 0..LossCap
    BY <1>1, <1>3 DEF NextByte, LineOK
  <1> QED
    BY <1>2, <1>4 DEF NextByte, LineOK

-----------------------------------------------------------------------------
(* The frames of a stream of bytes. *)
MagicIn(q, k) == k \in 1..(Len(q) - 1) /\ q[k] = "A5" /\ q[k + 1] = "5A"
Plain(q, a, b) == \A k \in 1..Len(q) : a <= k /\ k < b => ~MagicIn(q, k)

(* Frame f begins at place p, the first A5 5A behind the place from. *)
CutAt(q, from, p, f) ==
    /\ Len(f) = FrameSize /\ from <= p /\ p + FrameSize - 1 <= Len(q)
    /\ MagicIn(q, p) /\ Plain(q, from, p)
    /\ \A j \in 1..FrameSize : q[p + j - 1] = f[j]

(* The hardware receiver has looked at the bytes behind the place from. *)
Searched(q, from, st) ==
    /\ st = "HOLD" => from = Len(q) + 1
    /\ st = "WAIT_A5" => Plain(q, from, Len(q)) /\ (from = Len(q) + 1 \/ q[Len(q)] # "A5")
    /\ st = "WAIT_5A" => Plain(q, from, Len(q)) /\ from <= Len(q) /\ q[Len(q)] = "A5"

(* It collects a frame from the place m on. *)
Partial(q, from, pk, m) ==
    /\ m = Len(q) - Len(pk) + 1 /\ from <= m /\ MagicIn(q, m) /\ Plain(q, from, m)
    /\ \A j \in 1..Len(pk) : q[m + j - 1] = pk[j]

Rest(q, from, st, pk) ==
    /\ from <= Len(q) + 1 /\ Searched(q, from, st)
    /\ st = "COLLECT" => Partial(q, from, pk, Len(q) - Len(pk) + 1)

(* The frames fs were cut out of q at the places at, the rest is partly looked at. *)
Parsed(q, fs, st, pk, at) ==
    /\ at \in [0..Len(fs) -> Int] /\ at[0] = 1 - FrameSize
    /\ \A i, j \in 0..Len(fs) : i < j => at[i] + FrameSize <= at[j]
    /\ \A i \in 1..Len(fs) : CutAt(q, at[i - 1] + FrameSize, at[i], fs[i])
    /\ Rest(q, at[Len(fs)] + FrameSize, st, pk)

Cuts(q, fs, st, pk) == \E at \in [0..Len(fs) -> Int] : Parsed(q, fs, st, pk, at)

Stream == rx_buffer \o wire
SameCuts == missed \/ (~disagree /\ Cuts(Stream, ahead, state, packet))

-----------------------------------------------------------------------------
(* A byte more.                                                            *)
LEMMA Grown ==
    ASSUME NEW q \in Seq(Bytes), NEW b \in Bytes, NEW q2 \in Seq(Bytes),
           Len(q2) = Len(q) + 1,
           \A k \in 1..Len(q) : q2[k] = q[k], q2[Len(q) + 1] = b
    PROVE  /\ \A k \in 1..(Len(q) - 1) : MagicIn(q2, k) <=> MagicIn(q, k)
           /\ MagicIn(q2, Len(q)) <=> Len(q) > 0 /\ q[Len(q)] = "A5" /\ b = "5A"
           /\ \A from, to \in Int : to <= Len(q) /\ Plain(q, from, to) => Plain(q2, from, to)
  <1>1. Len(q) \in Nat /\ Len(q2) \in Nat
    OBVIOUS
  <1>2. \A k \in 1..(Len(q) - 1) : MagicIn(q2, k) <=> MagicIn(q, k)
    BY <1>1 DEF MagicIn
  <1>3. MagicIn(q2, Len(q)) <=> Len(q) > 0 /\ q[Len(q)] = "A5" /\ b = "5A"
    BY <1>1 DEF MagicIn
  <1>4. ASSUME NEW from \in Int, NEW to \in Int, to <= Len(q), Plain(q, from, to)
        PROVE  Plain(q2, from, to)
    <2> SUFFICES ASSUME NEW k \in 1..Len(q2), from <= k, k < to PROVE ~MagicIn(q2, k)
      BY DEF Plain
    <2>1. k \in 1..(Len(q) - 1) /\ k \in 1..Len(q)
      BY <1>1, <1>4
    <2> QED
      BY <1>2, <1>4, <2>1 DEF Plain
  <1> QED
    BY <1>2, <1>3, <1>4

(* What was cut stays cut. *)
LEMMA CutsStay ==
    ASSUME NEW q \in Seq(Bytes), NEW b \in Bytes, NEW q2 \in Seq(Bytes),
           Len(q2) = Len(q) + 1,
           \A k \in 1..Len(q) : q2[k] = q[k], q2[Len(q) + 1] = b,
           NEW from \in Int, NEW p \in Int, NEW f, from > 0, CutAt(q, from, p, f)
    PROVE  CutAt(q2, from, p, f)
  <1>1. Len(q) \in Nat /\ FrameSize \in Nat /\ FrameSize > 2
    BY FrameAssumption
  <1>2. p \in 1..(Len(q) - 1) /\ p + FrameSize - 1 <= Len(q2)
    BY <1>1 DEF CutAt
  <1>3. MagicIn(q2, p) /\ Plain(q2, from, p)
    <2>1. MagicIn(q, p) /\ Plain(q, from, p) /\ p \in Int /\ p <= Len(q)
      BY <1>2 DEF CutAt
    <2> QED
      BY <1>1, <1>2, <2>1, Grown
  <1>4. \A j \in 1..FrameSize : q2[p + j - 1] = f[j]
    <2> TAKE j \in 1..FrameSize
    <2>1. p + j - 1 \in 1..Len(q)
      BY <1>1, <1>2 DEF CutAt
    <2> QED
      BY <2>1 DEF CutAt
  <1> QED
    BY <1>1, <1>2, <1>3, <1>4 DEF CutAt

(* The search goes on at the new byte. *)
LEMMA SearchGrows ==
    ASSUME NEW q \in Seq(Bytes), NEW b \in Bytes, NEW q2 \in Seq(Bytes),
           Len(q2) = Len(q) + 1,
           \A k \in 1..Len(q) : q2[k] = q[k], q2[Len(q) + 1] = b,
           NEW from \in Int, from > 0, NEW st \in {"WAIT_A5", "WAIT_5A"}, NEW pk, Rest(q, from,
           st, pk),
           NEW pk2
    PROVE  /\ b = "A5" => Rest(q2, from, "WAIT_5A", pk2)
           /\ b # "A5" /\ (st = "WAIT_A5" \/ b # "5A") => Rest(q2, from, "WAIT_A5", pk2)
           /\ st = "WAIT_5A" /\ b = "5A" /\ pk2 = Magic => Rest(q2, from, "COLLECT", pk2)
  <1>1. Len(q) \in Nat /\ from <= Len(q) + 1 /\ Plain(q, from, Len(q))
    BY DEF Rest, Searched
  <1>2. Plain(q2, from, Len(q))
    BY <1>1, Grown
  <1>3. MagicIn(q2, Len(q)) <=> Len(q) > 0 /\ q[Len(q)] = "A5" /\ b = "5A"
    BY Grown
  <1>4. ~MagicIn(q2, Len(q)) \/ from = Len(q) + 1 => Plain(q2, from, Len(q2))
    BY <1>1, <1>2 DEF Plain
  <1>5. b = "A5" => Rest(q2, from, "WAIT_5A", pk2)
    BY <1>1, <1>3, <1>4 DEF Rest, Searched, MagicIn
  <1>6. b # "A5" /\ (st = "WAIT_A5" \/ b # "5A") => Rest(q2, from, "WAIT_A5", pk2)
    BY <1>1, <1>3, <1>4 DEF Rest, Searched, MagicIn
  <1>7. ASSUME st = "WAIT_5A", b = "5A", pk2 = Magic
        PROVE  Rest(q2, from, "COLLECT", pk2)
    <2>1. from <= Len(q) /\ q[Len(q)] = "A5"
      BY <1>7 DEF Rest, Searched
    <2>2. MagicIn(q2, Len(q))
      BY <1>1, <1>7, <2>1 DEF MagicIn
    <2>3. Len(pk2) = 2 /\ pk2[1] = "A5" /\ pk2[2] = "5A"
      BY <1>7 DEF Magic
    <2>4. Len(q2) - Len(pk2) + 1 = Len(q)
      BY <1>1, <2>3
    <2>5. \A j \in 1..Len(pk2) : q2[Len(q) + j - 1] = pk2[j]
      <3>1. 1..Len(pk2) = {1, 2} /\ Len(q) \in 1..Len(q)
        BY <1>1, <2>1, <2>3
      <3>2. q2[Len(q) + 1 - 1] = pk2[1]
        BY <1>1, <2>1, <2>3, <3>1
      <3>3. q2[Len(q) + 2 - 1] = pk2[2]
        BY <1>1, <1>7, <2>3
      <3> QED
        BY <3>1, <3>2, <3>3
    <2>6. Partial(q2, from, pk2, Len(q2) - Len(pk2) + 1)
      BY <1>2, <2>1, <2>2, <2>4, <2>5 DEF Partial
    <2> QED
      BY <1>1, <2>6 DEF Rest, Searched
  <1> QED
    BY <1>5, <1>6, <1>7

(* So does the collection of a frame. *)
LEMMA PartGrows ==
    ASSUME NEW q \in Seq(Bytes), NEW b \in Bytes, NEW q2 \in Seq(Bytes),
           Len(q2) = Len(q) + 1,
           \A k \in 1..Len(q) : q2[k] = q[k], q2[Len(q) + 1] = b,
           NEW from \in Int, from > 0, NEW pk \in Seq(Bytes), Len(pk) >= 2, Rest(q, from,
           "COLLECT", pk)
    PROVE  Partial(q2, from, Append(pk, b), Len(q) - Len(pk) + 1)
  <1> DEFINE m == Len(q) - Len(pk) + 1
             pk2 == Append(pk, b)
  <1>1. /\ Len(q) \in Nat /\ Len(pk) \in Nat /\ pk2 \in Seq(Bytes) /\ Len(pk2) = Len(pk) + 1
        /\ pk2[Len(pk) + 1] = b /\ \A j \in 1..Len(pk) : pk2[j] = pk[j]
    OBVIOUS
  <1>2. Partial(q, from, pk, m)
    BY DEF Rest
  <1> HIDE DEF pk2
  <1>3. m \in 1..(Len(q) - 1) /\ m = Len(q2) - Len(pk2) + 1
    BY <1>1, <1>2 DEF Partial, MagicIn
  <1>4. MagicIn(q2, m) /\ Plain(q2, from, m)
    <2>1. MagicIn(q, m) /\ Plain(q, from, m) /\ m <= Len(q) /\ m \in Int
      BY <1>1, <1>2, <1>3 DEF Partial
    <2> HIDE DEF m
    <2> QED
      BY <1>1, <1>3, <2>1, Grown
  <1>5. \A j \in 1..Len(pk2) : q2[m + j - 1] = pk2[j]
    <2> TAKE j \in 1..Len(pk2)
    <2>1. CASE j <= Len(pk)
      <3>1. m + j - 1 \in 1..Len(q) /\ j \in 1..Len(pk)
        BY <1>1, <1>3, <2>1
      <3> QED
        BY <1>1, <1>2, <3>1 DEF Partial
    <2>2. CASE j = Len(pk) + 1
      BY <1>1, <2>2
    <2> QED
      BY <1>1, <2>1, <2>2
  <1>6. m = Len(q2) - Len(pk2) + 1 /\ from <= m
    BY <1>2, <1>3 DEF Partial
  <1> HIDE DEF m
  <1> QED
    BY <1>4, <1>5, <1>6 DEF Partial, pk2, m

-----------------------------------------------------------------------------
(* The line carries a byte.                                                *)
LEMMA CarriedStream ==
    ASSUME Types, NEW b \in Bytes, UNCHANGED rx_buffer, wire' = Append(wire, b)
    PROVE  /\ Stream \in Seq(Bytes) /\ Stream' \in Seq(Bytes)
           /\ Len(Stream') = Len(Stream) + 1
           /\ \A k \in 1..Len(Stream) : Stream'[k] = Stream[k]
           /\ Stream'[Len(Stream) + 1] = b
  BY DEF Types, ProgramOK, Stream

(* With a byte more, the same frames have been cut. *)
LEMMA StillParsed ==
    ASSUME NEW q \in Seq(Bytes), NEW b \in Bytes, NEW q2 \in Seq(Bytes),
           Len(q2) = Len(q) + 1,
           \A k \in 1..Len(q) : q2[k] = q[k], q2[Len(q) + 1] = b,
           NEW fs \in Seq(Seq(Bytes)), NEW st, NEW pk, NEW at, Parsed(q, fs, st, pk, at),
           NEW st2, NEW pk2, Rest(q2, at[Len(fs)] + FrameSize, st2, pk2)
    PROVE  Parsed(q2, fs, st2, pk2, at)
  <1>1. \A i \in 0..Len(fs) : at[i] \in Int /\ at[i] + FrameSize > 0
    <2> TAKE i \in 0..Len(fs)
    <2>1. i = 0 \/ at[0] + FrameSize <= at[i]
      BY DEF Parsed
    <2>2. at[i] \in Int /\ at[0] = 1 - FrameSize /\ FrameSize \in Nat /\ FrameSize > 2
      BY FrameAssumption DEF Parsed
    <2> QED
      BY <2>1, <2>2
  <1>2. \A i \in 1..Len(fs) : i - 1 \in 0..Len(fs) /\ i \in 0..Len(fs)
    OBVIOUS
  <1>3. ASSUME NEW i \in 1..Len(fs) PROVE CutAt(q2, at[i - 1] + FrameSize, at[i], fs[i])
    <2>1. at[i - 1] + FrameSize \in Int /\ at[i - 1] + FrameSize > 0 /\ at[i] \in Int
      BY <1>1, <1>2, FrameAssumption
    <2>2. CutAt(q, at[i - 1] + FrameSize, at[i], fs[i])
      BY DEF Parsed
    <2> QED
      BY <2>1, <2>2, CutsStay
  <1> QED
    BY <1>3 DEF Parsed

(* A byte that does not complete a frame. *)
LEMMA CarryWithin ==
    ASSUME Types, SameCuts, NEW b \in Bytes, Carry(b),
           UNCHANGED <<rx_buffer, disagree>>,
           state' # "HOLD"
    PROVE  SameCuts'
  <1> SUFFICES ASSUME ~missed' PROVE SameCuts'
    BY DEF SameCuts
  <1>1. ~missed /\ state # "HOLD" /\ ~disagree' /\ ahead' = ahead
    BY DEF Carry, SameCuts
  <1>2. PICK at \in [0..Len(ahead) -> Int] : Parsed(Stream, ahead, state, packet, at)
    BY <1>1 DEF SameCuts, Cuts
  <1> DEFINE from == at[Len(ahead)] + FrameSize
  <1>3. /\ Stream \in Seq(Bytes) /\ Stream' \in Seq(Bytes)
        /\ Len(Stream') = Len(Stream) + 1
        /\ \A k \in 1..Len(Stream) : Stream'[k] = Stream[k]
        /\ Stream'[Len(Stream) + 1] = b
    BY CarriedStream DEF Carry
  <1>4. from \in Int /\ from > 0 /\ Rest(Stream, from, state, packet)
    <2>1. Len(ahead) \in Nat /\ at[0] = 1 - FrameSize /\ FrameSize \in Nat /\ FrameSize > 2
      BY <1>2, FrameAssumption DEF Parsed, Types
    <2>2. Len(ahead) = 0 \/ at[0] + FrameSize <= at[Len(ahead)]
      BY <1>2, <2>1 DEF Parsed
    <2>3. at[Len(ahead)] \in Int
      BY <2>1
    <2> QED
      BY <1>2, <2>1, <2>2, <2>3 DEF Parsed
  <1>5. "A5" \in Bytes /\ "5A" \in Bytes
    BY FrameBytes DEF Types, LineOK
  <1>6. state' = After(b).state /\ packet' = After(b).packet
    BY DEF Carry
  <1>7. HardwareOK
    BY DEF Types
  <1> HIDE DEF from
  <1>8. Rest(Stream', from, state', packet')
    <2>1. CASE state = "WAIT_A5"
      <3>1. CASE b = "A5"
        <4>1. state' = "WAIT_5A"
          BY <1>5, <1>6, <1>7, <2>1, <3>1, Searching
        <4> QED
          BY <1>3, <1>4, <2>1, <3>1, <4>1, SearchGrows
      <3>2. CASE b # "A5"
        <4>1. state' = "WAIT_A5"
          BY <1>5, <1>6, <1>7, <2>1, <3>2, Searching
        <4> QED
          BY <1>3, <1>4, <2>1, <3>2, <4>1, SearchGrows
      <3> QED
        BY <3>1, <3>2
    <2>2. CASE state = "WAIT_5A"
      <3>1. CASE b = "A5"
        <4>1. state' = "WAIT_5A"
          BY <1>5, <1>6, <1>7, <2>2, <3>1, Searching
        <4> QED
          BY <1>3, <1>4, <2>2, <3>1, <4>1, SearchGrows
      <3>2. CASE b = "5A"
        <4>1. state' = "COLLECT" /\ packet' = Magic
          BY <1>5, <1>6, <1>7, <2>2, <3>2, Searching
        <4> QED
          BY <1>3, <1>4, <2>2, <3>2, <4>1, SearchGrows
      <3>3. CASE b # "A5" /\ b # "5A"
        <4>1. state' = "WAIT_A5"
          BY <1>5, <1>6, <1>7, <2>2, <3>3, Searching
        <4> QED
          BY <1>3, <1>4, <2>2, <3>3, <4>1, SearchGrows
      <3> QED
        BY <3>1, <3>2, <3>3
    <2>3. CASE state = "COLLECT"
      <3>1. /\ state' = "COLLECT" /\ packet' = Append(packet, b) /\ packet \in Seq(Bytes)
            /\ Len(packet) >= 2 /\ Len(packet') = Len(packet) + 1 /\ Len(packet) \in Nat
        <4>1. /\ packet' = Append(packet, b) /\ Len(Append(packet, b)) = Len(packet) + 1
              /\ Len(packet) \in 2..FrameSize - 1
              /\ state' = IF Len(packet) = FrameSize - 1 THEN "HOLD" ELSE "COLLECT"
          BY <1>6, <1>7, <2>3, Collecting
        <4> QED
          BY <1>7, <4>1 DEF HardwareOK
      <3>2. Partial(Stream', from, packet', Len(Stream) - Len(packet) + 1)
        BY <1>3, <1>4, <2>3, <3>1, PartGrows
      <3>3. Len(Stream) - Len(packet) + 1 = Len(Stream') - Len(packet') + 1 /\ Len(Stream) \in Nat
        BY <1>3, <3>1
      <3>4. from <= Len(Stream') + 1
        BY <1>3, <1>4, <3>3 DEF Rest
      <3> QED
        BY <3>1, <3>2, <3>3, <3>4 DEF Rest, Searched
    <2> QED
      BY <1>1, <1>7, <2>1, <2>2, <2>3 DEF HardwareOK, Collected
  <1>9. Parsed(Stream', ahead, state', packet', at)
    BY <1>2, <1>3, <1>8, StillParsed DEF from, Types
  <1> QED
    BY <1>1, <1>2, <1>9 DEF SameCuts, Cuts

(* The byte that completes a frame. *)
LEMMA CarryLast ==
    ASSUME Types, SameCuts, NEW b \in Bytes, Carry(b),
           UNCHANGED <<rx_buffer, disagree>>,
           state' = "HOLD"
    PROVE  SameCuts'
  <1> SUFFICES ASSUME ~missed' PROVE SameCuts'
    BY DEF SameCuts
  <1>1. ~missed /\ state # "HOLD" /\ ~disagree'
    BY DEF Carry, SameCuts
  <1>2. PICK at \in [0..Len(ahead) -> Int] : Parsed(Stream, ahead, state, packet, at)
    BY <1>1 DEF SameCuts, Cuts
  <1> DEFINE n == Len(ahead)
             from == at[n] + FrameSize
             m == Len(Stream) - Len(packet) + 1
             at2 == [i \in 0..(n + 1) |-> IF i = n + 1 THEN m ELSE at[i]]
  <1>3. /\ Stream \in Seq(Bytes) /\ Stream' \in Seq(Bytes)
        /\ Len(Stream') = Len(Stream) + 1
        /\ \A k \in 1..Len(Stream) : Stream'[k] = Stream[k]
        /\ Stream'[Len(Stream) + 1] = b
    BY CarriedStream DEF Carry
  <1>4. /\ from \in Int /\ from > 0 /\ Rest(Stream, from, state, packet)
        /\ n \in Nat /\ FrameSize \in Nat /\ FrameSize > 2
        /\ \A i \in 0..n : at[i] \in Int /\ at[i] + FrameSize > 0
        /\ \A i \in 0..n : i < n => at[i] + FrameSize <= at[n]
    <2>1. n \in Nat /\ at[0] = 1 - FrameSize /\ FrameSize \in Nat /\ FrameSize > 2
      BY <1>2, FrameAssumption DEF Parsed, Types
    <2>2. \A i \in 0..n : i = 0 \/ at[0] + FrameSize <= at[i]
      BY <1>2, <2>1 DEF Parsed
    <2>3. \A i \in 0..n : i < n => at[i] + FrameSize <= at[n]
      BY <1>2, <2>1 DEF Parsed
    <2>4. \A i \in 0..n : at[i] \in Int
      OBVIOUS
    <2>5. \A i \in 0..n : at[i] + FrameSize > 0
      BY <2>1, <2>2, <2>4
    <2> QED
      BY <1>2, <2>1, <2>3, <2>4, <2>5 DEF Parsed
  <1>5. HardwareOK /\ "A5" \in Bytes /\ "5A" \in Bytes
    BY FrameBytes DEF Types, LineOK
  <1>6. /\ state' = After(b).state /\ packet' = After(b).packet
        /\ ahead' = Append(ahead, packet')
    BY <1>1 DEF Carry
  <1>7. state = "COLLECT"
    <2>1. state = "WAIT_A5" => After(b).state # "HOLD"
      BY <1>5, Searching
    <2>2. state = "WAIT_5A" => After(b).state # "HOLD"
      BY <1>5, Searching
    <2> QED
      BY <1>1, <1>5, <1>6, <2>1, <2>2 DEF HardwareOK, Collected
  <1>8. /\ packet' = Append(packet, b) /\ packet' \in Seq(Bytes) /\ Len(packet') = FrameSize
        /\ Len(packet) = FrameSize - 1 /\ packet \in Seq(Bytes)
    <2>1. /\ packet' = Append(packet, b) /\ packet' \in Seq(Bytes)
          /\ Len(packet') = Len(packet) + 1
          /\ Len(packet) \in 2..FrameSize - 1
          /\ state' = IF Len(packet) = FrameSize - 1 THEN "HOLD" ELSE "COLLECT"
      BY <1>5, <1>6, <1>7, Collecting
    <2> QED
      BY <1>4, <1>5, <2>1 DEF HardwareOK
  <1>9. Partial(Stream', from, packet', m)
    <2>1. Len(packet) >= 2 /\ Rest(Stream, from, "COLLECT", packet)
      BY <1>4, <1>7, <1>8
    <2> HIDE DEF from
    <2>2. Partial(Stream', from, Append(packet, b), Len(Stream) - Len(packet) + 1)
      BY <1>3, <1>4, <1>8, <2>1, PartGrows
    <2> QED
      BY <1>8, <2>2
  <1>10. /\ ahead' \in Seq(Seq(Bytes)) /\ Len(ahead') = n + 1 /\ ahead'[n + 1] = packet'
         /\ \A i \in 1..n : ahead'[i] = ahead[i]
    BY <1>6, <1>8 DEF Types
  <1>11. /\ at2 \in [0..(n + 1) -> Int] /\ at2[n + 1] = m /\ m \in Int
         /\ \A i \in 0..n : at2[i] = at[i]
    <2>1. m \in Int
      BY <1>3, <1>8
    <2> HIDE DEF m
    <2> QED
      BY <1>4, <2>1
  <1>12. from <= m /\ m = Len(Stream') - FrameSize + 1 /\ Len(Stream') \in Nat
    BY <1>3, <1>8, <1>9 DEF Partial
  <1> HIDE DEF at2
  <1>13. \A i, j \in 0..(n + 1) : i < j => at2[i] + FrameSize <= at2[j]
    <2> TAKE i, j \in 0..(n + 1)
    <2> HAVE i < j
    <2>1. i \in 0..n
      BY <1>4
    <2>2. CASE j = n + 1
      <3>1. at[i] + FrameSize <= at[n] + FrameSize /\ at[n] \in Int
        BY <1>4, <2>1
      <3>2. at2[i] = at[i] /\ at2[j] = m /\ from <= m /\ m \in Int
        BY <1>11, <1>12, <2>1, <2>2
      <3>3. at[i] \in Int
        BY <1>4, <2>1
      <3> QED
        BY <1>4, <3>1, <3>2, <3>3
    <2>3. CASE j # n + 1
      <3>1. j \in 0..n
        <4>1. n \in Nat
          BY <1>4
        <4> HIDE DEF n
        <4> QED
          BY <2>3, <4>1
      <3>2. at[i] + FrameSize <= at[j]
        BY <1>2, <2>1, <3>1 DEF Parsed
      <3> QED
        BY <1>11, <2>1, <3>1, <3>2
    <2> QED
      BY <2>2, <2>3
  <1>14. CutAt(Stream', from, m, packet')
    <2>1. Len(packet') = FrameSize
      BY <1>4, <1>8
    <2>2. m + FrameSize - 1 <= Len(Stream')
      BY <1>4, <1>12
    <2> QED
      BY <1>9, <1>12, <2>1, <2>2 DEF CutAt, Partial
  <1>15. \A i \in 1..(n + 1) : CutAt(Stream', at2[i - 1] + FrameSize, at2[i], ahead'[i])
    <2> TAKE i \in 1..(n + 1)
    <2>1. CASE i = n + 1
      <3>1. i - 1 = n /\ n \in 0..n
        BY <1>4, <2>1
      <3> QED
        BY <1>10, <1>11, <1>14, <2>1, <3>1
    <2>2. CASE i # n + 1
      <3>1. i \in 1..n /\ i - 1 \in 0..n /\ i \in 0..n
        BY <1>4, <2>2
      <3>2. CutAt(Stream, at[i - 1] + FrameSize, at[i], ahead[i])
        BY <1>2, <3>1 DEF Parsed
      <3>3. at[i - 1] + FrameSize \in Int /\ at[i - 1] + FrameSize > 0 /\ at[i] \in Int
        BY <1>4, <3>1
      <3>4. CutAt(Stream', at[i - 1] + FrameSize, at[i], ahead[i])
        BY <1>3, <3>2, <3>3, CutsStay
      <3> QED
        BY <1>10, <1>11, <3>1, <3>4
    <2> QED
      BY <2>1, <2>2
  <1>16. Rest(Stream', at2[n + 1] + FrameSize, state', packet')
    BY <1>4, <1>11, <1>12 DEF Rest, Searched
  <1>17. at2[0] = 1 - FrameSize
    BY <1>2, <1>4, <1>11 DEF Parsed
  <1>18. at2 \in [0..Len(ahead') -> Int] /\ Parsed(Stream', ahead', state', packet', at2)
    BY <1>10, <1>11, <1>13, <1>15, <1>16, <1>17 DEF Parsed
  <1> QED
    BY <1>1, <1>18 DEF SameCuts, Cuts

(* A byte of the line keeps the frames of the stream. *)
LEMMA CarryCuts ==
    ASSUME Types, SameCuts, NEW b \in Bytes, Carry(b),
           UNCHANGED <<rx_buffer, disagree>>
    PROVE  SameCuts'
  BY CarryWithin, CarryLast

(* HOLD ends. *)
LEMMA TakeCuts ==
    ASSUME SameCuts, Take
    PROVE  SameCuts'
  <1>1. /\ UNCHANGED <<missed, disagree, ahead>> /\ Stream' = Stream /\ state = "HOLD"
        /\ state' = "WAIT_A5"
    BY DEF Take, program, Stream
  <1>2. ASSUME NEW at, Parsed(Stream, ahead, state, packet, at)
        PROVE  Parsed(Stream, ahead, state', packet', at)
    <2> DEFINE from == at[Len(ahead)] + FrameSize
    <2>1. from = Len(Stream) + 1 /\ from <= Len(Stream) + 1
      BY <1>1, <1>2 DEF Parsed, Rest, Searched
    <2>2. Plain(Stream, from, Len(Stream))
      BY <2>1 DEF Plain
    <2>3. Rest(Stream, from, state', packet')
      BY <1>1, <2>1, <2>2 DEF Rest, Searched
    <2> QED
      BY <1>2, <2>3 DEF Parsed
  <1> QED
    BY <1>1, <1>2 DEF SameCuts, Cuts

-----------------------------------------------------------------------------
(* The program drops the first d bytes of the stream.                      *)
Shifted(q, d, q2) ==
    /\ d \in 0..Len(q) /\ Len(q2) = Len(q) - d
    /\ \A k \in 1..Len(q2) : q2[k] = q[k + d]

(* Places in what is left of a stream, against places in the stream. *)
LEMMA ShiftPlain ==
    ASSUME NEW q \in Seq(Bytes), NEW q2 \in Seq(Bytes), NEW d, Shifted(q, d, q2)
    PROVE  /\ \A k \in Int : k > d => (MagicIn(q2, k - d) <=> MagicIn(q, k))
           /\ \A from, to \in Int : Plain(q, from, to) => Plain(q2, from - d, to - d)
  <1>1. d \in Nat /\ Len(q) \in Nat /\ Len(q2) = Len(q) - d /\ Len(q2) \in Nat
    BY DEF Shifted
  <1>2. \A k \in 1..Len(q2) : q2[k] = q[k + d]
    BY DEF Shifted
  <1>3. ASSUME NEW k \in Int, k > d PROVE MagicIn(q2, k - d) <=> MagicIn(q, k)
    <2>1. k - d \in 1..(Len(q2) - 1) <=> k \in 1..(Len(q) - 1)
      BY <1>1, <1>3
    <2>2. k \in 1..(Len(q) - 1) => q2[k - d] = q[k] /\ q2[k - d + 1] = q[k + 1]
      <3> SUFFICES ASSUME k \in 1..(Len(q) - 1) PROVE q2[k - d] = q[k] /\ q2[k - d + 1] = q[k + 1]
        OBVIOUS
      <3>1. /\ k - d \in 1..Len(q2) /\ k - d + 1 \in 1..Len(q2) /\ k - d + d = k
            /\ k - d + 1 + d = k + 1
        BY <1>1, <1>3
      <3>2. q2[k - d] = q[k - d + d] /\ q2[k - d + 1] = q[k - d + 1 + d]
        BY <1>2, <3>1
      <3> QED
        BY <3>1, <3>2
    <2> QED
      BY <2>1, <2>2 DEF MagicIn
  <1>4. ASSUME NEW from \in Int, NEW to \in Int, Plain(q, from, to) PROVE Plain(q2, from - d,
               to - d)
    <2> SUFFICES ASSUME NEW k \in 1..Len(q2), from - d <= k, k < to - d PROVE ~MagicIn(q2, k)
      BY DEF Plain
    <2> DEFINE e == k + d
    <2>1. e \in 1..Len(q) /\ from <= e /\ e < to /\ e > d /\ e - d = k /\ e \in Int
      BY <1>1
    <2> HIDE DEF e
    <2>2. ~MagicIn(q, e)
      BY <1>4, <2>1 DEF Plain
    <2>3. MagicIn(q2, e - d) <=> MagicIn(q, e)
      BY <1>3, <2>1
    <2> QED
      BY <2>1, <2>2, <2>3
  <1> QED
    BY <1>3, <1>4

(* A frame that was cut behind them is cut there, too. *)
LEMMA ShiftCut ==
    ASSUME NEW q \in Seq(Bytes), NEW q2 \in Seq(Bytes), NEW d,
           Shifted(q, d, q2),
           NEW from \in Int, NEW from2 \in Int, NEW p \in Int, NEW f, CutAt(q, from, p, f),
           p > d, from2 >= from - d, from2 <= p - d
    PROVE  CutAt(q2, from2, p - d, f)
  <1>1. d \in Nat /\ Len(q) \in Nat /\ Len(q2) = Len(q) - d /\ FrameSize \in Nat
    BY FrameAssumption DEF Shifted
  <1>2. MagicIn(q2, p - d) /\ Plain(q2, from - d, p - d)
    BY <1>1, ShiftPlain DEF CutAt
  <1>3. Plain(q2, from2, p - d)
    BY <1>1, <1>2 DEF Plain
  <1>4. \A j \in 1..FrameSize : q2[p - d + j - 1] = f[j]
    <2> TAKE j \in 1..FrameSize
    <2>1. p - d + j - 1 \in 1..Len(q2) /\ p - d + j - 1 + d = p + j - 1
      BY <1>1 DEF CutAt
    <2>2. q2[p - d + j - 1] = q[p - d + j - 1 + d]
      BY <2>1 DEF Shifted
    <2> QED
      BY <2>1, <2>2 DEF CutAt
  <1> QED
    BY <1>1, <1>2, <1>3, <1>4 DEF CutAt

(* What is looked at lies behind the dropped bytes ...*)
LEMMA ShiftRest ==
    ASSUME NEW q \in Seq(Bytes), NEW q2 \in Seq(Bytes), NEW d, Shifted(q, d, q2),
           NEW from \in Int, NEW from2 \in Int, NEW st, NEW pk \in Seq(Bytes), Rest(q, from,
           st, pk),
           from2 >= from - d, from2 <= Len(q2) + 1, from2 >= 1,
           st = "HOLD" => from2 = Len(q2) + 1,
           st = "WAIT_A5" /\ Len(q2) = 0 => from2 = 1,
           st = "WAIT_A5" /\ from = Len(q) + 1 => from2 = Len(q2) + 1,
           st = "WAIT_5A" => from2 <= Len(q2),
           st = "COLLECT" => Len(q) - Len(pk) + 1 >= from2 + d
    PROVE  Rest(q2, from2, st, pk)
  <1>1. d \in Nat /\ Len(q) \in Nat /\ Len(q2) = Len(q) - d /\ Len(q2) \in Nat /\ Len(pk) \in Nat
    BY DEF Shifted
  <1>2. Len(q2) > 0 => q2[Len(q2)] = q[Len(q)]
    <2>1. Len(q2) > 0 => Len(q2) \in 1..Len(q2) /\ Len(q2) + d = Len(q)
      BY <1>1
    <2> QED
      BY <2>1 DEF Shifted
  <1>3. Plain(q, from, Len(q)) => Plain(q2, from2, Len(q2))
    <2>1. Plain(q, from, Len(q)) => Plain(q2, from - d, Len(q) - d)
      BY <1>1, ShiftPlain
    <2> QED
      BY <1>1, <2>1 DEF Plain
  <1>4. Searched(q2, from2, st)
    <2>1. st = "HOLD" => from2 = Len(q2) + 1
      OBVIOUS
    <2>2. st = "WAIT_A5" => Plain(q2, from2, Len(q2)) /\ (from2 = Len(q2) + 1 \/ q2[Len(q2)] # "A5")
      BY <1>1, <1>2, <1>3 DEF Rest, Searched
    <2>3. st = "WAIT_5A" => Plain(q2, from2, Len(q2)) /\ from2 <= Len(q2) /\ q2[Len(q2)] = "A5"
      BY <1>1, <1>2, <1>3 DEF Rest, Searched
    <2> QED
      BY <2>1, <2>2, <2>3 DEF Searched
  <1>5. ASSUME st = "COLLECT" PROVE Partial(q2, from2, pk, Len(q2) - Len(pk) + 1)
    <2> DEFINE m == Len(q) - Len(pk) + 1
    <2>1. Partial(q, from, pk, m)
      BY <1>5 DEF Rest
    <2>2. /\ m \in Int /\ m > d /\ m >= from2 + d /\ m - d = Len(q2) - Len(pk) + 1
          /\ m - 1 + Len(pk) = Len(q)
      BY <1>1, <1>5
    <2> HIDE DEF m
    <2>3. MagicIn(q2, m - d) /\ Plain(q2, from - d, m - d)
      BY <2>1, <2>2, ShiftPlain DEF Partial
    <2>4. Plain(q2, from2, m - d)
      BY <1>1, <2>2, <2>3 DEF Plain
    <2>5. \A j \in 1..Len(pk) : q2[m - d + j - 1] = pk[j]
      <3> TAKE j \in 1..Len(pk)
      <3>1. m - d + j - 1 \in 1..Len(q2) /\ m - d + j - 1 + d = m + j - 1
        BY <1>1, <2>2
      <3>2. q2[m - d + j - 1] = q[m - d + j - 1 + d]
        BY <3>1 DEF Shifted
      <3> QED
        BY <2>1, <3>1, <3>2 DEF Partial
    <2>6. from2 <= m - d
      BY <1>1, <2>2
    <2> QED
      BY <2>2, <2>3, <2>4, <2>5, <2>6 DEF Partial
  <1> QED
    BY <1>4, <1>5 DEF Rest

(* The places of a parse are in order and behind the first byte. *)
LEMMA PlacesRise ==
    ASSUME NEW q \in Seq(Bytes), NEW fs \in Seq(Seq(Bytes)), NEW st,
           NEW pk, NEW at,
           Parsed(q, fs, st, pk, at)
    PROVE  /\ \A i \in 0..Len(fs) : at[i] \in Int /\ at[i] + FrameSize > 0
           /\ \A i \in 1..Len(fs) : at[1] <= at[i] /\ at[i] <= at[Len(fs)]
  <1>1. FrameSize \in Nat /\ FrameSize > 2 /\ at[0] = 1 - FrameSize /\ Len(fs) \in Nat
    BY FrameAssumption DEF Parsed
  <1>2. \A i \in 0..Len(fs) : at[i] \in Int
    BY DEF Parsed
  <1>3. \A i, j \in 0..Len(fs) : i < j => at[i] + FrameSize <= at[j]
    BY DEF Parsed
  <1>4. ASSUME NEW i \in 0..Len(fs) PROVE at[i] + FrameSize > 0
    <2>1. i = 0 \/ at[0] + FrameSize <= at[i]
      BY <1>1, <1>3
    <2> QED
      BY <1>1, <1>2, <2>1
  <1>5. ASSUME NEW i \in 1..Len(fs) PROVE at[1] <= at[i] /\ at[i] <= at[Len(fs)]
    <2>1. i \in 0..Len(fs) /\ 1 \in 0..Len(fs) /\ Len(fs) \in 0..Len(fs)
      BY <1>1
    <2>2. i = 1 \/ at[1] + FrameSize <= at[i]
      BY <1>3, <2>1
    <2>3. i = Len(fs) \/ at[i] + FrameSize <= at[Len(fs)]
      BY <1>1, <1>3, <2>1
    <2>4. at[1] \in Int /\ at[i] \in Int /\ at[Len(fs)] \in Int
      BY <1>2, <2>1
    <2> DEFINE a == at[1]
               b == at[i]
               c == at[Len(fs)]
    <2>5. (a = b \/ a + FrameSize <= b) /\ (b = c \/ b + FrameSize <= c)
      BY <2>2, <2>3
    <2>6. a \in Int /\ b \in Int /\ c \in Int
      BY <2>4
    <2> HIDE DEF a, b, c
    <2>7. a <= b /\ b <= c
      BY <1>1, <2>5, <2>6
    <2> QED
      BY <2>7 DEF a, b, c
  <1> QED
    BY <1>2, <1>4, <1>5

(* Bytes in which no frame begins can be dropped. *)
LEMMA DropCuts ==
    ASSUME NEW q \in Seq(Bytes), NEW q2 \in Seq(Bytes), NEW d,
           Shifted(q, d, q2),
           NEW fs \in Seq(Seq(Bytes)), NEW st \in {"WAIT_A5", "WAIT_5A", "COLLECT", "HOLD"},
           NEW pk \in Seq(Bytes), Cuts(q, fs, st, pk),
           \A k \in 1..d : ~MagicIn(q, k), d > 0 /\ d = Len(q) => q[d] # "A5"
    PROVE  Cuts(q2, fs, st, pk)
  <1> PICK at \in [0..Len(fs) -> Int] : Parsed(q, fs, st, pk, at)
    BY DEF Cuts
  <1> DEFINE n == Len(fs)
             at2 == [i \in 0..n |-> IF i = 0 THEN 1 - FrameSize ELSE at[i] - d]
  <1>1. /\ d \in Nat /\ Len(q) \in Nat /\ Len(q2) = Len(q) - d /\ d <= Len(q) /\ n \in Nat
        /\ FrameSize \in Nat /\ FrameSize > 2 /\ Len(pk) \in Nat /\ Len(q2) \in Nat
    BY FrameAssumption DEF Shifted
  <1>2. \A i \in 0..n : at[i] \in Int /\ at[i] + FrameSize > 0
    BY PlacesRise
  <1>3. \A i \in 1..n : at[i] > d
    <2> TAKE i \in 1..n
    <2>1. CutAt(q, at[0] + FrameSize, at[1], fs[1])
      BY <1>1 DEF Parsed
    <2>2. MagicIn(q, at[1]) /\ at[1] \in Int
      BY <1>1, <1>2, <2>1 DEF CutAt
    <2>3. at[1] > d
      BY <1>1, <2>2 DEF MagicIn
    <2>4. at[1] <= at[i]
      BY PlacesRise
    <2>5. at[i] \in Int
      BY <1>1, <1>2
    <2> QED
      BY <1>1, <2>2, <2>3, <2>4, <2>5
  <1>4. /\ at2 \in [0..n -> Int] /\ at2[0] = 1 - FrameSize
        /\ \A i \in 1..n : at2[i] = at[i] - d
    BY <1>1, <1>2
  <1> HIDE DEF at2
  <1>5. \A i, j \in 0..n : i < j => at2[i] + FrameSize <= at2[j]
    <2> TAKE i, j \in 0..n
    <2> HAVE i < j
    <2>1. at[i] + FrameSize <= at[j]
      BY DEF Parsed
    <2>2. j \in 1..n
      BY <1>1
    <2>3. at2[j] = at[j] - d /\ at[i] \in Int /\ at[j] \in Int /\ at[j] > d
      BY <1>2, <1>3, <1>4, <2>2
    <2>4. CASE i = 0
      BY <1>1, <1>4, <2>3, <2>4
    <2>5. CASE i # 0
      <3>1. at2[i] = at[i] - d
        BY <1>1, <1>4, <2>5
      <3> DEFINE a == at[i]
                 b == at[j]
      <3>2. at2[i] = a - d /\ at2[j] = b - d /\ a + FrameSize <= b /\ a \in Int /\ b \in Int
        BY <2>1, <2>3, <3>1
      <3> HIDE DEF a, b
      <3>3. a - d + FrameSize <= b - d
        BY <1>1, <3>2
      <3> QED
        BY <3>2, <3>3
    <2> QED
      BY <2>4, <2>5
  <1>6. \A i \in 1..n : CutAt(q2, at2[i - 1] + FrameSize, at2[i], fs[i])
    <2> TAKE i \in 1..n
    <2>1. CutAt(q, at[i - 1] + FrameSize, at[i], fs[i])
      BY DEF Parsed
    <2>2. i - 1 \in 0..n /\ i \in 0..n /\ at[i - 1] \in Int /\ at[i] \in Int /\ at[i] > d
      <3>1. i - 1 \in 0..n /\ i \in 0..n
        BY <1>1
      <3> QED
        BY <1>2, <1>3, <3>1
    <2>3. at2[i - 1] \in Int /\ at2[i] = at[i] - d
      BY <1>4, <2>2
    <2> DEFINE a == at[i - 1] + FrameSize
               a2 == at2[i - 1] + FrameSize
               p == at[i]
    <2>4. a2 >= a - d
      <3>1. CASE i = 1
        <4>1. at2[i - 1] = 1 - FrameSize /\ at[i - 1] = 1 - FrameSize
          BY <1>4, <3>1 DEF Parsed
        <4> QED
          BY <1>1, <4>1
      <3>2. CASE i # 1
        <4>1. i - 1 \in 1..n
          BY <1>1, <3>2
        <4>2. at2[i - 1] = at[i - 1] - d
          BY <1>4, <4>1
        <4> DEFINE x == at[i - 1]
                   y == at2[i - 1]
        <4>3. x \in Int /\ y = x - d /\ a = x + FrameSize /\ a2 = y + FrameSize
          BY <2>2, <4>2
        <4> HIDE DEF x, y, a, a2
        <4> QED
          BY <1>1, <4>3
      <3> QED
        BY <3>1, <3>2
    <2>5. a2 <= p - d
      <3>1. i - 1 < i /\ i - 1 \in 0..n /\ i \in 0..n
        BY <1>1, <2>2
      <3>2. at2[i - 1] + FrameSize <= at2[i]
        BY <1>5, <3>1
      <3> QED
        BY <2>3, <3>2
    <2>6. CutAt(q2, a2, p - d, fs[i])
      <3>1. CutAt(q, a, p, fs[i]) /\ p \in Int /\ p > d
        BY <2>1, <2>2
      <3>2. a \in Int /\ a2 \in Int
        <4> DEFINE x == at[i - 1]
                   y == at2[i - 1]
        <4>1. x \in Int /\ y \in Int
          BY <2>2, <2>3
        <4> HIDE DEF x, y
        <4>2. x + FrameSize \in Int /\ y + FrameSize \in Int
          BY <1>1, <4>1
        <4> QED
          BY <4>2 DEF x, y
      <3> HIDE DEF a, a2, p
      <3> QED
        BY <2>4, <2>5, <3>1, <3>2, ShiftCut
    <2> QED
      BY <2>3, <2>6
  <1>7. Rest(q2, at2[n] + FrameSize, st, pk)
    <2> DEFINE from == at[n] + FrameSize
               from2 == at2[n] + FrameSize
    <2>1. Rest(q, from, st, pk) /\ n \in 0..n /\ from \in Int /\ from > 0
      BY <1>1, <1>2 DEF Parsed
    <2>2. (n = 0 /\ from = 1 /\ from2 = 1) \/ (n > 0 /\ from2 = from - d /\ from > d + FrameSize)
      <3>1. CASE n = 0
        BY <1>1, <1>4, <3>1 DEF Parsed
      <3>2. CASE n # 0
        <4>1. n \in 1..n /\ n \in 0..n
          BY <1>1, <3>2
        <4>2. at[n] \in Int /\ at[n] > d /\ at2[n] = at[n] - d
          BY <1>2, <1>3, <1>4, <4>1
        <4> DEFINE x == at[n]
                   y == at2[n]
        <4>3. x \in Int /\ x > d /\ y = x - d /\ from = x + FrameSize /\ from2 = y + FrameSize
          BY <4>2
        <4> HIDE DEF x, y, from, from2
        <4>4. from2 = from - d /\ from > d + FrameSize
          BY <1>1, <4>3
        <4> QED
          BY <1>1, <3>2, <4>4
      <3> QED
        BY <3>1, <3>2
    <2> HIDE DEF from, from2
    <2>3. from2 \in Int /\ from2 >= from - d /\ from2 <= Len(q2) + 1 /\ from2 >= 1
      BY <1>1, <2>1, <2>2 DEF Rest
    <2>4. st = "HOLD" => from2 = Len(q2) + 1
      BY <1>1, <2>1, <2>2 DEF Rest, Searched
    <2>5. st = "WAIT_A5" /\ Len(q2) = 0 => from2 = 1
      BY <1>1, <2>3
    <2>6. st = "WAIT_A5" /\ from = Len(q) + 1 => from2 = Len(q2) + 1
      BY <1>1, <2>2
    <2>7. st = "WAIT_5A" => from2 <= Len(q2)
      BY <1>1, <2>1, <2>2 DEF Rest, Searched
    <2>8. st = "COLLECT" => Len(q) - Len(pk) + 1 >= from2 + d
      <3> SUFFICES ASSUME st = "COLLECT" PROVE Len(q) - Len(pk) + 1 >= from2 + d
        OBVIOUS
      <3> DEFINE m == Len(q) - Len(pk) + 1
      <3>1. Partial(q, from, pk, m)
        BY <2>1 DEF Rest
      <3>2. m \in 1..Len(q) /\ from <= m /\ MagicIn(q, m)
        BY <1>1, <3>1 DEF Partial, MagicIn
      <3>3. m > d
        BY <1>1, <3>2
      <3> QED
        BY <1>1, <2>1, <2>2, <3>2, <3>3
    <2>9. Rest(q2, from2, st, pk)
      BY <2>1, <2>3, <2>4, <2>5, <2>6, <2>7, <2>8, ShiftRest
    <2> QED
      BY <2>9 DEF from2
  <1>8. Parsed(q2, fs, st, pk, at2)
    BY <1>4, <1>5, <1>6, <1>7 DEF Parsed
  <1> QED
    BY <1>4, <1>8 DEF Cuts

(* The first frame that begins in the stream is the first of fs ...*)
LEMMA CutFirst ==
    ASSUME NEW q \in Seq(Bytes),
           NEW fs \in Seq(Seq(Bytes)), NEW st \in {"WAIT_A5", "WAIT_5A", "COLLECT", "HOLD"},
           NEW pk \in Seq(Bytes), NEW at, Parsed(q, fs, st, pk, at),
           st = "COLLECT" => Len(pk) < FrameSize,
           NEW p \in Nat \ {0}, MagicIn(q, p), \A k \in 1..(p - 1) : ~MagicIn(q, k),
           p + FrameSize - 1 <= Len(q)
    PROVE  Len(fs) > 0 /\ at[1] = p
  <1>1. Len(q) \in Nat /\ Len(pk) \in Nat /\ FrameSize \in Nat /\ FrameSize > 2 /\ Len(fs) \in Nat
    BY FrameAssumption
  <1>2. p \in 1..Len(q) /\ p < Len(q)
    BY <1>1
  <1>3. ASSUME Len(fs) = 0 PROVE FALSE
    <2>1. Rest(q, 1, st, pk)
      <3>1. at[0] + FrameSize = 1
        BY <1>1 DEF Parsed
      <3> QED
        BY <1>3, <3>1 DEF Parsed
    <2>2. ~Plain(q, 1, Len(q))
      BY <1>2 DEF Plain
    <2>3. st = "COLLECT"
      BY <1>1, <1>2, <2>1, <2>2 DEF Rest, Searched
    <2> DEFINE m == Len(q) - Len(pk) + 1
    <2>4. MagicIn(q, m) /\ Plain(q, 1, m) /\ m \in Int /\ 1 <= m
      BY <1>1, <2>1, <2>3 DEF Rest, Partial
    <2>5. m > Len(q) - FrameSize + 1
      BY <1>1, <2>3
    <2> HIDE DEF m
    <2>6. p < m
      BY <1>1, <2>4, <2>5
    <2> QED
      BY <1>2, <2>4, <2>6 DEF Plain
  <1>4. ASSUME Len(fs) > 0 PROVE at[1] = p
    <2> DEFINE a == at[1]
    <2>1. a \in Int /\ CutAt(q, 1, a, fs[1])
      <3>1. at[1 - 1] + FrameSize = 1 /\ 1 \in 0..Len(fs) /\ 1 \in 1..Len(fs)
        BY <1>1, <1>4 DEF Parsed
      <3>2. CutAt(q, at[1 - 1] + FrameSize, at[1], fs[1])
        BY <3>1 DEF Parsed
      <3>3. a \in Int
        BY <3>1 DEF Parsed
      <3> QED
        BY <3>1, <3>2, <3>3
    <2> HIDE DEF a
    <2>2. MagicIn(q, a) /\ a >= 1 /\ Plain(q, 1, a)
      BY <2>1 DEF CutAt
    <2>3. ~(a < p)
      BY <2>1, <2>2
    <2>4. ~(p < a)
      BY <1>2, <2>1, <2>2 DEF Plain
    <2> QED
      BY <2>1, <2>3, <2>4 DEF a
  <1> QED
    BY <1>1, <1>3, <1>4

(* ...and when it has been cut out the others are left. *)
LEMMA CutShift ==
    ASSUME NEW q \in Seq(Bytes), NEW q2 \in Seq(Bytes),
           NEW p \in Nat \ {0},
           Shifted(q, p + FrameSize - 1, q2),
           NEW fs \in Seq(Seq(Bytes)), NEW st \in {"WAIT_A5", "WAIT_5A", "COLLECT", "HOLD"},
           NEW pk \in Seq(Bytes), NEW at, Parsed(q, fs, st, pk, at), fs # <<>>, at[1] = p
    PROVE  /\ \A j \in 1..FrameSize : q[p + j - 1] = fs[1][j]
           /\ Len(fs[1]) = FrameSize
           /\ Cuts(q2, Tail(fs), st, pk)
  <1> DEFINE n == Len(Tail(fs))
             d == p + FrameSize - 1
             at2 == [i \in 0..n |-> at[i + 1] - d]
  <1>1. /\ d \in Nat /\ Len(q) \in Nat /\ Len(q2) = Len(q) - d /\ d <= Len(q) /\ n \in Nat
        /\ Len(fs) = n + 1
        /\ FrameSize \in Nat /\ FrameSize > 2 /\ Len(pk) \in Nat /\ Len(q2) \in Nat
        /\ d = p + FrameSize - 1
        /\ Tail(fs) \in Seq(Seq(Bytes)) /\ \A i \in 1..n : Tail(fs)[i] = fs[i + 1]
    BY FrameAssumption DEF Shifted
  <1>2. Shifted(q, d, q2)
    OBVIOUS
  <1> HIDE DEF n, d
  <1>3. \A i \in 0..n : i + 1 \in 0..Len(fs) /\ i + 1 \in 1..Len(fs)
    BY <1>1
  <1>4. \A i \in 0..n : at[i + 1] \in Int /\ at[i + 1] + FrameSize > d
    <2> TAKE i \in 0..n
    <2>1. i + 1 \in 0..Len(fs) /\ i + 1 \in 1..Len(fs)
      BY <1>3
    <2> DEFINE x == at[i + 1]
    <2>2. x \in Int /\ p <= x
      BY <2>1, PlacesRise
    <2> HIDE DEF x
    <2>3. x + FrameSize > d
      BY <1>1, <2>2
    <2> QED
      BY <2>2, <2>3 DEF x
  <1>5. /\ at2 \in [0..n -> Int] /\ at2[0] = 1 - FrameSize
        /\ \A i \in 0..n : at2[i] = at[i + 1] - d
    <2>1. 0 \in 0..n /\ at[0 + 1] = p
      BY <1>1
    <2>2. at2[0] = p - d
      BY <2>1
    <2>3. at2[0] = 1 - FrameSize
      BY <1>1, <2>2
    <2>4. at2 \in [0..n -> Int]
      <3>1. ASSUME NEW i \in 0..n PROVE at[i + 1] - d \in Int
        <4>1. at[i + 1] \in Int /\ d \in Int
          BY <1>1, <1>4
        <4> HIDE DEF n
        <4> QED
          BY <4>1
      <3> QED
        BY <3>1
    <2> QED
      BY <2>3, <2>4
  <1> HIDE DEF at2
  <1>6. \A i, j \in 0..n : i < j => at2[i] + FrameSize <= at2[j]
    <2> TAKE i, j \in 0..n
    <2> HAVE i < j
    <2> DEFINE x == at[i + 1]
               y == at[j + 1]
    <2>1. i + 1 \in 0..Len(fs) /\ j + 1 \in 0..Len(fs) /\ i + 1 < j + 1
      BY <1>3
    <2>2. x + FrameSize <= y
      BY <2>1 DEF Parsed
    <2>3. x \in Int /\ y \in Int /\ at2[i] = x - d /\ at2[j] = y - d
      BY <1>4, <1>5
    <2> HIDE DEF x, y
    <2>4. x - d + FrameSize <= y - d
      BY <1>1, <2>2, <2>3
    <2> QED
      BY <2>3, <2>4
  <1>7. \A i \in 1..n : CutAt(q2, at2[i - 1] + FrameSize, at2[i], Tail(fs)[i])
    <2> TAKE i \in 1..n
    <2> DEFINE x == at[i]
               p2 == at[i + 1]
               a == x + FrameSize
               a2 == a - d
    <2>1. i - 1 \in 0..n /\ i \in 0..n /\ i - 1 + 1 = i /\ i + 1 - 1 = i
      BY <1>1
    <2>2. /\ x \in Int /\ p2 \in Int /\ x + FrameSize > d /\ at2[i - 1] = x - d /\ at2[i] = p2 - d
          /\ Tail(fs)[i] = fs[i + 1]
      BY <1>1, <1>4, <1>5, <2>1
    <2>3. CutAt(q, a, p2, fs[i + 1])
      <3>1. i + 1 \in 1..Len(fs)
        BY <1>3, <2>1
      <3>2. CutAt(q, at[i + 1 - 1] + FrameSize, at[i + 1], fs[i + 1])
        BY <3>1 DEF Parsed
      <3> QED
        BY <2>1, <3>2
    <2> HIDE DEF x, p2
    <2>4. a \in Int /\ a2 \in Int /\ a > d /\ x - d + FrameSize = a2
      BY <1>1, <2>2
    <2> HIDE DEF a
    <2>5. a <= p2 /\ p2 > d /\ a2 >= a - d /\ a2 <= p2 - d
      BY <1>1, <2>2, <2>3, <2>4 DEF CutAt
    <2> HIDE DEF a2
    <2>6. CutAt(q2, a2, p2 - d, fs[i + 1])
      BY <1>2, <2>2, <2>3, <2>4, <2>5, ShiftCut
    <2> QED
      BY <2>2, <2>4, <2>6
  <1>8. Rest(q2, at2[n] + FrameSize, st, pk)
    <2> DEFINE x == at[n + 1]
               from == x + FrameSize
               from2 == from - d
    <2>1. n \in 0..n
      BY <1>1
    <2>2. x \in Int /\ x + FrameSize > d /\ at2[n] = x - d
      BY <1>4, <1>5, <2>1
    <2>3. Rest(q, from, st, pk)
      BY <1>1 DEF Parsed
    <2> HIDE DEF x
    <2>4. from \in Int /\ from > d /\ from2 \in Int /\ x - d + FrameSize = from2 /\ from2 = from - d
      BY <1>1, <2>2
    <2> HIDE DEF from, from2
    <2>5. from2 \in Int /\ from2 >= from - d /\ from2 <= Len(q2) + 1 /\ from2 >= 1
      BY <1>1, <2>3, <2>4 DEF Rest
    <2>6. st = "HOLD" => from2 = Len(q2) + 1
      BY <1>1, <2>3, <2>4 DEF Rest, Searched
    <2>7. st = "WAIT_A5" /\ Len(q2) = 0 => from2 = 1
      BY <1>1, <2>5
    <2>8. st = "WAIT_A5" /\ from = Len(q) + 1 => from2 = Len(q2) + 1
      BY <1>1, <2>4
    <2>9. st = "WAIT_5A" => from2 <= Len(q2)
      BY <1>1, <2>3, <2>4 DEF Rest, Searched
    <2>10. st = "COLLECT" => Len(q) - Len(pk) + 1 >= from2 + d
      BY <1>1, <2>3, <2>4 DEF Rest, Partial
    <2>11. Rest(q2, from2, st, pk)
      BY <1>2, <2>3, <2>4, <2>5, <2>6, <2>7, <2>8, <2>9, <2>10, ShiftRest
    <2> QED
      BY <2>2, <2>4, <2>11
  <1>9. \E other \in [0..n -> Int] : Parsed(q2, Tail(fs), st, pk, other)
    <2>1. Parsed(q2, Tail(fs), st, pk, at2)
      BY <1>5, <1>6, <1>7, <1>8 DEF Parsed, n
    <2> QED
      BY <1>5, <2>1
  <1>10. Len(fs[1]) = FrameSize /\ \A j \in 1..FrameSize : q[p + j - 1] = fs[1][j]
    <2>1. 1 \in 1..Len(fs)
      BY <1>1
    <2>2. CutAt(q, at[1 - 1] + FrameSize, at[1], fs[1])
      BY <2>1 DEF Parsed
    <2> QED
      BY <2>2 DEF CutAt
  <1> QED
    BY <1>9, <1>10 DEF n, Cuts

(* Where the program finds the first frame, the hardware has cut one. *)
LEMMA CutOff ==
    ASSUME NEW q \in Seq(Bytes), NEW q2 \in Seq(Bytes),
           NEW p \in Nat \ {0},
           Shifted(q, p + FrameSize - 1, q2),
           NEW fs \in Seq(Seq(Bytes)), NEW st \in {"WAIT_A5", "WAIT_5A", "COLLECT", "HOLD"},
           NEW pk \in Seq(Bytes), Cuts(q, fs, st, pk), st = "COLLECT" => Len(pk) < FrameSize,
           MagicIn(q, p), \A k \in 1..(p - 1) : ~MagicIn(q, k), p + FrameSize - 1 <= Len(q)
    PROVE  /\ fs # <<>> /\ Len(fs[1]) = FrameSize
           /\ \A j \in 1..FrameSize : q[p + j - 1] = fs[1][j]
           /\ Cuts(q2, Tail(fs), st, pk)
  <1>1. PICK at \in [0..Len(fs) -> Int] : Parsed(q, fs, st, pk, at)
    BY DEF Cuts
  <1>2. Len(fs) > 0 /\ at[1] = p
    BY <1>1, CutFirst
  <1>3. fs # <<>>
    BY <1>2
  <1> QED
    BY <1>1, <1>2, <1>3, CutShift

-----------------------------------------------------------------------------
(* The program's buffer.                                                   *)
LEMMA Least ==
    ASSUME NEW T \in SUBSET Nat, T # {}
    PROVE  \E x \in T : \A y \in T : x <= y
  <1> DEFINE Below == {0..n : n \in T}
  <1>1. \A n \in T : IsFiniteSet(0..n)
    BY FS_Interval
  <1>2. Below \subseteq FiniteSubsetsOf(Nat) /\ Below # {}
    <2>1. \A n \in T : 0..n \in FiniteSubsetsOf(Nat)
      <3> TAKE n \in T
      <3>1. 0..n \subseteq Nat /\ IsFiniteSet(0..n)
        BY <1>1
      <3> QED
        BY <3>1 DEF FiniteSubsetsOf
    <2> QED
      BY <2>1
  <1>3. \E x \in Below : \A y \in Below : ~(<<y, x>> \in StrictSubsetOrdering(Nat))
    <2> HIDE DEF Below
    <2> QED
      BY <1>2, FS_StrictSubsetOrderingWellFounded, WFMin
  <1>4. PICK n \in T : \A m \in T : ~(<<0..m, 0..n>> \in StrictSubsetOrdering(Nat))
    BY <1>3
  <1>5. ASSUME NEW m \in T PROVE n <= m
    <2> SUFFICES ASSUME m < n PROVE FALSE
      OBVIOUS
    <2>1. 0..m \subseteq 0..n /\ n \in 0..n /\ n \notin 0..m /\ 0..n \subseteq Nat
      OBVIOUS
    <2> QED
      BY <1>4, <2>1 DEF StrictSubsetOrdering
  <1> QED
    BY <1>5

(* MagicAt: where A5 5A stands in the buffer. *)
LEMMA MagicMeans ==
    ASSUME rx_buffer \in Seq(Bytes)
    PROVE  MagicAt = {k \in 1..(Len(rx_buffer) - 1) : MagicIn(rx_buffer, k)}
  <1>1. ASSUME NEW k \in 1..(Len(rx_buffer) - 1)
        PROVE  SubSeq(rx_buffer, k, k + 1) = Magic <=> MagicIn(rx_buffer, k)
    <2> DEFINE s == SubSeq(rx_buffer, k, k + 1)
    <2>1. s \in Seq(Bytes) /\ Len(s) = 2 /\ s[1] = rx_buffer[k] /\ s[2] = rx_buffer[k + 1]
      <3>1. k \in Nat /\ k >= 1 /\ k + 1 <= Len(rx_buffer) /\ Len(rx_buffer) \in Nat
        OBVIOUS
      <3>2. s \in Seq(Bytes) /\ Len(s) = 2
        BY <3>1
      <3>3. s[1] = rx_buffer[k]
        BY <3>1
      <3>4. s[2] = rx_buffer[k + 1]
        BY <3>1
      <3> QED
        BY <3>2, <3>3, <3>4
    <2>2. Magic = <<"A5", "5A">>
      BY DEF Magic
    <2> HIDE DEF s
    <2>3. s = <<s[1], s[2]>>
      BY <2>1
    <2> QED
      BY <2>1, <2>2, <2>3 DEF MagicIn, s
  <1> QED
    BY <1>1 DEF MagicAt, MagicIn

(* Min(MagicAt): the first of these places. *)
LEMMA FirstMagic ==
    ASSUME rx_buffer \in Seq(Bytes), MagicAt # {}
    PROVE  /\ Min(MagicAt) \in 1..(Len(rx_buffer) - 1)
           /\ MagicIn(rx_buffer, Min(MagicAt))
           /\ \A k \in 1..(Min(MagicAt) - 1) : ~MagicIn(rx_buffer, k)
  <1>1. MagicAt \in SUBSET Nat
    BY DEF MagicAt
  <1>2. PICK m \in MagicAt : \A k \in MagicAt : m <= k
    BY <1>1, Least
  <1>3. /\ Min(MagicAt) \in MagicAt
        /\ \A k \in MagicAt : Min(MagicAt) <= k
    BY <1>2 DEF Min
  <1> HIDE DEF Min
  <1>4. /\ Min(MagicAt) \in 1..(Len(rx_buffer) - 1)
        /\ MagicIn(rx_buffer, Min(MagicAt))
    BY <1>3, MagicMeans
  <1>5. ASSUME NEW k \in 1..(Min(MagicAt) - 1), MagicIn(rx_buffer, k) PROVE FALSE
    <2>1. k \in MagicAt
      BY <1>4, <1>5, MagicMeans DEF MagicIn
    <2> QED
      BY <1>3, <1>4, <2>1
  <1> QED
    BY <1>4, <1>5

(* What the program takes off its buffer it takes off the stream. *)
LEMMA Consumed ==
    ASSUME rx_buffer \in Seq(Bytes), wire \in Seq(Bytes),
           rx_buffer' \in Seq(Bytes), UNCHANGED wire,
           NEW d, Shifted(rx_buffer, d, rx_buffer')
    PROVE  /\ Stream \in Seq(Bytes) /\ Stream' \in Seq(Bytes)
           /\ Shifted(Stream, d, Stream')
           /\ Len(Stream) = Len(rx_buffer) + Len(wire)
           /\ \A k \in 1..Len(rx_buffer) : Stream[k] = rx_buffer[k]
           /\ \A k \in 1..(Len(rx_buffer) - 1) : MagicIn(Stream, k) <=> MagicIn(rx_buffer, k)
  <1>1. /\ Len(rx_buffer) \in Nat /\ Len(wire) \in Nat /\ d \in Nat /\ d <= Len(rx_buffer)
        /\ Len(rx_buffer') = Len(rx_buffer) - d
    BY DEF Shifted
  <1>2. /\ Stream \in Seq(Bytes) /\ Len(Stream) = Len(rx_buffer) + Len(wire)
        /\ \A k \in 1..Len(Stream) :
             Stream[k] = IF k <= Len(rx_buffer) THEN rx_buffer[k] ELSE wire[k - Len(rx_buffer)]
    BY DEF Stream
  <1>3. /\ Stream' \in Seq(Bytes) /\ Len(Stream') = Len(rx_buffer') + Len(wire)
        /\ \A k \in 1..Len(Stream') :
             Stream'[k] = IF k <= Len(rx_buffer') THEN rx_buffer'[k] ELSE wire[k - Len(rx_buffer')]
    BY DEF Stream
  <1>4. \A k \in 1..Len(rx_buffer) : Stream[k] = rx_buffer[k]
    BY <1>1, <1>2
  <1>5. ASSUME NEW k \in 1..Len(Stream') PROVE Stream'[k] = Stream[k + d]
    <2> DEFINE e == k + d
    <2>1. e \in 1..Len(Stream) /\ e - Len(rx_buffer) = k - Len(rx_buffer') /\ e = k + d
      BY <1>1, <1>2, <1>3
    <2> HIDE DEF e
    <2>2. CASE k <= Len(rx_buffer')
      <3>1. k \in 1..Len(rx_buffer') /\ e <= Len(rx_buffer)
        BY <1>1, <1>3, <2>1, <2>2
      <3>2. rx_buffer'[k] = rx_buffer[e]
        BY <2>1, <3>1 DEF Shifted
      <3> QED
        BY <1>2, <1>3, <2>1, <3>1, <3>2
    <2>3. CASE ~(k <= Len(rx_buffer'))
      <3>1. ~(e <= Len(rx_buffer))
        BY <1>1, <1>3, <2>1, <2>3
      <3>2. Stream[e] = wire[e - Len(rx_buffer)]
        BY <1>2, <2>1, <3>1
      <3>3. Stream'[k] = wire[k - Len(rx_buffer')]
        BY <1>3, <2>3
      <3> QED
        BY <2>1, <3>2, <3>3
    <2> QED
      BY <2>1, <2>2, <2>3
  <1>6. Shifted(Stream, d, Stream')
    BY <1>1, <1>2, <1>3, <1>5 DEF Shifted
  <1>7. \A k \in 1..(Len(rx_buffer) - 1) : MagicIn(Stream, k) <=> MagicIn(rx_buffer, k)
    <2> TAKE k \in 1..(Len(rx_buffer) - 1)
    <2>1. k \in 1..Len(rx_buffer) /\ k + 1 \in 1..Len(rx_buffer) /\ k \in 1..(Len(Stream) - 1)
      BY <1>1, <1>2
    <2>2. Stream[k] = rx_buffer[k] /\ Stream[k + 1] = rx_buffer[k + 1]
      BY <1>4, <2>1
    <2> QED
      BY <2>1, <2>2 DEF MagicIn
  <1> QED
    BY <1>2, <1>3, <1>4, <1>6, <1>7

(* What the steps of the program do with its buffer. *)
LEMMA NoiseDropped ==
    ASSUME rx_buffer \in Seq(Bytes), "A5" \in Bytes, DropNoise
    PROVE  /\ rx_buffer' \in Seq(Bytes) /\ Len(rx_buffer') <= 1
           /\ \E d : /\ Shifted(rx_buffer, d, rx_buffer') /\ \A k \in 1..(Len(rx_buffer) - 1) : ~MagicIn(rx_buffer, k)
                     /\ d < Len(rx_buffer) \/ (d = Len(rx_buffer) /\ (d > 0 => rx_buffer[d] # "A5"))
  <1>1. \A k \in 1..(Len(rx_buffer) - 1) : ~MagicIn(rx_buffer, k)
    BY MagicMeans DEF DropNoise
  <1>2. Len(rx_buffer) \in Nat
    OBVIOUS
  <1>3. CASE rx_buffer # <<>> /\ Last(rx_buffer) = "A5"
    <2>1. rx_buffer' = <<"A5">> /\ Len(rx_buffer) > 0 /\ rx_buffer[Len(rx_buffer)] = "A5"
      BY <1>3 DEF DropNoise, Last
    <2>2. rx_buffer' \in Seq(Bytes) /\ Len(rx_buffer') = 1 /\ rx_buffer'[1] = "A5"
      BY <2>1
    <2>3. Shifted(rx_buffer, Len(rx_buffer) - 1, rx_buffer')
      BY <1>2, <2>1, <2>2 DEF Shifted
    <2>4. Len(rx_buffer) - 1 < Len(rx_buffer)
      BY <1>2
    <2> QED
      BY <1>1, <2>2, <2>3, <2>4
  <1>4. CASE ~(rx_buffer # <<>> /\ Last(rx_buffer) = "A5")
    <2>1. rx_buffer' = <<>> /\ (Len(rx_buffer) > 0 => rx_buffer[Len(rx_buffer)] # "A5")
      BY <1>4 DEF DropNoise, Last
    <2>2. rx_buffer' \in Seq(Bytes) /\ Len(rx_buffer') = 0
      BY <2>1, EmptySeq
    <2>3. Shifted(rx_buffer, Len(rx_buffer), rx_buffer')
      BY <1>2, <2>2 DEF Shifted
    <2> QED
      BY <1>1, <2>1, <2>2, <2>3
  <1> QED
    BY <1>3, <1>4

(* The end of a sequence. *)
LEMMA EndOf ==
    ASSUME NEW q \in Seq(Bytes), NEW a \in Nat \ {0}, a <= Len(q) + 1
    PROVE  /\ SubSeq(q, a, Len(q)) \in Seq(Bytes) /\ Len(SubSeq(q, a, Len(q))) = Len(q) - a + 1
           /\ \A k \in 1..(Len(q) - a + 1) : SubSeq(q, a, Len(q))[k] = q[a + k - 1]
  OBVIOUS

(* Synced: the buffer without what precedes the first A5 5A. *)
LEMMA SyncedIs ==
    ASSUME rx_buffer \in Seq(Bytes), MagicAt # {}
    PROVE  /\ Synced \in Seq(Bytes)
           /\ Shifted(rx_buffer, Min(MagicAt) - 1, Synced)
           /\ Len(Synced) = Len(rx_buffer) - Min(MagicAt) + 1
  <1> DEFINE m == Min(MagicAt)
  <1>1. m \in 1..(Len(rx_buffer) - 1) /\ Len(rx_buffer) \in Nat
    BY FirstMagic
  <1>2. Synced = SubSeq(rx_buffer, m, Len(rx_buffer))
    BY DEF Synced
  <1> HIDE DEF m
  <1>3. /\ Synced \in Seq(Bytes) /\ Len(Synced) = Len(rx_buffer) - m + 1
        /\ \A k \in 1..Len(Synced) : Synced[k] = rx_buffer[m + k - 1]
    BY <1>1, <1>2
  <1>4. Shifted(rx_buffer, m - 1, Synced)
    <2>1. \A k \in 1..Len(Synced) : Synced[k] = rx_buffer[k + (m - 1)]
      <3> TAKE k \in 1..Len(Synced)
      <3>1. m + k - 1 = k + (m - 1)
        BY <1>1
      <3> QED
        BY <1>3, <3>1
    <2> QED
      BY <1>1, <1>3, <2>1 DEF Shifted
  <1> QED
    BY <1>3, <1>4 DEF m

(* CutFrame takes the first frame off the buffer. *)
LEMMA FrameCut ==
    ASSUME rx_buffer \in Seq(Bytes), CutFrame
    PROVE  /\ rx_buffer' \in Seq(Bytes)
           /\ Shifted(rx_buffer, Min(MagicAt) + FrameSize - 1, rx_buffer')
           /\ Min(MagicAt) + FrameSize - 1 <= Len(rx_buffer)
           /\ Len(SubSeq(Synced, 1, FrameSize)) = FrameSize
           /\ \A j \in 1..FrameSize : SubSeq(Synced, 1, FrameSize)[j] = rx_buffer[Min(MagicAt) + j - 1]
  <1> DEFINE m == Min(MagicAt)
  <1>1. /\ m \in 1..(Len(rx_buffer) - 1) /\ Len(rx_buffer) \in Nat /\ FrameSize \in Nat
        /\ FrameSize > 2
    BY FirstMagic, FrameAssumption DEF CutFrame
  <1>2. /\ Synced \in Seq(Bytes) /\ Shifted(rx_buffer, m - 1, Synced)
        /\ Len(Synced) = Len(rx_buffer) - m + 1
        /\ Len(Synced) >= FrameSize
        /\ rx_buffer' = SubSeq(Synced, FrameSize + 1, Len(Synced))
    BY SyncedIs DEF CutFrame
  <1> HIDE DEF m
  <1>3. \A k \in 1..Len(Synced) : Synced[k] = rx_buffer[m + k - 1]
    <2> TAKE k \in 1..Len(Synced)
    <2>1. m + k - 1 = k + (m - 1)
      BY <1>1
    <2> QED
      BY <1>2, <2>1 DEF Shifted
  <1>4. /\ rx_buffer' \in Seq(Bytes) /\ Len(rx_buffer') = Len(Synced) - FrameSize
        /\ \A k \in 1..Len(rx_buffer') : rx_buffer'[k] = Synced[FrameSize + k]
    <2>1. /\ FrameSize + 1 \in Nat /\ FrameSize + 1 >= 1
          /\ FrameSize + 1 <= Len(Synced) + 1 /\ Len(Synced) \in Nat
      BY <1>1, <1>2
    <2>2. rx_buffer' \in Seq(Bytes) /\ Len(rx_buffer') = Len(Synced) - FrameSize
      <3>1. /\ Len(rx_buffer') = Len(Synced) - (FrameSize + 1) + 1
            /\ rx_buffer' \in Seq(Bytes)
        BY <1>2, <2>1, EndOf
      <3> QED
        BY <1>1, <2>1, <3>1
    <2>3. ASSUME NEW k \in 1..Len(rx_buffer') PROVE rx_buffer'[k] = Synced[FrameSize + k]
      <3>1. k \in 1..(Len(Synced) - (FrameSize + 1) + 1)
        BY <1>1, <2>1, <2>2
      <3>2. SubSeq(Synced, FrameSize + 1, Len(Synced))[k] = Synced[FrameSize + 1 + k - 1]
        BY <1>2, <2>1, <3>1, EndOf
      <3>3. FrameSize + 1 + k - 1 = FrameSize + k
        BY <1>1, <3>1
      <3> QED
        BY <1>2, <3>2, <3>3
    <2> QED
      BY <2>2, <2>3
  <1>5. Shifted(rx_buffer, m + FrameSize - 1, rx_buffer')
    <2>1. /\ m + FrameSize - 1 \in 0..Len(rx_buffer)
          /\ Len(rx_buffer') = Len(rx_buffer) - (m + FrameSize - 1)
      BY <1>1, <1>2, <1>4
    <2>2. \A k \in 1..Len(rx_buffer') : rx_buffer'[k] = rx_buffer[k + (m + FrameSize - 1)]
      <3> TAKE k \in 1..Len(rx_buffer')
      <3>1. /\ FrameSize + k \in 1..Len(Synced)
            /\ m + (FrameSize + k) - 1 = k + (m + FrameSize - 1)
        BY <1>1, <1>2, <1>4
      <3>2. Synced[FrameSize + k] = rx_buffer[m + (FrameSize + k) - 1]
        BY <1>3, <3>1
      <3> QED
        BY <1>4, <3>1, <3>2
    <2> QED
      BY <2>1, <2>2 DEF Shifted
  <1>6. /\ Len(SubSeq(Synced, 1, FrameSize)) = FrameSize
        /\ \A j \in 1..FrameSize : SubSeq(Synced, 1, FrameSize)[j] = Synced[j]
    BY <1>1, <1>2
  <1>7. \A j \in 1..FrameSize : SubSeq(Synced, 1, FrameSize)[j] = rx_buffer[m + j - 1]
    BY <1>1, <1>2, <1>3, <1>6
  <1>8. m + FrameSize - 1 <= Len(rx_buffer)
    BY <1>1, <1>2
  <1> QED
    BY <1>4, <1>5, <1>6, <1>7, <1>8 DEF m

-----------------------------------------------------------------------------
(* The steps of the program.                                               *)
LEMMA ReadCuts ==
    ASSUME Types, SameCuts, ReadChunk
    PROVE  SameCuts' /\ ProgramOK'
  <1>1. /\ rx_buffer \in Seq(Bytes) /\ wire \in Seq(Bytes) /\ wire' = <<>>
        /\ rx_buffer' = rx_buffer \o wire
    BY DEF Types, ProgramOK, ReadChunk
  <1>2. Stream' = Stream
    BY <1>1 DEF Stream
  <1>3. UNCHANGED <<missed, disagree, ahead, state, packet>>
    BY DEF ReadChunk, hardware
  <1>4. SameCuts'
    BY <1>2, <1>3 DEF SameCuts
  <1>5. /\ rx_buffer' \in Seq(Bytes) /\ wire' \in Seq(Bytes) /\ Len(wire') = 0
        /\ consuming' = TRUE
    BY <1>1, EmptySeq DEF ReadChunk
  <1>6. 0 <= ChunkCap
    BY FrameAssumption
  <1> QED
    BY <1>3, <1>4, <1>5, <1>6 DEF ProgramOK, Types

(* The first d bytes hold no beginning of a frame. *)
LEMMA Dropped ==
    ASSUME Types, SameCuts, NEW d, Shifted(rx_buffer, d, rx_buffer'),
           rx_buffer' \in Seq(Bytes), UNCHANGED <<wire, missed, disagree, ahead, state, packet>>,
           \A k \in 1..(Len(rx_buffer) - 1) : k <= d => ~MagicIn(rx_buffer, k),
           d < Len(rx_buffer) \/ (d = Len(rx_buffer) /\ (d > 0 => rx_buffer[d] # "A5"))
    PROVE  SameCuts'
  <1>1. /\ rx_buffer \in Seq(Bytes) /\ wire \in Seq(Bytes) /\ packet \in Seq(Bytes)
        /\ state \in {"WAIT_A5", "WAIT_5A", "COLLECT", "HOLD"} /\ ahead \in Seq(Seq(Bytes))
    BY DEF Types, ProgramOK, HardwareOK, Collected
  <1>2. d \in Nat /\ d <= Len(rx_buffer) /\ Len(rx_buffer) \in Nat /\ Len(wire) \in Nat
    BY <1>1 DEF Shifted
  <1>3. /\ Stream \in Seq(Bytes) /\ Stream' \in Seq(Bytes) /\ Shifted(Stream, d, Stream')
        /\ Len(Stream) = Len(rx_buffer) + Len(wire)
        /\ \A k \in 1..Len(rx_buffer) : Stream[k] = rx_buffer[k]
        /\ \A k \in 1..(Len(rx_buffer) - 1) : MagicIn(Stream, k) <=> MagicIn(rx_buffer, k)
    BY <1>1, Consumed
  <1>4. \A k \in 1..d : ~MagicIn(Stream, k)
    <2> TAKE k \in 1..d
    <2>1. CASE k < Len(rx_buffer)
      <3>1. k \in 1..(Len(rx_buffer) - 1) /\ k <= d
        BY <1>2, <2>1
      <3> QED
        BY <1>3, <3>1
    <2>2. CASE ~(k < Len(rx_buffer))
      <3>1. k = d /\ d = Len(rx_buffer) /\ rx_buffer[d] # "A5" /\ d \in 1..Len(rx_buffer)
        BY <1>2, <2>2
      <3> QED
        BY <1>3, <3>1 DEF MagicIn
    <2> QED
      BY <2>1, <2>2
  <1>5. d > 0 /\ d = Len(Stream) => Stream[d] # "A5"
    <2> HAVE d > 0 /\ d = Len(Stream)
    <2>1. d = Len(rx_buffer) /\ d \in 1..Len(rx_buffer) /\ rx_buffer[d] # "A5"
      BY <1>2, <1>3
    <2> QED
      BY <1>3, <2>1
  <1>6. Cuts(Stream, ahead, state, packet) => Cuts(Stream', ahead, state, packet)
    BY <1>1, <1>3, <1>4, <1>5, DropCuts
  <1> QED
    BY <1>6 DEF SameCuts

(* DropNoise keeps the frames of the stream. *)
LEMMA DropNoiseCuts ==
    ASSUME Types, SameCuts, DropNoise
    PROVE  SameCuts' /\ ProgramOK'
  <1>1. UNCHANGED <<wire, missed, disagree, ahead, state, packet>> /\ consuming' = FALSE
    BY DEF DropNoise, hardware
  <1>2. rx_buffer \in Seq(Bytes) /\ "A5" \in Bytes
    BY FrameBytes DEF Types, ProgramOK, LineOK
  <1>3. rx_buffer' \in Seq(Bytes) /\ Len(rx_buffer') <= 1
    BY <1>2, NoiseDropped
  <1>4. PICK d : /\ Shifted(rx_buffer, d, rx_buffer') /\ \A k \in 1..(Len(rx_buffer) - 1) : ~MagicIn(rx_buffer, k)
                 /\ d < Len(rx_buffer) \/ (d = Len(rx_buffer) /\ (d > 0 => rx_buffer[d] # "A5"))
    BY <1>2, NoiseDropped
  <1>5. SameCuts'
    BY <1>1, <1>3, <1>4, Dropped
  <1>6. Len(rx_buffer') < FrameSize
    BY <1>3, FrameAssumption
  <1> QED
    BY <1>1, <1>3, <1>5, <1>6 DEF ProgramOK, Types

(* So does AwaitRest. *)
LEMMA AwaitRestCuts ==
    ASSUME Types, SameCuts, AwaitRest
    PROVE  SameCuts' /\ ProgramOK'
  <1>1. /\ UNCHANGED <<wire, missed, disagree, ahead, state, packet>> /\ consuming' = FALSE
        /\ rx_buffer' = Synced /\ Len(Synced) < FrameSize /\ MagicAt # {}
    BY DEF AwaitRest, hardware
  <1>2. rx_buffer \in Seq(Bytes)
    BY DEF Types, ProgramOK
  <1> DEFINE m == Min(MagicAt)
  <1>3. /\ m \in 1..(Len(rx_buffer) - 1) /\ \A k \in 1..(m - 1) : ~MagicIn(rx_buffer, k)
        /\ rx_buffer' \in Seq(Bytes) /\ Shifted(rx_buffer, m - 1, rx_buffer')
    BY <1>1, <1>2, FirstMagic, SyncedIs
  <1> HIDE DEF m
  <1>4. /\ \A k \in 1..(Len(rx_buffer) - 1) : k <= m - 1 => ~MagicIn(rx_buffer, k)
        /\ m - 1 < Len(rx_buffer)
    BY <1>2, <1>3
  <1>5. SameCuts'
    BY <1>1, <1>3, <1>4, Dropped
  <1> QED
    BY <1>1, <1>3, <1>5 DEF ProgramOK, Types

(* CutFrame cuts the frame the hardware cut first of those it owes. *)
LEMMA CutFrameCuts ==
    ASSUME Types, SameCuts, CutFrame
    PROVE  SameCuts' /\ ProgramOK' /\ ahead' \in Seq(Seq(Bytes))
  <1>1. /\ UNCHANGED <<wire, missed, state, packet, consuming>> /\ MagicAt # {} /\ consuming
        /\ disagree' = (disagree \/ ahead = <<>> \/ Head(ahead) # SubSeq(Synced, 1, FrameSize))
        /\ ahead' = IF ahead = <<>> THEN ahead ELSE Tail(ahead)
    BY DEF CutFrame, hardware
  <1>2. /\ rx_buffer \in Seq(Bytes) /\ wire \in Seq(Bytes) /\ packet \in Seq(Bytes)
        /\ state \in {"WAIT_A5", "WAIT_5A", "COLLECT", "HOLD"} /\ ahead \in Seq(Seq(Bytes))
        /\ state = "COLLECT" => Len(packet) < FrameSize
        /\ FrameSize \in Nat /\ FrameSize > 2 /\ disagree \in BOOLEAN
    <2>1. state = "COLLECT" => Len(packet) \in 2..FrameSize - 1
      BY DEF Types, HardwareOK, Collected
    <2>2. FrameSize \in Nat /\ FrameSize > 2
      BY FrameAssumption
    <2> QED
      BY <2>1, <2>2 DEF Types, ProgramOK, HardwareOK, Collected
  <1> DEFINE m == Min(MagicAt)
             first == SubSeq(Synced, 1, FrameSize)
  <1>3. /\ m \in 1..(Len(rx_buffer) - 1) /\ \A k \in 1..(m - 1) : ~MagicIn(rx_buffer, k)
        /\ MagicIn(rx_buffer, m)
    BY <1>1, <1>2, FirstMagic
  <1>4. /\ rx_buffer' \in Seq(Bytes) /\ Shifted(rx_buffer, m + FrameSize - 1, rx_buffer')
        /\ m + FrameSize - 1 <= Len(rx_buffer)
        /\ Len(first) = FrameSize /\ \A j \in 1..FrameSize : first[j] = rx_buffer[m + j - 1]
    BY <1>2, FrameCut
  <1>5. first \in Seq(Bytes)
    <2>1. Synced \in Seq(Bytes) /\ Len(Synced) >= FrameSize
      BY <1>1, <1>2, SyncedIs DEF CutFrame
    <2> QED
      BY <1>2, <2>1
  <1> HIDE DEF m, first
  <1>6. /\ Stream \in Seq(Bytes) /\ Stream' \in Seq(Bytes)
        /\ Shifted(Stream, m + FrameSize - 1, Stream')
        /\ Len(Stream) = Len(rx_buffer) + Len(wire)
        /\ \A k \in 1..Len(rx_buffer) : Stream[k] = rx_buffer[k]
        /\ \A k \in 1..(Len(rx_buffer) - 1) : MagicIn(Stream, k) <=> MagicIn(rx_buffer, k)
    BY <1>1, <1>2, <1>4, Consumed
  <1>7. /\ m \in Nat \ {0} /\ MagicIn(Stream, m) /\ m + FrameSize - 1 <= Len(Stream)
        /\ \A k \in 1..(m - 1) : ~MagicIn(Stream, k)
    <2>1. Len(rx_buffer) \in Nat /\ Len(wire) \in Nat
      BY <1>2
    <2>2. \A k \in 1..(m - 1) : k \in 1..(Len(rx_buffer) - 1)
      BY <1>3, <2>1
    <2>3. m + FrameSize - 1 <= Len(Stream) /\ m \in Nat \ {0}
      BY <1>2, <1>3, <1>4, <1>6, <2>1
    <2>4. m \in 1..(Len(rx_buffer) - 1) /\ MagicIn(rx_buffer, m)
      BY <1>3 DEF MagicIn
    <2>5. MagicIn(Stream, m)
      BY <1>6, <2>4
    <2>6. \A k \in 1..(m - 1) : ~MagicIn(Stream, k)
      BY <1>3, <1>6, <2>2
    <2> QED
      BY <2>3, <2>5, <2>6
  <1>8. ahead' \in Seq(Seq(Bytes))
    BY <1>1, <1>2
  <1>9. ASSUME Cuts(Stream, ahead, state, packet)
        PROVE  ahead # <<>> /\ Head(ahead) = first /\ Cuts(Stream', Tail(ahead), state, packet)
    <2>1. /\ ahead # <<>> /\ Len(ahead[1]) = FrameSize
          /\ \A j \in 1..FrameSize : Stream[m + j - 1] = ahead[1][j]
          /\ Cuts(Stream', Tail(ahead), state, packet)
      BY <1>2, <1>6, <1>7, <1>9, CutOff
    <2>2. Head(ahead) = ahead[1] /\ ahead[1] \in Seq(Bytes)
      BY <1>2, <2>1
    <2>4. \A j \in 1..FrameSize : ahead[1][j] = first[j]
      <3> TAKE j \in 1..FrameSize
      <3>1. m + j - 1 \in 1..Len(rx_buffer)
        BY <1>2, <1>3, <1>4
      <3> QED
        BY <1>4, <1>6, <2>1, <3>1
    <2>5. ahead[1] = first
      <3> DEFINE f == ahead[1]
      <3>1. /\ f \in Seq(Bytes) /\ first \in Seq(Bytes) /\ Len(f) = Len(first)
            /\ \A j \in 1..Len(f) : f[j] = first[j]
        BY <1>4, <1>5, <2>1, <2>2, <2>4
      <3> HIDE DEF f
      <3>2. f = first
        BY <3>1, SeqEqual
      <3> QED
        BY <3>2 DEF f
    <2> QED
      BY <2>1, <2>2, <2>5
  <1>10. SameCuts'
    <2>1. CASE missed
      BY <1>1, <2>1 DEF SameCuts
    <2>2. CASE ~missed
      <3>1. Cuts(Stream, ahead, state, packet)
        BY <2>2 DEF SameCuts
      <3>2. ahead # <<>> /\ Head(ahead) = first
        BY <1>9, <3>1
      <3>3. Cuts(Stream', ahead', state', packet')
        BY <1>1, <1>9, <3>1, <3>2
      <3>4. ~disagree'
        BY <1>1, <2>2, <3>2 DEF SameCuts, first
      <3> QED
        BY <3>3, <3>4 DEF SameCuts
    <2> QED
      BY <2>1, <2>2
  <1>11. ProgramOK'
    BY <1>1, <1>2, <1>4 DEF ProgramOK, Types
  <1> QED
    BY <1>8, <1>10, <1>11

-----------------------------------------------------------------------------
(* The steps of the line.                                                  *)
LEMMA CarryStep ==
    ASSUME Types, SameCuts, NEW b \in Bytes, Carry(b), NextByte,
           faults' \in 0..MaxFaults
    PROVE  Types' /\ SameCuts'
  <1>1. LineOK' /\ UNCHANGED <<rx_buffer, consuming, disagree>>
    BY AdvanceTypes DEF Types, program
  <1>2. /\ HardwareOK' /\ ahead' \in Seq(Seq(Bytes))
        /\ wire' \in Seq(Bytes) /\ Len(wire') <= ChunkCap
    BY CarryTypes
  <1>3. ProgramOK'
    BY <1>1, <1>2 DEF Types, ProgramOK
  <1>4. SameCuts'
    BY <1>1, CarryCuts
  <1> QED
    BY <1>1, <1>2, <1>3, <1>4 DEF Types

(* The byte that is sent. *)
LEMMA SentByte ==
    ASSUME LineOK, pos > 0
    PROVE  frame[pos] \in Bytes
  <1>1. frame \in Seq(Bytes) /\ Len(frame) = FrameSize /\ pos \in 1..FrameSize
    BY FrameBytes DEF LineOK
  <1> QED
    BY <1>1

(* Every step keeps the frames of the stream. *)
LEMMA CutsNext ==
    Types /\ SameCuts /\ [LineNext]_lineVars => Types' /\ SameCuts'
  <1> SUFFICES ASSUME Types, SameCuts, [LineNext]_lineVars PROVE Types' /\ SameCuts'
    OBVIOUS
  <1>1. FrameSize \in Nat /\ FrameSize > 2 /\ MaxFaults \in Nat /\ faults \in 0..MaxFaults
    BY FrameAssumption DEF Types, LineOK
  <1>2. CASE UNCHANGED lineVars
    BY <1>2 DEF lineVars, line, hardware, program, Types, LineOK, HardwareOK,
       ProgramOK, SameCuts, Stream
  <1>3. CASE \E f \in Frames : Load(f)
    <2>1. /\ frame' \in Frames /\ pos' = 1
          /\ UNCHANGED <<faults, lost, state, packet, missed, wire, rx_buffer, consuming, disagree, ahead>>
      BY <1>3 DEF Load, hardware, program
    <2>2. pos' \in 0..FrameSize
      BY <1>1, <2>1
    <2>3. inner' \in 0..MaxInner
      <3>1. inner \in 0..MaxInner /\ MaxInner \in Nat
        BY FrameAssumption DEF Types, LineOK
      <3>2. inner' = inner \/ (inner < MaxInner /\ inner' = inner + 1)
        BY <1>3 DEF Load
      <3> QED
        BY <3>1, <3>2
    <2> QED
      BY <2>1, <2>2, <2>3 DEF Types, LineOK, HardwareOK, ProgramOK, SameCuts, Stream
  <1>4. CASE SendByte
    BY <1>1, <1>4, CarryStep, SentByte DEF SendByte, Types
  <1>5. CASE \E b \in Noise : DamageByte(b)
    <2>1. PICK b \in Noise : DamageByte(b)
      BY <1>5
    <2>2. b \in Bytes
      BY DEF Bytes
    <2>3. faults' \in 0..MaxFaults
      BY <1>1, <2>1 DEF DamageByte, Fault
    <2> QED
      BY <2>1, <2>2, <2>3, CarryStep DEF DamageByte
  <1>6. CASE LoseByte
    <2>1. /\ faults' \in 0..MaxFaults /\ NextByte
          /\ UNCHANGED <<state, packet, missed, wire, ahead>>
      BY <1>1, <1>6 DEF LoseByte, Fault, hardware
    <2>2. LineOK' /\ UNCHANGED <<rx_buffer, consuming, disagree>>
      BY <2>1, AdvanceTypes DEF Types, program
    <2> QED
      BY <2>1, <2>2 DEF Types, HardwareOK, ProgramOK, SameCuts, Stream
  <1>7. CASE SendIntoHold
    <2>1. faults' \in 0..MaxFaults
      BY <1>1, <1>7 DEF SendIntoHold, Fault
    <2> QED
      BY <1>7, <2>1, CarryStep, SentByte DEF SendIntoHold, Types
  <1>8. CASE Take
    <2>1. packet' \in Seq(Bytes) /\ Len(packet') = 0
      BY <1>8, EmptySeq DEF Take
    <2>2. UNCHANGED <<line, missed, wire, program, ahead>> /\ state' = "WAIT_A5"
      BY <1>8 DEF Take
    <2>3. HardwareOK'
      BY <2>1, <2>2 DEF HardwareOK, Collected, Types
    <2>4. SameCuts'
      BY <1>8, TakeCuts
    <2> QED
      BY <2>2, <2>3, <2>4 DEF Types, LineOK, ProgramOK, line, program
  <1>9. ASSUME ProgramOK', UNCHANGED <<line, hardware>>, ahead' \in Seq(Seq(Bytes))
        PROVE  Types'
    BY <1>9 DEF Types, LineOK, HardwareOK, line, hardware
  <1>10. CASE ReadChunk
    BY <1>9, <1>10, ReadCuts DEF ReadChunk, Types
  <1>11. CASE DropNoise
    BY <1>9, <1>11, DropNoiseCuts DEF DropNoise, Types
  <1>12. CASE AwaitRest
    BY <1>9, <1>12, AwaitRestCuts DEF AwaitRest, Types
  <1>13. CASE CutFrame
    BY <1>9, <1>13, CutFrameCuts DEF CutFrame, Types
  <1> QED
    BY <1>2, <1>3, <1>4, <1>5, <1>6, <1>7, <1>8, <1>10, <1>11, <1>12, <1>13 DEF LineNext

(* At the start there are none. *)
LEMMA CutsInit == LineInit => Types /\ SameCuts
  <1> SUFFICES ASSUME LineInit PROVE Types /\ SameCuts
    OBVIOUS
  <1>1. /\ FrameSize \in Nat /\ MaxFaults \in Nat /\ ChunkCap \in Nat /\ FrameSize > 2
        /\ LossCap \in Nat
        /\ \A S : <<>> \in Seq(S) /\ Len(<<>>) = 0
    BY EmptySeq, FrameAssumption DEF LossCap
  <1>2. Types
    <2>1. LineOK
      BY <1>1, FrameAssumption DEF LineInit, LineOK
    <2>2. HardwareOK
      <3>1. packet \in Seq(Bytes) /\ Len(packet) = 0
        BY <1>1 DEF LineInit
      <3>2. state = "WAIT_A5" /\ missed \in BOOLEAN
        BY DEF LineInit
      <3> QED
        BY <3>1, <3>2 DEF HardwareOK, Collected
    <2>3. ProgramOK
      <3>1. /\ wire \in Seq(Bytes) /\ Len(wire) = 0 /\ rx_buffer \in Seq(Bytes)
            /\ Len(rx_buffer) = 0
        BY <1>1 DEF LineInit
      <3>2. {consuming, disagree} \subseteq BOOLEAN
        BY DEF LineInit
      <3> QED
        BY <1>1, <3>1, <3>2 DEF ProgramOK
    <2>4. ahead \in Seq(Seq(Bytes))
      BY <1>1 DEF LineInit
    <2> QED
      BY <2>1, <2>2, <2>3, <2>4 DEF Types
  <1>3. Stream \in Seq(Bytes) /\ Len(Stream) = 0
    BY <1>1 DEF LineInit, Stream
  <1> DEFINE at == [i \in 0..0 |-> 1 - FrameSize]
  <1>4. /\ at \in [0..Len(ahead) -> Int] /\ Len(ahead) = 0 /\ at[0] = 1 - FrameSize
        /\ at[Len(ahead)] + FrameSize = 1
    BY <1>1 DEF LineInit
  <1> HIDE DEF at
  <1>5. Rest(Stream, 1, state, packet)
    BY <1>3 DEF Rest, Searched, Plain, LineInit
  <1>6. Parsed(Stream, ahead, state, packet, at)
    <2>1. \A i \in 1..Len(ahead) : FALSE
      BY <1>4
    <2>2. \A i, j \in 0..Len(ahead) : ~(i < j)
      BY <1>4
    <2> QED
      BY <1>4, <1>5, <2>1, <2>2 DEF Parsed
  <1>7. SameCuts
    BY <1>4, <1>6 DEF SameCuts, Cuts, LineInit
  <1> QED
    BY <1>2, <1>7

(* With nothing left to read, no frame is owed. *)
LEMMA NothingOwed ==
    ASSUME Types, SameCuts
    PROVE  SameFrames
  <1> SUFFICES ASSUME ~missed, wire = <<>>, ~consuming, ahead # <<>> PROVE FALSE
    BY DEF SameFrames, SameCuts
  <1>1. /\ rx_buffer \in Seq(Bytes) /\ Len(rx_buffer) < FrameSize /\ FrameSize \in Nat
        /\ ahead \in Seq(Seq(Bytes)) /\ Len(ahead) \in Nat \ {0} /\ Len(rx_buffer) \in Nat
    BY FrameAssumption DEF Types, ProgramOK
  <1>2. Stream = rx_buffer
    BY <1>1 DEF Stream
  <1>3. PICK at \in [0..Len(ahead) -> Int] : Parsed(rx_buffer, ahead, state, packet, at)
    BY <1>2 DEF SameCuts, Cuts
  <1>4. 1 \in 1..Len(ahead) /\ 1 \in 0..Len(ahead) /\ at[1 - 1] + FrameSize = 1
    BY <1>1, <1>3 DEF Parsed
  <1>5. CutAt(rx_buffer, 1, at[1], ahead[1]) /\ at[1] \in Int
    BY <1>3, <1>4 DEF Parsed
  <1> DEFINE a == at[1]
  <1>6. a \in Int /\ 1 <= a /\ a + FrameSize - 1 <= Len(rx_buffer)
    BY <1>5 DEF CutAt
  <1> HIDE DEF a
  <1> QED
    BY <1>1, <1>6

-----------------------------------------------------------------------------
(* The frames that are lost.                                               *)

(* The receiver has the beginning of the frame that is being sent. *)
InStep == \/ pos = 2 /\ state = "WAIT_5A"
          \/ pos > 2 /\ state = "COLLECT" /\ packet = SubSeq(frame, 1, pos - 1)

(* It collects bytes that began in the middle of that frame. *)
Astray == \/ state = "COLLECT" /\ Len(packet) < pos - 1
          \/ state = "WAIT_5A" /\ frame[pos - 1] # "A5"

(* The frames that will be lost for the faults there have been: the one    *)
(* that is being sent, and the next.                                       *)
Debt == IF pos < 2 THEN IF state = "COLLECT" THEN 1 ELSE 0
        ELSE IF InStep THEN 0 ELSE IF Astray THEN 2 ELSE 1

(* ... and those that will be lost at most: once a fault has hit a frame    *)
(* with A5 5A inside, or a receiver is astray when it begins, two.         *)
Due == IF pos > 0 /\ ~PlainFrame(frame) /\ Debt > 0 THEN 2 ELSE Debt
Paid == /\ lost + Due <= 2 * faults + inner
        /\ faults = 0 => lost = 0 /\ Debt = 0

(* A byte that arrives as it was sent adds nothing to lost and debt, if the *)
(* receiver is in step or the frame plain.                                 *)
LEMMA SendByteDebt ==
    ASSUME PlainFrame(frame) \/ Debt = 0, Types, SendByte
    PROVE  lost' + Debt' <= lost + Debt
  <1>0. PICK d, e, l : d = Debt /\ e = Debt' /\ l = lost'
    OBVIOUS
  <1>a. d \in 0..2 /\ e \in 0..2
    BY <1>0 DEF Debt
  <1>b. d # 0 => PlainFrame(frame)
    BY <1>0
  <1> SUFFICES l + e <= lost + d
    BY <1>0
  <1> DEFINE b == frame[pos]
  <1>1. /\ FrameSize \in Nat /\ FrameSize > 2 /\ pos \in 1..FrameSize /\ lost \in Nat
        /\ LossCap \in Nat
        /\ frame \in Frames /\ frame \in Seq(Bytes) /\ Len(frame) = FrameSize
        /\ frame[1] = "A5" /\ frame[2] = "5A" /\ "A5" \in Bytes /\ "5A" \in Bytes
        /\ b \in Bytes
        /\ lost <= LossCap
    <2>1. /\ frame \in Frames /\ pos \in 1..FrameSize /\ pos > 0 /\ FrameSize \in Nat
          /\ FrameSize > 2
          /\ MaxFaults \in Nat /\ lost \in 0..LossCap
      BY FrameAssumption DEF SendByte, Types, LineOK
    <2>2. b \in Bytes
      BY <2>1, SentByte DEF Types
    <2>3. LossCap \in Nat /\ lost \in Nat /\ lost <= LossCap
      BY <2>1, FrameAssumption DEF LossCap
    <2> HIDE DEF b
    <2> QED
      BY <2>1, <2>2, <2>3, FrameBytes
  <1>2. /\ HardwareOK /\ state' = After(b).state /\ packet' = After(b).packet
        /\ state # "HOLD"
        /\ frame' = frame /\ pos' = (pos + 1) % (FrameSize + 1)
        /\ lost' = IF pos = FrameSize /\ ~(state' = "HOLD" /\ packet' = frame)
                   THEN Min({lost + 1, LossCap}) ELSE lost
    BY DEF SendByte, Carry, NextByte, Types
  <1>3. pos < FrameSize => pos' = pos + 1 /\ l = lost
    BY <1>0, <1>1, <1>2
  <1>4. pos = FrameSize => pos' = 0
    BY <1>1, <1>2
  <1>5. l \in {lost, lost + 1}
    <2>1. \E x \in {lost + 1, LossCap} : \A y \in {lost + 1, LossCap} : x <= y
      BY <1>1
    <2>2. /\ Min({lost + 1, LossCap}) \in {lost + 1, LossCap}
          /\ Min({lost + 1, LossCap}) <= lost + 1
      BY <1>1, <2>1 DEF Min
    <2> DEFINE m == Min({lost + 1, LossCap})
    <2>3. m \in {lost + 1, LossCap} /\ m <= lost + 1
      BY <2>2
    <2>4. l \in {lost, m}
      BY <1>0, <1>2
    <2> HIDE DEF m
    <2>5. m \in {lost, lost + 1}
      BY <1>1, <2>3
    <2> QED
      BY <2>4, <2>5
  <1>6. /\ state = "WAIT_A5" =>
             IF b = "A5" THEN state' = "WAIT_5A" ELSE state' = "WAIT_A5"
        /\ state = "WAIT_5A" =>
             IF b = "5A" THEN state' = "COLLECT" /\ packet' = Magic
             ELSE IF b = "A5" THEN state' = "WAIT_5A" ELSE state' = "WAIT_A5"
    <2> HIDE DEF b
    <2>1. state = "WAIT_A5" => After(b).state = IF b = "A5" THEN "WAIT_5A" ELSE "WAIT_A5"
      BY <1>1, <1>2, Searching
    <2>2. state = "WAIT_5A" /\ b = "5A" =>
            After(b).state = "COLLECT" /\ After(b).packet = Magic
      BY <1>1, <1>2, Searching
    <2>3. state = "WAIT_5A" /\ b # "5A" =>
            After(b).state = IF b = "A5" THEN "WAIT_5A" ELSE "WAIT_A5"
      BY <1>1, <1>2, Searching
    <2> QED
      BY <1>2, <2>1, <2>2, <2>3
  <1>7. state = "COLLECT" =>
             /\ packet' = Append(packet, b) /\ packet \in Seq(Bytes)
             /\ Len(packet') = Len(packet) + 1
             /\ Len(packet) \in 2..FrameSize - 1
             /\ state' = IF Len(packet) = FrameSize - 1 THEN "HOLD" ELSE "COLLECT"
    <2> HIDE DEF b
    <2> QED
      BY <1>1, <1>2, Collecting DEF HardwareOK
  <1>8. state \in {"WAIT_A5", "WAIT_5A", "COLLECT"}
    BY <1>2 DEF HardwareOK, Collected
  <1>9. ASSUME InStep, pos > 2 PROVE packet' = SubSeq(frame, 1, pos) /\ Len(packet) = pos - 1
    <2>1. packet = SubSeq(frame, 1, pos - 1) /\ state = "COLLECT"
      BY <1>9 DEF InStep
    <2>2. Len(packet) = pos - 1 /\ \A i \in 1..(pos - 1) : packet[i] = frame[i]
      BY <1>1, <2>1
    <2> DEFINE s == SubSeq(frame, 1, pos)
    <2>3. s \in Seq(Bytes) /\ Len(s) = pos /\ \A i \in 1..pos : s[i] = frame[i]
      BY <1>1
    <2>4. /\ packet' \in Seq(Bytes) /\ Len(packet') = pos
          /\ \A i \in 1..pos : packet'[i] = frame[i]
      <3>1. packet' = Append(packet, b) /\ packet \in Seq(Bytes)
        BY <1>7, <2>1
      <3>2. /\ packet' \in Seq(Bytes) /\ Len(packet') = Len(packet) + 1
            /\ packet'[Len(packet) + 1] = b /\ \A i \in 1..Len(packet) : packet'[i] = packet[i]
        BY <1>1, <3>1
      <3> QED
        BY <1>1, <2>2, <3>2
    <2> HIDE DEF s
    <2>5. packet' = s
      BY <2>3, <2>4, SeqEqual
    <2> QED
      BY <2>2, <2>5 DEF s
  <1>10. CASE pos = 1
    <2>1. b = "A5" /\ pos' = 2 /\ l = lost
      BY <1>1, <1>3, <1>10
    <2>2. CASE state = "COLLECT"
      <3>1. Len(packet') >= 3 /\ state' \in {"HOLD", "COLLECT"}
        BY <1>1, <1>7, <2>2
      <3>2. ~Astray'
        BY <1>1, <2>1, <3>1 DEF Astray
      <3>3. e <= 1 /\ d = 1
        BY <1>0, <1>10, <2>1, <2>2, <3>2 DEF Debt
      <3> QED
        BY <1>1, <2>1, <3>3, <1>a
    <2>3. CASE state # "COLLECT"
      <3>1. state' = "WAIT_5A"
        BY <1>6, <1>8, <2>1, <2>3
      <3>2. e = 0
        BY <1>0, <2>1, <3>1 DEF Debt, InStep
      <3> QED
        BY <1>1, <2>1, <3>2, <1>a
    <2> QED
      BY <2>2, <2>3
  <1>11. CASE pos = 2
    <2>1. b = "5A" /\ pos' = 3 /\ l = lost
      BY <1>1, <1>3, <1>11
    <2>2. CASE state = "WAIT_5A"
      <3>1. state' = "COLLECT" /\ packet' = Magic
        BY <1>6, <2>1, <2>2
      <3>2. SubSeq(frame, 1, 2) = Magic
        BY <1>1, FrameAssumption
      <3>3. InStep'
        <4>1. pos' - 1 = 2 /\ pos' > 2
          BY <2>1
        <4>2. packet' = SubSeq(frame', 1, pos' - 1)
          BY <1>2, <3>1, <3>2, <4>1
        <4> QED
          BY <3>1, <4>1, <4>2 DEF InStep
      <3>4. e = 0
        BY <1>0, <2>1, <3>3 DEF Debt
      <3> QED
        BY <1>1, <2>1, <3>4, <1>a
    <2>3. CASE state # "WAIT_5A"
      <3>1. d >= 1
        BY <1>0, <1>11, <2>3 DEF Debt, InStep
      <3>2. state' # "WAIT_5A" /\ (state' = "COLLECT" => Len(packet') >= 3)
        BY <1>1, <1>6, <1>7, <1>8, <2>1, <2>3
      <3>3. ~Astray'
        BY <2>1, <3>2 DEF Astray, Types, HardwareOK
      <3>4. e <= 1
        BY <1>0, <2>1, <3>3 DEF Debt
      <3> QED
        BY <1>1, <2>1, <3>1, <3>4, <1>a
    <2> QED
      BY <2>2, <2>3
  <1>12. ASSUME pos > 2, state = "WAIT_5A", ~Astray, PlainFrame(frame) PROVE b # "5A"
    <2>1. pos - 1 \in 2..(FrameSize - 1) /\ pos - 1 + 1 = pos
      BY <1>1, <1>12
    <2>2. ~(frame[pos - 1] = "A5" /\ frame[pos - 1 + 1] = "5A")
      BY <1>1, <1>12, <2>1 DEF PlainFrame
    <2>3. frame[pos - 1] = "A5"
      BY <1>12 DEF Astray
    <2> QED
      BY <2>1, <2>2, <2>3
  <1>13. CASE pos > 2 /\ pos < FrameSize
    <2>1. pos' = pos + 1 /\ l = lost /\ pos' > 2
      BY <1>1, <1>3, <1>13
    <2>2. CASE InStep
      <3>1. state = "COLLECT"
        BY <1>13, <2>2 DEF InStep
      <3>2. packet' = SubSeq(frame, 1, pos) /\ Len(packet) = pos - 1
        BY <1>9, <1>13, <2>2
      <3>3. state' = "COLLECT"
        BY <1>1, <1>7, <1>13, <3>1, <3>2
      <3>4. pos' - 1 = pos
        BY <1>1, <2>1
      <3>5. InStep'
        BY <1>2, <2>1, <3>2, <3>3, <3>4 DEF InStep
      <3>6. e = 0
        BY <1>0, <1>1, <2>1, <3>5 DEF Debt
      <3> QED
        BY <1>1, <2>1, <3>6, <1>a
    <2>3. CASE ~InStep /\ Astray
      <3>1. d = 2
        BY <1>0, <1>1, <1>13, <2>3 DEF Debt
      <3> QED
        BY <1>1, <2>1, <3>1, <1>a
    <2>4. CASE ~InStep /\ ~Astray
      <3>1. d = 1
        BY <1>0, <1>1, <1>13, <2>4 DEF Debt
      <3>2. state' = "COLLECT" => ~(Len(packet') < pos' - 1)
        <4>1. state' = "COLLECT" => state = "COLLECT"
          BY <1>6, <1>8, <1>12, <1>13, <1>b, <2>4, <3>1
        <4>2. state = "COLLECT" => Len(packet) >= pos - 1 /\ Len(packet') = Len(packet) + 1 /\ Len(packet) \in Nat
          BY <1>1, <1>7, <2>4 DEF Astray
        <4> QED
          BY <1>1, <2>1, <4>1, <4>2
      <3>3. state' = "WAIT_5A" => b = "A5"
        BY <1>6, <1>7, <1>8
      <3>4. ~Astray'
        <4>1. pos' - 1 = pos /\ frame' = frame
          BY <1>1, <1>2, <2>1
        <4> QED
          BY <3>2, <3>3, <4>1 DEF Astray
      <3>5. e <= 1
        BY <1>0, <1>1, <2>1, <3>4 DEF Debt
      <3> QED
        BY <1>1, <2>1, <3>1, <3>5, <1>a
    <2> QED
      BY <2>2, <2>3, <2>4
  <1>14. CASE pos = FrameSize
    <2>1. pos' = 0 /\ pos > 2
      BY <1>1, <1>4, <1>14
    <2>2. CASE InStep
      <3>1. state = "COLLECT"
        BY <2>1, <2>2 DEF InStep
      <3>2. packet' = SubSeq(frame, 1, pos) /\ Len(packet) = pos - 1
        BY <1>9, <2>1, <2>2
      <3>3. SubSeq(frame, 1, FrameSize) = frame
        BY <1>1
      <3>4. state' = "HOLD" /\ packet' = frame
        BY <1>7, <1>14, <3>1, <3>2, <3>3
      <3>5. e = 0 /\ l = lost
        BY <1>0, <1>2, <2>1, <3>4 DEF Debt
      <3> QED
        BY <1>1, <3>5, <1>a
    <2>3. CASE ~InStep /\ Astray
      <3>1. d = 2
        BY <1>0, <1>1, <2>1, <2>3 DEF Debt
      <3>2. e <= 1
        BY <1>0, <2>1 DEF Debt
      <3> QED
        BY <1>1, <1>5, <3>1, <3>2, <1>a
    <2>4. CASE ~InStep /\ ~Astray
      <3>1. d = 1
        BY <1>0, <1>1, <2>1, <2>4 DEF Debt
      <3>2. state' # "COLLECT"
        <4>1. state' = "COLLECT" => state = "COLLECT"
          BY <1>6, <1>8, <1>12, <1>b, <2>1, <2>4, <3>1
        <4>2. state = "COLLECT" => Len(packet) = FrameSize - 1
          BY <1>1, <1>7, <1>14, <2>4 DEF Astray
        <4> QED
          BY <1>7, <4>1, <4>2
      <3>3. e = 0
        BY <1>0, <2>1, <3>2 DEF Debt
      <3> QED
        BY <1>1, <1>5, <3>1, <3>3
    <2> QED
      BY <2>2, <2>3, <2>4
  <1> QED
    BY <1>1, <1>10, <1>11, <1>13, <1>14

(* Whatever becomes of a byte, no more than two frames are due after it.    *)
LEMMA ByteDue ==
    ASSUME Types, NextByte, pos > 0
    PROVE  lost <= lost' /\ lost' + Due' <= lost + 2
  <1>1. /\ FrameSize \in Nat /\ pos \in 1..FrameSize /\ lost \in Nat
        /\ LossCap \in Nat /\ lost <= LossCap
    BY FrameAssumption DEF Types, LineOK, LossCap
  <1>2. /\ pos' = (pos + 1) % (FrameSize + 1)
        /\ lost' = lost \/ (pos = FrameSize /\ lost' = Min({lost + 1, LossCap}))
    BY DEF NextByte
  <1>3. Min({lost + 1, LossCap}) \in lost..(lost + 1)
    <2>1. \E x \in {lost + 1, LossCap} : \A y \in {lost + 1, LossCap} : x <= y
      BY <1>1
    <2>2. /\ Min({lost + 1, LossCap}) \in {lost + 1, LossCap}
          /\ Min({lost + 1, LossCap}) <= lost + 1
      BY <1>1, <2>1 DEF Min
    <2> HIDE DEF Min
    <2> QED
      BY <1>1, <2>2
  <1> HIDE DEF Min
  <1>4. PICK d, l : d = Due' /\ l = lost'
    OBVIOUS
  <1>5. l \in lost..(lost + 1) /\ (l = lost \/ pos = FrameSize)
    BY <1>1, <1>2, <1>3, <1>4
  <1>6. d \in 0..2
    BY <1>4 DEF Due, Debt
  <1>7. pos = FrameSize => d \in 0..1
    <2> HAVE pos = FrameSize
    <2>1. pos' = 0
      BY <1>1, <1>2
    <2> QED
      BY <1>4, <2>1 DEF Due, Debt
  <1>8. l + d <= lost + 2 /\ lost <= l
    BY <1>1, <1>5, <1>6, <1>7
  <1> QED
    BY <1>4, <1>8

(* A frame that begins is counted if more is due for it. *)
LEMMA LoadDue ==
    ASSUME Types, NEW f \in Frames, Load(f)
    PROVE  /\ Debt' = Debt /\ UNCHANGED <<faults, lost>>
           /\ Due' - Due <= inner' - inner
  <1>1. pos = 0 /\ pos' = 1 /\ frame' = f /\ UNCHANGED <<faults, lost, state>>
    BY DEF Load, hardware
  <1>2. Debt = (IF state = "COLLECT" THEN 1 ELSE 0) /\ Debt' = Debt
    BY <1>1 DEF Debt
  <1>3. inner \in Nat
    BY FrameAssumption DEF Types, LineOK
  <1>4. Due = Debt
    BY <1>1 DEF Due
  <1>5. Due' = IF ~PlainFrame(f) /\ state = "COLLECT" THEN 2 ELSE Debt
    BY <1>1, <1>2 DEF Due
  <1>6. inner' = IF state = "COLLECT" /\ ~PlainFrame(f) THEN inner + 1 ELSE inner
    BY DEF Load
  <1> HIDE DEF Debt, Due
  <1>7. CASE state = "COLLECT" /\ ~PlainFrame(f)
    <2>1. Debt = 1 /\ Due' = 2 /\ inner' = inner + 1
      BY <1>2, <1>5, <1>6, <1>7
    <2> QED
      BY <1>1, <1>2, <1>3, <1>4, <2>1
  <1>8. CASE ~(state = "COLLECT" /\ ~PlainFrame(f))
    <2>1. Due' = Debt /\ inner' = inner /\ Debt \in {0, 1}
      BY <1>2, <1>5, <1>6, <1>8
    <2> QED
      BY <1>1, <1>2, <1>3, <1>4, <2>1
  <1> QED
    BY <1>7, <1>8

(* What is lost and due is paid for by faults and by counted frames. *)
LEMMA PaidNext ==
    ASSUME Types, Paid, [LineNext]_lineVars, Types'
    PROVE  Paid'
  <1>0. PICK d, e, x, y, l, m, k, h, i, j :
          /\ d = Debt /\ x = Due /\ l = lost /\ k = faults /\ i = inner
          /\ e = Debt' /\ y = Due' /\ m = lost' /\ h = faults' /\ j = inner'
    OBVIOUS
  <1>a. d \in 0..2 /\ e \in 0..2 /\ x \in 0..2 /\ y \in 0..2
    BY <1>0 DEF Due, Debt
  <1>b. l + x <= 2 * k + i /\ (k = 0 => l = 0 /\ d = 0)
    BY <1>0 DEF Paid
  <1> SUFFICES m + y <= 2 * h + j /\ (h = 0 => m = 0 /\ e = 0)
    BY <1>0 DEF Paid
  <1>1. l \in Nat /\ m \in Nat /\ k \in Nat /\ h \in Nat /\ i \in Nat /\ j \in Nat
    BY <1>0, FrameAssumption DEF Types, LineOK, LossCap
  <1>2. ASSUME m = l, h = k, e = d, y - x <= j - i
        PROVE  m + y <= 2 * h + j /\ (h = 0 => m = 0 /\ e = 0)
    BY <1>1, <1>2, <1>a, <1>b
  <1>3. ASSUME Fault, NextByte, pos > 0
        PROVE  m + y <= 2 * h + j /\ (h = 0 => m = 0 /\ e = 0)
    <2>1. m + y <= l + 2
      BY <1>0, <1>3, ByteDue
    <2>2. h = k + 1 /\ j = i
      BY <1>0, <1>3 DEF Fault, NextByte
    <2> QED
      BY <1>1, <1>a, <1>b, <2>1, <2>2
  <1>4. CASE \E f \in Frames : Load(f)
    <2>1. m = l /\ h = k /\ e = d /\ y - x <= j - i
      BY <1>0, <1>4, LoadDue
    <2> QED
      BY <1>2, <2>1
  <1>5. CASE SendByte
    <2>1. h = k /\ j = i /\ NextByte /\ pos > 0 /\ frame' = frame
      BY <1>0, <1>5 DEF SendByte, NextByte
    <2>2. m + y <= l + 2 /\ l <= m
      BY <1>0, <2>1, ByteDue
    <2>3. CASE PlainFrame(frame)
      <3>1. m + e <= l + d
        BY <1>0, <1>5, <2>3, SendByteDebt
      <3>2. x = d /\ y = e
        BY <1>0, <2>1, <2>3 DEF Due, PlainFrame
      <3> QED
        BY <1>1, <1>a, <1>b, <2>1, <2>2, <3>1, <3>2
    <2>4. CASE d = 0
      <3>1. m + e <= l + d
        BY <1>0, <1>5, <2>4, SendByteDebt
      <3>2. m = l /\ e = 0
        BY <1>1, <1>a, <2>2, <2>4, <3>1
      <3>3. y = 0
        BY <1>0, <3>2 DEF Due
      <3> QED
        BY <1>1, <1>a, <1>b, <2>1, <3>2, <3>3
    <2>5. CASE ~PlainFrame(frame) /\ d # 0
      <3>1. x = 2
        <4>1. d > 0
          BY <1>a, <2>5
        <4> QED
          BY <1>0, <2>1, <2>5, <4>1 DEF Due
      <3> QED
        BY <1>1, <1>a, <1>b, <2>1, <2>2, <2>5, <3>1
    <2> QED
      BY <2>3, <2>4, <2>5
  <1>6. CASE Take
    <2>1. /\ state = "HOLD" /\ state' = "WAIT_A5" /\ UNCHANGED <<frame, pos, faults, lost, inner>>
      BY <1>6 DEF Take, line
    <2>2. e = d
      BY <1>0, <2>1 DEF Debt, InStep, Astray
    <2>3. y = x
      BY <1>0, <2>1, <2>2 DEF Due, PlainFrame
    <2> QED
      BY <1>0, <1>1, <1>2, <1>a, <2>1, <2>2, <2>3
  <1>7. CASE UNCHANGED lineVars \/ ReadChunk \/ DropNoise \/ AwaitRest \/ CutFrame
    <2>1. UNCHANGED <<frame, pos, faults, lost, inner, state, packet>>
      BY <1>7 DEF lineVars, line, hardware, ReadChunk, DropNoise, AwaitRest, CutFrame
    <2>2. e = d
      BY <1>0, <2>1 DEF Debt, InStep, Astray
    <2>3. y = x
      BY <1>0, <2>1, <2>2 DEF Due, PlainFrame
    <2> QED
      BY <1>0, <1>1, <1>2, <1>a, <2>1, <2>2, <2>3
  <1>8. CASE \/ \E b \in Noise : DamageByte(b)
             \/ LoseByte
             \/ SendIntoHold
    BY <1>3, <1>8 DEF DamageByte, LoseByte, SendIntoHold, NextByte
  <1> QED
    BY <1>4, <1>5, <1>6, <1>7, <1>8 DEF LineNext

-----------------------------------------------------------------------------
(* Theorem: for frames of any length, any noise and any number of faults,  *)
(* the program cuts the same frames out of the stream as the hardware,     *)
(* until a byte reaches a receiver that still holds a frame.               *)
THEOREM FramesAgree ==
    LineSpec => [](LineTypeOK /\ SameFrames)
  <1>1. LineInit => Types /\ SameCuts
    BY CutsInit
  <1>2. Types /\ SameCuts /\ [LineNext]_lineVars => Types' /\ SameCuts'
    BY CutsNext
  <1>3. Types /\ SameCuts => LineTypeOK /\ SameFrames
    BY TypesMean, NothingOwed
  <1> QED
    BY <1>1, <1>2, <1>3, PTL DEF LineSpec

(* Theorem: and a fault costs no more than two frames, the one it falls    *)
(* into and the next, and one for each frame that begins while the         *)
(* receiver is astray and has A5 5A inside.                                *)
THEOREM FramingCorrect == LineSpec => []FramingInv
  <1>1. LineInit => Types /\ SameCuts /\ Paid
    <2> SUFFICES ASSUME LineInit PROVE Types /\ SameCuts /\ Paid
      OBVIOUS
    <2>1. lost = 0 /\ faults = 0 /\ inner = 0 /\ Debt = 0
      BY DEF LineInit, Debt
    <2>2. Due = 0
      BY <2>1 DEF Due
    <2> QED
      BY <2>1, <2>2, CutsInit DEF Paid
  <1>2. Types /\ SameCuts /\ Paid /\ [LineNext]_lineVars => Types' /\ SameCuts' /\ Paid'
    BY CutsNext, PaidNext
  <1>3. Types /\ SameCuts /\ Paid => FramingInv
    <2> SUFFICES ASSUME Types, SameCuts, Paid PROVE FramingInv
      OBVIOUS
    <2>1. lost \in Nat /\ faults \in Nat /\ inner \in Nat
      BY FrameAssumption DEF Types, LineOK, LossCap
    <2>2. Due \in 0..2
      BY DEF Due, Debt
    <2>3. LossBounded
      BY <2>1, <2>2 DEF LossBounded, Paid
    <2> QED
      BY <2>3, TypesMean, NothingOwed DEF FramingInv
  <1> QED
    BY <1>1, <1>2, <1>3, PTL DEF LineSpec
===============================================================================
