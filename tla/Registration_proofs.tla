------------------------- MODULE Registration_proofs -------------------------
(***************************************************************************)
(* For any number of registrations, cancels, pictures, crashes and failed  *)
(* reads: a cancelled registration is never saved and leaves no picture,   *)
(* and no registration leaves a timer or a capture chain to the next.  The *)
(* file of the users is proved about first, on its own; what was proved of *)
(* it holds of the page.                                                   *)
(***************************************************************************)
EXTENDS Registration, TLAPS

-----------------------------------------------------------------------------
(* UserRepository: for any users and racks, any number of saves, of failed *)
(* reads and writes and of crashes, a user is lost only by a save that     *)
(* could not read the file.                                                *)

(* The file on the disk is whole or absent and says what was saved. *)
DiskInv == file.state # "partial" /\ LoadAll(TRUE) = Kept

(* A save in progress that could read the file holds every user that is on  *)
(* it, and writes what it holds.                                           *)
SaveInv ==
    /\ step # "idle" /\ ~unread => \A u \in Users : users[u] = NoUser => Kept[u] = NoUser
    /\ step = "written" => tmp.state = "whole" /\ tmp.users = users

IInv == TypeOK /\ DiskInv /\ SaveInv

(* NoUser differs from everything a registration saves. *)
LEMMA NoUserIsNobody == ASSUME NEW i \in Information PROVE i # NoUser
  <1>1. i.known = TRUE
    BY DEF Information
  <1>2. NoUser.known = FALSE
    BY DEF NoUser
  <1> QED
    BY <1>1, <1>2

(* Every user, the unknown one too, may open some of the racks. *)
LEMMA RacksOfUser == ASSUME NEW i \in Information \union {NoUser} PROVE i.racks \in SUBSET Racks
  <1>1. CASE i \in Information
    BY <1>1 DEF Information
  <1>2. CASE i = NoUser
    <2>1. NoUser.racks = {}
      BY DEF NoUser
    <2> QED
      BY <1>2, <2>1
  <1> QED
    BY <1>1, <1>2

(* What is on the disk can be loaded. *)
LEMMA LoadedIsContents == TypeOK => \A r \in BOOLEAN : LoadAll(r) \in Contents
  BY DEF TypeOK, Files, LoadAll, Nobody, Contents

(* File(...) is a file, and its parts are what it was made of. *)
LEMMA FileIsFile ==
    ASSUME NEW s \in {"absent", "partial", "whole"}, NEW c \in Contents
    PROVE  File(s, c) \in Files /\ File(s, c).state = s /\ File(s, c).users = c
  BY DEF File, Files

(* The initial state. *)
LEMMA InitRepository == Init => IInv
  <1> SUFFICES ASSUME Init PROVE IInv
    OBVIOUS
  <1>1. Nobody \in Contents
    BY DEF Nobody, Contents
  <1>2. file \in Files /\ tmp \in Files /\ file.state = "absent"
    BY <1>1, FileIsFile DEF Init
  <1>3. TypeOK
    <2>1. unread \in BOOLEAN /\ forgotten \subseteq Users
      BY DEF Init
    <2>2. command \in Command /\ saves \in 0..MaxSaves /\ crashes \in 0..MaxCrashes
      BY BoundsAssumption DEF Init, Command
    <2> QED
      BY <1>1, <1>2, <2>1, <2>2 DEF Init, TypeOK
  <1>4. DiskInv
    BY <1>2 DEF Init, DiskInv, LoadAll, Kept, Nobody
  <1>5. SaveInv
    BY DEF Init, SaveInv
  <1> QED
    BY <1>3, <1>4, <1>5 DEF IInv

(* Every step keeps the types. *)
LEMMA TypeStep == TypeOK /\ [Next]_vars => TypeOK'
  <1> SUFFICES ASSUME TypeOK, [Next]_vars PROVE TypeOK'
    OBVIOUS
  <1> USE DEF TypeOK
  <1>1. Nobody \in Contents
    BY DEF Nobody, Contents
  <1>2. ASSUME NEW u \in Users, HandleFace(u) PROVE TypeOK'
    <2>1. PICK r \in BOOLEAN : command' = CommandFor(LoadAll(r)[u])
      BY <1>2 DEF HandleFace
    <2>2. LoadAll(r)[u] \in Information \union {NoUser}
      <3>1. LoadAll(r) \in Contents
        BY LoadedIsContents
      <3> QED
        BY <3>1 DEF Contents
    <2>3. LoadAll(r)[u].racks \in SUBSET Racks
      BY <2>2, RacksOfUser
    <2>4. command' \in Command
      <3> DEFINE got == LoadAll(r)[u]
      <3>1. got.racks \in SUBSET Racks
        BY <2>3
      <3>2. command' = CommandFor(got)
        BY <2>1
      <3> HIDE DEF got
      <3> QED
        BY <3>1, <3>2 DEF CommandFor, Command
    <2>5. UNCHANGED <<file, tmp, step, users, unread, saved, forgotten, saves, crashes>>
      BY <1>2 DEF HandleFace, history
    <2> QED
      BY <2>4, <2>5
  <1>3. ASSUME NEW u \in Users, NEW i \in Information, Load(u, i) PROVE TypeOK'
    <2>1. PICK r \in BOOLEAN : users' = [LoadAll(r) EXCEPT ![u] = i] /\ unread' = ~r
      BY <1>3 DEF Load
    <2>2. LoadAll(r) \in Contents
      BY LoadedIsContents
    <2>3. users' \in Contents
      BY <2>1, <2>2 DEF Contents
    <2>4. saves' \in 0..MaxSaves
      BY <1>3, BoundsAssumption DEF Load
    <2> QED
      BY <1>3, <2>1, <2>3, <2>4 DEF Load, history
  <1>4. CASE OpenTmp
    BY <1>1, <1>4, FileIsFile DEF OpenTmp, history
  <1>5. CASE FillTmp
    BY <1>5, FileIsFile DEF FillTmp, history
  <1>6. CASE Replace
    <2>1. saved' \in Contents /\ forgotten' \subseteq Users /\ unread' \in BOOLEAN
      BY <1>6 DEF Replace, Contents
    <2> QED
      BY <1>1, <1>6, <2>1, FileIsFile DEF Replace
  <1>7. CASE Crash
    <2>1. crashes' \in 0..MaxCrashes
      BY <1>7, BoundsAssumption DEF Crash
    <2>2. UNCHANGED <<file, tmp, saved, forgotten, command, saves>>
      BY <1>7 DEF Crash, history
    <2>3. step' = "idle" /\ users' = Nobody /\ unread' = FALSE
      BY <1>7 DEF Crash
    <2> QED
      BY <1>1, <2>1, <2>2, <2>3
  <1>8. CASE SaveFails
    BY <1>8 DEF SaveFails, history
  <1>9. CASE UNCHANGED vars
    BY <1>9 DEF vars
  <1> QED
    BY <1>2, <1>3, <1>4, <1>5, <1>6, <1>7, <1>8, <1>9 DEF Next

(* Every step keeps disk, save in progress and history together. *)
LEMMA DiskStep == IInv /\ [Next]_vars => DiskInv' /\ SaveInv'
  <1> SUFFICES ASSUME IInv, [Next]_vars PROVE DiskInv' /\ SaveInv'
    OBVIOUS
  <1> USE DEF IInv
  <1>1. ASSUME NEW u \in Users, HandleFace(u) PROVE DiskInv' /\ SaveInv'
    BY <1>1 DEF HandleFace, DiskInv, SaveInv, LoadAll, Kept, history
  <1>2. ASSUME NEW u \in Users, NEW i \in Information, Load(u, i) PROVE DiskInv' /\ SaveInv'
    <2>1. PICK r \in BOOLEAN : users' = [LoadAll(r) EXCEPT ![u] = i] /\ unread' = ~r
      BY <1>2 DEF Load
    <2>2. Kept' = Kept /\ LoadAll(TRUE)' = LoadAll(TRUE)
      BY <1>2 DEF Load, history, Kept, LoadAll
    <2>3. r => \A v \in Users : users'[v] = NoUser => Kept[v] = NoUser
      <3>1. LoadAll(TRUE) \in Contents
        BY LoadedIsContents
      <3> QED
        BY <2>1, <3>1, NoUserIsNobody DEF DiskInv, Contents
    <2> QED
      BY <1>2, <2>1, <2>2, <2>3 DEF Load, DiskInv, SaveInv
  <1>3. CASE OpenTmp
    BY <1>3 DEF OpenTmp, DiskInv, SaveInv, LoadAll, Kept, history
  <1>4. CASE FillTmp
    <2>1. tmp'.state = "whole" /\ tmp'.users = users
      BY <1>4, FileIsFile DEF FillTmp, TypeOK
    <2> QED
      BY <1>4, <2>1 DEF FillTmp, DiskInv, SaveInv, LoadAll, Kept, history
  <1>5. CASE Replace
    <2>1. file'.state = "whole" /\ file'.users = users
      BY <1>5 DEF Replace, SaveInv
    <2>2. ASSUME NEW v \in Users PROVE Kept'[v] = users[v]
      <3>1. Kept'[v] = IF v \in forgotten' THEN NoUser ELSE saved'[v]
        BY DEF Kept
      <3>2. saved'[v] = IF users[v] = NoUser THEN saved[v] ELSE users[v]
        BY <1>5 DEF Replace
      <3>3. v \in forgotten' <=> /\ users[v] = NoUser
                                 /\ IF unread THEN saved[v] # NoUser ELSE v \in forgotten
        BY <1>5 DEF Replace
      <3>4. ~unread /\ users[v] = NoUser => Kept[v] = NoUser
        BY <1>5 DEF Replace, SaveInv
      <3> QED
        BY <3>1, <3>2, <3>3, <3>4 DEF Kept
    <2>3. Kept' = users
      BY <2>2 DEF Kept, TypeOK, Contents
    <2>4. DiskInv'
      BY <2>1, <2>3 DEF DiskInv, LoadAll
    <2> QED
      BY <1>5, <2>4 DEF Replace, SaveInv
  <1>6. CASE Crash
    BY <1>6 DEF Crash, DiskInv, SaveInv, LoadAll, Kept, history
  <1>7. CASE SaveFails
    BY <1>7 DEF SaveFails, DiskInv, SaveInv, LoadAll, Kept, history
  <1>8. CASE UNCHANGED vars
    BY <1>8 DEF vars, DiskInv, SaveInv, LoadAll, Kept, history
  <1> QED
    BY <1>1, <1>2, <1>3, <1>4, <1>5, <1>6, <1>7, <1>8 DEF Next

(* Every variable keeps its type, even if the file cannot be read. *)
THEOREM TypeCorrect == Spec => []TypeOK
  <1>1. Init => TypeOK
    BY InitRepository DEF IInv
  <1> QED
    BY <1>1, TypeStep, PTL DEF Spec

(* No saved user is lost, but by a save that could not read the file. *)
THEOREM UsersPersist == Spec => []SavedUsersPersist
  <1>1. IInv /\ [Next]_vars => IInv'
    BY TypeStep, DiskStep DEF IInv
  <1>2. IInv => SavedUsersPersist
    BY DEF IInv, DiskInv, SavedUsersPersist
  <1> QED
    BY InitRepository, <1>1, <1>2, PTL DEF Spec

-----------------------------------------------------------------------------
(* Registration: the page that writes the file.                            *)


(* Who is under way: generations are counted, and one timer of each kind   *)
(* is remembered.                                                          *)
CounterInv ==
    /\ registered \in 0..MaxRegistrations /\ cancels \in 0..MaxCancels
    /\ generation <= registered + cancels
    /\ capture_after => capture_jobs > 0
    /\ success_jobs = IF success_after THEN 1 ELSE 0
    /\ active => success_jobs = 0

(* The current registration is the last one, and none that was cancelled. *)
CurrentInv ==
    /\ cancelled \subseteq 1..registered
    /\ active => user_id = registered /\ registered > 0 /\ user_id \notin cancelled

(* A thread or a result of this generation is of the current registration. *)
Current(id, gen) == gen <= generation /\ (gen = generation /\ active => id = user_id)
ThreadInv == \A id \in Users : thread[id] \in {"start", "open", "sent"} => Current(id, thread_gen[id])
ResultInv == \A i \in DOMAIN results : Current(results[i].id, results[i].gen)

(* What is saved are earlier registrations that were not cancelled ... *)
SavedInv ==
    /\ SavedUsers \subseteq 1..registered
    /\ active => user_id \notin SavedUsers
    /\ CancelledIsNotSaved

(* ... and a save in progress adds the current one. *)
WriteInv ==
    /\ step # "idle" => /\ active /\ results # <<>> /\ Head(results).gen = generation
                        /\ \A u \in Users : users[u] # NoUser => u \in SavedUsers \/ u = user_id
    /\ step = "written" => tmp.users = users

RegInv == RegistrationTypeOK /\ CounterInv /\ CurrentInv /\ ThreadInv /\ ResultInv /\ SavedInv /\ WriteInv

(* The first state. *)
LEMMA InitRegistration == RegInit => RegInv
  <1> SUFFICES ASSUME RegInit PROVE RegInv
    OBVIOUS
  <1> USE DEF RegInit, PageInit
  <1>1. TypeOK
    BY InitRepository DEF IInv
  <1>2. RegistrationTypeOK
    <2>1. 0 \in Generations /\ 0 \in 0..MaxRegistrations /\ 0 \in 0..Captures
      BY RegistrationAssumption, BoundsAssumption DEF Generations
    <2>2. thread \in [Users -> {"none", "start", "open", "sent", "done"}]
      OBVIOUS
    <2>3. thread_gen \in [Users -> Generations] /\ thread_images \in [Users -> 0..Captures]
      BY <2>1
    <2>4. answers \in [Users -> Answers \union {"none"}]
      OBVIOUS
    <2>5. results \in Seq(Result)
      OBVIOUS
    <2> QED
      BY <1>1, <2>1, <2>2, <2>3, <2>4, <2>5
      DEF RegistrationTypeOK, PageTypeOK, TimerTypeOK, SenderTypeOK, OutsideTypeOK
  <1>3. CounterInv /\ CurrentInv /\ ThreadInv /\ ResultInv
    BY RegistrationAssumption DEF CounterInv, CurrentInv, ThreadInv, ResultInv
  <1>4. SavedUsers = {}
    BY DEF Init, SavedUsers, LoadAll, Nobody, File
  <1>5. SavedInv /\ WriteInv
    BY <1>4 DEF SavedInv, WriteInv, CancelledIsNotSaved, Init
  <1> QED
    BY <1>2, <1>3, <1>5 DEF RegInv

(* The user of a result that is saved. *)
LEMMA ResultIsTyped ==
    ASSUME RegistrationTypeOK, results # <<>>
    PROVE  /\ Head(results).id \in Users /\ Head(results).gen \in Generations
           /\ Head(results).answer \in Answers \union {"error"}
           /\ Tail(results) \in Seq(Result)
           /\ Head(results) = results[1] /\ 1 \in DOMAIN results
           /\ \A i \in DOMAIN Tail(results) : i + 1 \in DOMAIN results /\ Tail(results)[i] = results[i + 1]
  <1>1. results \in Seq(Result)
    BY DEF RegistrationTypeOK, SenderTypeOK
  <1>2. Head(results) \in Result /\ Tail(results) \in Seq(Result) /\ Head(results) = results[1]
    BY <1>1
  <1>3. Head(results).id \in Users /\ Head(results).gen \in Generations
        /\ Head(results).answer \in Answers \union {"error"}
    BY <1>2 DEF Result
  <1>4. 1 \in DOMAIN results
    BY <1>1
  <1>5. \A i \in DOMAIN Tail(results) : i + 1 \in DOMAIN results /\ Tail(results)[i] = results[i + 1]
    BY <1>1
  <1> QED
    BY <1>2, <1>3, <1>4, <1>5

(* A step of the page is a step of the file, or leaves it alone. *)
LEMMA RegistrationIsRepository == RegistrationTypeOK /\ [RegNext]_regVars => [Next]_vars
  <1> SUFFICES ASSUME RegistrationTypeOK, [RegNext]_regVars PROVE [Next]_vars
    OBVIOUS
  <1>1. CASE UiStep(Jobs) \/ UiStep(Operator) \/ SendStep \/ Outside \/ UNCHANGED regVars
    BY <1>1 DEF UiStep, SendStep, Outside, regVars
  <1>2. ASSUME NEW i \in Information, BeginSave(i) PROVE Next
    <2>1. Head(results).id \in Users
      BY <1>2, ResultIsTyped DEF BeginSave
    <2> QED
      BY <1>2, <2>1 DEF BeginSave, Next
  <1>3. CASE WriteTmp \/ EndSave \/ SaveRaises \/ FaceStep \/ KillProgram
    BY <1>3 DEF WriteTmp, EndSave, SaveRaises, FaceStep, KillProgram, Next
  <1> QED
    BY <1>1, <1>2, <1>3 DEF RegNext, SaveStep

(* Every step keeps the types. *)
LEMMA RegistrationTypeStep == RegInv /\ [RegNext]_regVars => RegistrationTypeOK'
  <1> SUFFICES ASSUME RegInv, [RegNext]_regVars PROVE RegistrationTypeOK'
    OBVIOUS
  <1> USE DEF RegInv
  <1>0. TypeOK'
    BY RegistrationIsRepository, TypeStep DEF RegistrationTypeOK
  <1> USE <1>0, RegistrationAssumption DEF RegistrationTypeOK
  <1>a. active => user_id \in Users
    BY DEF CurrentInv, CounterInv
  <1>1. CASE UiStep(CaptureStep)
    <2>1. PageTypeOK'
      <3>1. capture_count' \in 0..Captures /\ capture_jobs' \in Nat
        BY <1>1 DEF UiStep, CaptureStep, ScheduleCapture, PageTypeOK
      <3>2. capture_after' \in BOOLEAN
        BY <1>1 DEF UiStep, CaptureStep, ScheduleCapture
      <3> QED
        BY <1>1, <3>1, <3>2 DEF UiStep, CaptureStep, PageTypeOK
    <2>2. TimerTypeOK'
      BY <1>1 DEF UiStep, CaptureStep, TimerTypeOK, success, picture
    <2>3. SenderTypeOK'
      <3>1. thread' \in [Users -> {"none", "start", "open", "sent", "done"}]
        BY <1>1 DEF UiStep, CaptureStep, SenderTypeOK
      <3>2. thread_gen' \in [Users -> Generations] /\ thread_images' \in [Users -> 0..Captures]
        <4>1. /\ thread_gen \in [Users -> Generations] /\ thread_images \in [Users -> 0..Captures]
              /\ generation \in Generations /\ capture_count \in 0..Captures
          BY DEF SenderTypeOK, PageTypeOK
        <4>2. \/ UNCHANGED <<thread_gen, thread_images>>
              \/ /\ thread_gen' = [thread_gen EXCEPT ![user_id] = generation]
                 /\ thread_images' = [thread_images EXCEPT ![user_id] = capture_count]
          BY <1>1 DEF UiStep, CaptureStep
        <4> QED
          BY <4>1, <4>2
      <3> QED
        BY <1>1, <3>1, <3>2 DEF UiStep, CaptureStep, SenderTypeOK
    <2>4. OutsideTypeOK'
      BY <1>1, <1>a DEF UiStep, CaptureStep, OutsideTypeOK, server
    <2> QED
      BY <2>1, <2>2, <2>3, <2>4
  <1>2. CASE UiStep(DropResult)
    <2>1. PageTypeOK'
      BY <1>2 DEF UiStep, DropResult, PageTypeOK, Stale
    <2>2. TimerTypeOK'
      BY <1>2 DEF UiStep, DropResult, TimerTypeOK, success, picture
    <2>3. SenderTypeOK'
      BY <1>2, ResultIsTyped DEF UiStep, DropResult, SenderTypeOK
    <2>4. OutsideTypeOK'
      BY <1>2 DEF UiStep, DropResult, OutsideTypeOK, server
    <2> QED
      BY <2>1, <2>2, <2>3, <2>4
  <1>3. CASE UiStep(FinishSuccess)
    <2>1. PageTypeOK'
      BY <1>3 DEF UiStep, FinishSuccess, PageTypeOK, page
    <2>2. TimerTypeOK'
      <3>1. success_jobs' \in Nat
        BY <1>3 DEF UiStep, FinishSuccess, TimerTypeOK
      <3> QED
        BY <1>3, <3>1 DEF UiStep, FinishSuccess, TimerTypeOK, picture
    <2>3. SenderTypeOK'
      BY <1>3 DEF UiStep, FinishSuccess, SenderTypeOK, sender
    <2>4. OutsideTypeOK'
      BY <1>3 DEF UiStep, FinishSuccess, OutsideTypeOK, server
    <2> QED
      BY <2>1, <2>2, <2>3, <2>4
  <1>4. CASE UiStep(ContourTick) \/ UiStep(OnShow)
    <2>1. PageTypeOK'
      BY <1>4 DEF UiStep, ContourTick, OnShow, PageTypeOK, page
    <2>2. TimerTypeOK'
      BY <1>4 DEF UiStep, ContourTick, OnShow, TimerTypeOK, success, picture
    <2>3. SenderTypeOK'
      BY <1>4 DEF UiStep, ContourTick, OnShow, SenderTypeOK, sender
    <2>4. OutsideTypeOK'
      BY <1>4 DEF UiStep, ContourTick, OnShow, OutsideTypeOK, server
    <2> QED
      BY <2>1, <2>2, <2>3, <2>4
  <1>5. CASE UiStep(Register)
    <2>1. PageTypeOK'
      BY <1>5 DEF UiStep, Register, ScheduleCapture, PageTypeOK, Generations, CounterInv
    <2>2. TimerTypeOK'
      <3>1. success_jobs' \in Nat
        BY <1>5 DEF UiStep, Register, Drop, TimerTypeOK, CounterInv
      <3> QED
        BY <1>5, <3>1 DEF UiStep, Register, TimerTypeOK
    <2>3. SenderTypeOK'
      BY <1>5 DEF UiStep, Register, SenderTypeOK, sender
    <2>4. OutsideTypeOK'
      BY <1>5 DEF UiStep, Register, OutsideTypeOK, server
    <2> QED
      BY <2>1, <2>2, <2>3, <2>4
  <1>6. CASE UiStep(RegisterNameless)
    <2>1. PageTypeOK'
      BY <1>6 DEF UiStep, RegisterNameless, PageTypeOK, page
    <2>2. TimerTypeOK'
      <3>1. success_jobs' \in Nat
        BY <1>6 DEF UiStep, RegisterNameless, Drop, TimerTypeOK, CounterInv
      <3> QED
        BY <1>6, <3>1 DEF UiStep, RegisterNameless, TimerTypeOK
    <2>3. SenderTypeOK'
      BY <1>6 DEF UiStep, RegisterNameless, SenderTypeOK, sender
    <2>4. OutsideTypeOK'
      BY <1>6 DEF UiStep, RegisterNameless, OutsideTypeOK, server
    <2> QED
      BY <2>1, <2>2, <2>3, <2>4
  <1>7. CASE UiStep(CancelRegistration)
    <2>1. PageTypeOK'
      <3>1. generation' \in Generations
        BY <1>7 DEF UiStep, CancelRegistration, PageTypeOK, Generations, CounterInv
      <3>2. capture_jobs' \in Nat
        BY <1>7 DEF UiStep, CancelRegistration, Drop, PageTypeOK, CounterInv
      <3>3. 0 \in 0..MaxRegistrations /\ 0 \in 0..Captures
        OBVIOUS
      <3> QED
        BY <1>7, <3>1, <3>2, <3>3 DEF UiStep, CancelRegistration, PageTypeOK
    <2>2. TimerTypeOK'
      BY <1>7 DEF UiStep, CancelRegistration, TimerTypeOK, success, picture
    <2>3. SenderTypeOK'
      BY <1>7 DEF UiStep, CancelRegistration, SenderTypeOK, sender
    <2>4. OutsideTypeOK'
      BY <1>7, <1>a DEF UiStep, CancelRegistration, OutsideTypeOK, server
    <2> QED
      BY <2>1, <2>2, <2>3, <2>4
  <1>8. CASE SendStep
    <2>1. PICK id \in Users : OpenSocket(id) \/ SendPictures(id) \/ ReceiveAnswer(id) \/ SendFails(id)
      BY <1>8 DEF SendStep
    <2> USE DEF OpenSocket, SendPictures, ReceiveAnswer, SendFails, ThreadStep
    <2>2. PageTypeOK' /\ TimerTypeOK'
      BY <2>1 DEF PageTypeOK, TimerTypeOK, page, success, picture
    <2>3. OutsideTypeOK'
      BY <2>1 DEF OutsideTypeOK
    <2>4. thread' \in [Users -> {"none", "start", "open", "sent", "done"}]
      BY <2>1 DEF SenderTypeOK
    <2>5. CASE OpenSocket(id) \/ SendPictures(id)
      <3>1. socket' \in 0..MaxRegistrations
        BY <2>5 DEF SenderTypeOK
      <3> QED
        BY <2>2, <2>3, <2>4, <2>5, <3>1 DEF SenderTypeOK
    <2>6. CASE ReceiveAnswer(id) \/ SendFails(id)
      <3>1. PICK answer \in Answers \union {"error"} : Deliver(id, answer)
        BY <2>6 DEF OutsideTypeOK
      <3>2. [id |-> id, gen |-> thread_gen[id], answer |-> answer] \in Result
        BY DEF Result, SenderTypeOK
      <3>3. results' \in Seq(Result) /\ socket' \in 0..MaxRegistrations
        BY <3>1, <3>2 DEF Deliver, SenderTypeOK
      <3> QED
        BY <2>2, <2>3, <2>4, <2>6, <3>3 DEF SenderTypeOK
    <2> QED
      BY <2>1, <2>5, <2>6
  <1>9. CASE Outside
    <2> USE DEF Outside, CameraFrame, ServerAnswers
    <2>1. PageTypeOK' /\ TimerTypeOK' /\ SenderTypeOK'
      BY <1>9 DEF PageTypeOK, TimerTypeOK, SenderTypeOK, page, success, picture, sender
    <2>2. OutsideTypeOK'
      <3>1. CASE CameraFrame
        BY <3>1 DEF OutsideTypeOK, server
      <3>2. ASSUME NEW id \in Users, NEW a \in Answers, ServerAnswers(id, a)
            PROVE  OutsideTypeOK'
        BY <3>2 DEF OutsideTypeOK
      <3> QED
        BY <1>9, <3>1, <3>2
    <2> QED
      BY <2>1, <2>2
  <1>10. CASE (\E i \in Information : BeginSave(i)) \/ WriteTmp \/ FaceStep
    <2>1. PageTypeOK'
      BY <1>10 DEF BeginSave, WriteTmp, FaceStep, PageTypeOK, page
    <2>2. TimerTypeOK'
      BY <1>10 DEF BeginSave, WriteTmp, FaceStep, TimerTypeOK, success, picture
    <2>3. SenderTypeOK'
      BY <1>10 DEF BeginSave, WriteTmp, FaceStep, SenderTypeOK, sender
    <2>4. OutsideTypeOK'
      BY <1>10 DEF BeginSave, WriteTmp, FaceStep, OutsideTypeOK, server
    <2> QED
      BY <2>1, <2>2, <2>3, <2>4
  <1>11. CASE EndSave
    <2>1. PageTypeOK'
      BY <1>11 DEF EndSave, ResultDone, PageTypeOK, page
    <2>2. TimerTypeOK'
      <3>1. success_jobs' \in Nat
        BY <1>11 DEF EndSave, TimerTypeOK
      <3> QED
        BY <1>11, <3>1 DEF EndSave, TimerTypeOK, picture
    <2>3. SenderTypeOK'
      <3>1. results # <<>>
        BY <1>11 DEF EndSave, Replace, WriteInv
      <3> QED
        BY <1>11, <3>1, ResultIsTyped DEF EndSave, ResultDone, SenderTypeOK
    <2>4. OutsideTypeOK'
      BY <1>11 DEF EndSave, ResultDone, OutsideTypeOK, server
    <2> QED
      BY <2>1, <2>2, <2>3, <2>4
  <1>12. CASE SaveRaises
    <2>1. PageTypeOK'
      BY <1>12 DEF SaveRaises, ResultDone, PageTypeOK, page
    <2>2. TimerTypeOK'
      BY <1>12 DEF SaveRaises, ResultDone, TimerTypeOK, success, picture
    <2>3. SenderTypeOK'
      <3>1. results # <<>>
        BY <1>12 DEF SaveRaises, SaveFails, WriteInv
      <3> QED
        BY <1>12, <3>1, ResultIsTyped DEF SaveRaises, ResultDone, SenderTypeOK
    <2>4. OutsideTypeOK'
      BY <1>12 DEF SaveRaises, ResultDone, OutsideTypeOK, server
    <2> QED
      BY <2>1, <2>2, <2>3, <2>4
  <1>13. CASE KillProgram
    <2>1. PageTypeOK'
      <3>1. 0 \in Generations /\ 0 \in 0..MaxRegistrations /\ 0 \in 0..Captures
        BY DEF Generations
      <3> QED
        BY <1>13, <3>1 DEF KillProgram, PageTypeOK
    <2>2. TimerTypeOK'
      BY <1>13 DEF KillProgram, TimerTypeOK, success, picture
    <2>3. SenderTypeOK'
      <3>1. 0 \in Generations /\ 0 \in 0..MaxRegistrations /\ 0 \in 0..Captures
        BY DEF Generations
      <3>2. thread' \in [Users -> {"none", "start", "open", "sent", "done"}]
        BY <1>13 DEF KillProgram
      <3>3. thread_gen' \in [Users -> Generations] /\ thread_images' \in [Users -> 0..Captures]
        BY <1>13, <3>1 DEF KillProgram
      <3>4. results' \in Seq(Result)
        BY <1>13 DEF KillProgram
      <3> QED
        BY <1>13, <3>1, <3>2, <3>3, <3>4 DEF KillProgram, SenderTypeOK
    <2>4. OutsideTypeOK'
      BY <1>13 DEF KillProgram, OutsideTypeOK, server
    <2> QED
      BY <2>1, <2>2, <2>3, <2>4
  <1>14. CASE UNCHANGED regVars
    <2>1. PageTypeOK'
      BY <1>14 DEF regVars, PageTypeOK, page
    <2>2. TimerTypeOK'
      BY <1>14 DEF regVars, TimerTypeOK, success, picture
    <2>3. SenderTypeOK'
      BY <1>14 DEF regVars, SenderTypeOK, sender
    <2>4. OutsideTypeOK'
      BY <1>14 DEF regVars, OutsideTypeOK, server
    <2> QED
      BY <2>1, <2>2, <2>3, <2>4
  <1> QED
    BY <1>1, <1>2, <1>3, <1>4, <1>5, <1>6, <1>7, <1>8, <1>9, <1>10, <1>11, <1>12, <1>13, <1>14
    DEF RegNext, UiStep, Jobs, Operator, SaveStep

(* The steps of the page, and what the others leave alone. *)
LEMMA StepsOfPage ==
    ASSUME [RegNext]_regVars
    PROVE  \/ UiStep(CaptureStep) \/ UiStep(DropResult) \/ UiStep(FinishSuccess)
           \/ UiStep(Register) \/ UiStep(RegisterNameless) \/ UiStep(CancelRegistration)
           \/ SendStep \/ (\E i \in Information : BeginSave(i)) \/ WriteTmp \/ EndSave \/ SaveRaises
           \/ KillProgram
           \/ UNCHANGED <<page, success, thread, thread_gen, results, file, tmp, step, users,
                          registered, cancels, cancelled>>
  <1>1. CASE UiStep(ContourTick) \/ UiStep(OnShow)
    BY <1>1 DEF UiStep, ContourTick, OnShow, vars, sender, bounds
  <1>2. CASE Outside
    BY <1>2 DEF Outside, CameraFrame, ServerAnswers, vars, sender, bounds
  <1>3. CASE FaceStep
    BY <1>3 DEF FaceStep, HandleFace, sender, bounds
  <1>4. CASE UNCHANGED regVars
    BY <1>4 DEF regVars, vars, sender, bounds
  <1> QED
    BY <1>1, <1>2, <1>3, <1>4 DEF RegNext, UiStep, Jobs, Operator, SaveStep

(* Generations and timers. *)
LEMMA CounterStep == RegInv /\ [RegNext]_regVars => CounterInv'
  <1> SUFFICES ASSUME RegInv, [RegNext]_regVars PROVE CounterInv'
    OBVIOUS
  <1> USE RegistrationAssumption DEF RegInv, RegistrationTypeOK, PageTypeOK, TimerTypeOK, CounterInv,
          UiStep, page, success, bounds
  <1>1. CASE UiStep(CaptureStep)
    BY <1>1 DEF CaptureStep, ScheduleCapture
  <1>2. CASE UiStep(DropResult) \/ UiStep(FinishSuccess)
    BY <1>2 DEF DropResult, FinishSuccess
  <1>3. CASE UiStep(Register)
    BY <1>3 DEF Register, ScheduleCapture, Drop, Generations
  <1>4. CASE UiStep(RegisterNameless)
    BY <1>4 DEF RegisterNameless, Drop
  <1>5. CASE UiStep(CancelRegistration)
    BY <1>5 DEF CancelRegistration, Drop, Generations
  <1>6. CASE SendStep
    BY <1>6 DEF SendStep, OpenSocket, SendPictures, ReceiveAnswer, SendFails, ThreadStep
  <1>7. CASE (\E i \in Information : BeginSave(i)) \/ WriteTmp
    BY <1>7 DEF BeginSave, WriteTmp
  <1>8. CASE EndSave \/ SaveRaises
    BY <1>8 DEF EndSave, SaveRaises, ResultDone, Replace, SaveFails, WriteInv
  <1>9. CASE KillProgram
    BY <1>9 DEF KillProgram
  <1>10. CASE UNCHANGED <<page, success, registered, cancels>>
    BY <1>10
  <1> QED
    BY <1>1, <1>2, <1>3, <1>4, <1>5, <1>6, <1>7, <1>8, <1>9, <1>10, StepsOfPage

(* The current registration: most steps can only end it. *)
LEMMA CurrentStep == RegInv /\ [RegNext]_regVars => CurrentInv'
  <1> SUFFICES ASSUME RegInv, [RegNext]_regVars PROVE CurrentInv'
    OBVIOUS
  <1> USE DEF RegInv, CurrentInv
  <1>1. ASSUME active' => active, UNCHANGED <<user_id, registered, cancelled>> PROVE CurrentInv'
    BY <1>1
  <1> USE DEF UiStep, page, bounds
  <1>2. CASE UiStep(CaptureStep) \/ UiStep(DropResult) \/ UiStep(RegisterNameless)
    BY <1>1, <1>2 DEF CaptureStep, DropResult, RegisterNameless
  <1>3. CASE UiStep(FinishSuccess)
    <2>1. ~active
      BY <1>3 DEF FinishSuccess, CounterInv
    <2> QED
      BY <1>3, <2>1 DEF FinishSuccess
  <1>4. CASE UiStep(Register)
    BY <1>4 DEF Register, CounterInv
  <1>5. CASE UiStep(CancelRegistration)
    <2>1. active => user_id \in 1..registered
      BY DEF CounterInv
    <2>2. ~active' /\ registered' = registered
      BY <1>5 DEF CancelRegistration
    <2>3. cancelled' \subseteq 1..registered
      BY <1>5, <2>1 DEF CancelRegistration
    <2> QED
      BY <2>2, <2>3
  <1>6. CASE SendStep
    BY <1>1, <1>6 DEF SendStep, OpenSocket, SendPictures, ReceiveAnswer, SendFails, ThreadStep
  <1>7. CASE (\E i \in Information : BeginSave(i)) \/ WriteTmp
    BY <1>1, <1>7 DEF BeginSave, WriteTmp
  <1>8. CASE EndSave \/ SaveRaises
    BY <1>1, <1>8 DEF EndSave, SaveRaises, ResultDone
  <1>9. CASE KillProgram
    BY <1>9 DEF KillProgram
  <1>10. CASE UNCHANGED <<page, registered, cancelled>>
    BY <1>1, <1>10
  <1> QED
    BY <1>2, <1>3, <1>4, <1>5, <1>6, <1>7, <1>8, <1>9, <1>10, StepsOfPage

(* A thread is of the generation it began in. *)
LEMMA ThreadStaysCurrent == RegInv /\ [RegNext]_regVars => ThreadInv'
  <1> SUFFICES ASSUME RegInv, [RegNext]_regVars PROVE ThreadInv'
    OBVIOUS
  <1> USE DEF RegInv, ThreadInv, Current
  <1>1. ASSUME active' => active, UNCHANGED <<generation, user_id, thread_gen>>,
               \A id \in Users : thread'[id] \in {"start", "open", "sent"} => thread[id] \in {"start", "open", "sent"}
        PROVE  ThreadInv'
    BY <1>1
  <1> USE DEF UiStep, page, sender
  <1>2. CASE UiStep(CaptureStep)
    <2>1. CASE UNCHANGED <<thread, thread_gen>>
      BY <1>1, <1>2, <2>1 DEF CaptureStep
    <2>2. CASE ~UNCHANGED <<thread, thread_gen>>
      <3>1. /\ thread' = [thread EXCEPT ![user_id] = "start"]
            /\ thread_gen' = [thread_gen EXCEPT ![user_id] = generation]
            /\ UNCHANGED <<active, generation, user_id>>
        BY <1>2, <2>2 DEF CaptureStep
      <3>2. thread_gen \in [Users -> Generations] /\ DOMAIN thread = Users /\ generation \in Nat
        BY DEF RegistrationTypeOK, SenderTypeOK, PageTypeOK, Generations
      <3> QED
        BY <3>1, <3>2
    <2> QED
      BY <2>1, <2>2
  <1>3. CASE UiStep(DropResult) \/ UiStep(RegisterNameless)
    BY <1>1, <1>3 DEF DropResult, RegisterNameless
  <1>4. CASE UiStep(FinishSuccess)
    <2>1. ~active
      BY <1>4 DEF FinishSuccess, CounterInv
    <2> QED
      BY <1>4, <2>1 DEF FinishSuccess
  <1>5. CASE UiStep(Register) \/ UiStep(CancelRegistration)
    <2>1. generation \in Nat /\ thread_gen \in [Users -> Nat]
      BY DEF RegistrationTypeOK, SenderTypeOK, PageTypeOK, Generations
    <2>2. generation' = generation + 1 /\ UNCHANGED <<thread, thread_gen>>
      BY <1>5 DEF Register, CancelRegistration
    <2>3. \A id \in Users : thread_gen[id] <= generation => thread_gen[id] <= generation + 1 /\ thread_gen[id] # generation + 1
      BY <2>1
    <2> QED
      BY <2>2, <2>3
  <1>6. CASE SendStep
    <2>1. PICK id \in Users : OpenSocket(id) \/ SendPictures(id) \/ ReceiveAnswer(id) \/ SendFails(id)
      BY <1>6 DEF SendStep
    <2>2. PICK from \in {"start", "open", "sent"}, to \in {"open", "sent", "done"} : ThreadStep(id, from, to)
      BY <2>1 DEF OpenSocket, SendPictures, ReceiveAnswer, SendFails
    <2>3. DOMAIN thread = Users
      BY DEF RegistrationTypeOK, SenderTypeOK
    <2> QED
      BY <1>1, <2>2, <2>3 DEF ThreadStep
  <1>7. CASE (\E i \in Information : BeginSave(i)) \/ WriteTmp
    BY <1>1, <1>7 DEF BeginSave, WriteTmp
  <1>8. CASE EndSave \/ SaveRaises
    BY <1>1, <1>8 DEF EndSave, SaveRaises, ResultDone
  <1>9. CASE KillProgram
    BY <1>9 DEF KillProgram
  <1>10. CASE UNCHANGED <<page, thread, thread_gen>>
    BY <1>1, <1>10
  <1> QED
    BY <1>2, <1>3, <1>4, <1>5, <1>6, <1>7, <1>8, <1>9, <1>10, StepsOfPage

(* So is a result. *)
LEMMA ResultStaysCurrent == RegInv /\ [RegNext]_regVars => ResultInv'
  <1> SUFFICES ASSUME RegInv, [RegNext]_regVars PROVE ResultInv'
    OBVIOUS
  <1> USE DEF RegInv, ResultInv, Current
  <1>1. ASSUME active' => active, UNCHANGED <<generation, user_id, results>> PROVE ResultInv'
    BY <1>1
  <1>2. ASSUME active' => active, UNCHANGED <<generation, user_id>>, results # <<>>, results' = Tail(results)
        PROVE  ResultInv'
    BY <1>2, ResultIsTyped
  <1> USE DEF UiStep, page, sender
  <1>3. CASE UiStep(CaptureStep) \/ UiStep(RegisterNameless)
    BY <1>1, <1>3 DEF CaptureStep, RegisterNameless
  <1>4. CASE UiStep(DropResult)
    BY <1>2, <1>4 DEF DropResult
  <1>5. CASE UiStep(FinishSuccess)
    <2>1. ~active
      BY <1>5 DEF FinishSuccess, CounterInv
    <2> QED
      BY <1>5, <2>1 DEF FinishSuccess
  <1>6. CASE UiStep(Register) \/ UiStep(CancelRegistration)
    <2>1. generation \in Nat /\ \A i \in DOMAIN results : results[i].gen \in Nat
      <3>1. generation \in Nat /\ results \in Seq(Result)
        BY DEF RegistrationTypeOK, SenderTypeOK, PageTypeOK, Generations
      <3>2. \A i \in DOMAIN results : results[i] \in Result
        BY <3>1
      <3> QED
        BY <3>1, <3>2 DEF Result, Generations
    <2>2. generation' = generation + 1 /\ UNCHANGED results
      BY <1>6 DEF Register, CancelRegistration
    <2>3. \A i \in DOMAIN results :
             results[i].gen <= generation => results[i].gen <= generation + 1 /\ results[i].gen # generation + 1
      BY <2>1
    <2> QED
      BY <2>2, <2>3
  <1>7. CASE SendStep
    <2>1. PICK id \in Users : OpenSocket(id) \/ SendPictures(id) \/ ReceiveAnswer(id) \/ SendFails(id)
      BY <1>7 DEF SendStep
    <2>2. CASE OpenSocket(id) \/ SendPictures(id)
      BY <1>1, <2>2 DEF OpenSocket, SendPictures, ThreadStep
    <2>3. CASE ReceiveAnswer(id) \/ SendFails(id)
      <3>1. PICK answer : Deliver(id, answer)
        BY <2>3 DEF ReceiveAnswer, SendFails
      <3>2. thread[id] \in {"open", "sent"} /\ UNCHANGED <<active, generation, user_id>>
        BY <2>3 DEF ReceiveAnswer, SendFails, ThreadStep
      <3>3. Current(id, thread_gen[id])
        BY <3>2 DEF ThreadInv
      <3>4. results \in Seq(Result)
        BY DEF RegistrationTypeOK, SenderTypeOK
      <3> DEFINE r == [id |-> id, gen |-> thread_gen[id], answer |-> answer]
      <3>5. \A i \in DOMAIN results' : (i \in DOMAIN results /\ results'[i] = results[i]) \/ results'[i] = r
        BY <3>1, <3>4 DEF Deliver
      <3>6. r.id = id /\ r.gen = thread_gen[id]
        OBVIOUS
      <3> HIDE DEF r
      <3> QED
        BY <3>2, <3>3, <3>5, <3>6
    <2> QED
      BY <2>1, <2>2, <2>3
  <1>8. CASE (\E i \in Information : BeginSave(i)) \/ WriteTmp
    BY <1>1, <1>8 DEF BeginSave, WriteTmp
  <1>9. CASE EndSave \/ SaveRaises
    <2>1. results # <<>>
      BY <1>9 DEF EndSave, SaveRaises, Replace, SaveFails, WriteInv
    <2> QED
      BY <1>2, <1>9, <2>1 DEF EndSave, SaveRaises, ResultDone
  <1>10. CASE KillProgram
    BY <1>10 DEF KillProgram
  <1>11. CASE UNCHANGED <<page, results>>
    BY <1>1, <1>11
  <1> QED
    BY <1>3, <1>4, <1>5, <1>6, <1>7, <1>8, <1>9, <1>10, <1>11, StepsOfPage

(* What a reading of the file finds are saved users, or nobody. *)
LEMMA LoadedAreSaved ==
    ASSUME NEW r \in BOOLEAN, NEW u \in Users, LoadAll(r)[u] # NoUser
    PROVE  u \in SavedUsers
  BY DEF LoadAll, SavedUsers, Nobody

(* What is on the disk, and the save that is going on. *)
LEMMA SaveStaysCurrent == RegInv /\ [RegNext]_regVars => SavedInv' /\ WriteInv'
  <1> SUFFICES ASSUME RegInv, [RegNext]_regVars PROVE SavedInv' /\ WriteInv'
    OBVIOUS
  <1> USE DEF RegInv
  <1>1. ASSUME UNCHANGED file PROVE UNCHANGED SavedUsers
    BY <1>1 DEF SavedUsers, LoadAll
  <1>2. ASSUME active' => active, UNCHANGED <<file, user_id, registered, cancelled>> PROVE SavedInv'
    BY <1>1, <1>2 DEF SavedInv, CancelledIsNotSaved
  <1>3. ASSUME step = "idle", UNCHANGED step PROVE WriteInv'
    BY <1>3 DEF WriteInv
  <1> USE DEF UiStep, page, vars, sender, bounds
  <1>4. CASE UiStep(CaptureStep) \/ UiStep(DropResult) \/ UiStep(RegisterNameless)
    BY <1>2, <1>3, <1>4 DEF CaptureStep, DropResult, RegisterNameless
  <1>5. CASE UiStep(FinishSuccess)
    <2>1. ~active
      BY <1>5 DEF FinishSuccess, CounterInv
    <2> QED
      BY <1>1, <1>3, <1>5, <2>1 DEF FinishSuccess, SavedInv, CancelledIsNotSaved
  <1>6. CASE UiStep(Register)
    <2>1. SavedUsers' = SavedUsers /\ cancelled' = cancelled /\ registered' = registered + 1 /\ user_id' = registered + 1
      BY <1>1, <1>6 DEF Register
    <2>2. registered + 1 \notin 1..registered /\ 1..registered \subseteq 1..(registered + 1)
      BY DEF CounterInv
    <2> QED
      BY <1>3, <1>6, <2>1, <2>2 DEF SavedInv, CancelledIsNotSaved
  <1>7. CASE UiStep(CancelRegistration)
    <2>1. SavedUsers' = SavedUsers /\ registered' = registered /\ ~active'
      BY <1>1, <1>7 DEF CancelRegistration
    <2>2. cancelled' = IF active THEN cancelled \union {user_id} ELSE cancelled
      BY <1>7 DEF CancelRegistration
    <2> QED
      BY <1>3, <1>7, <2>1, <2>2 DEF SavedInv, CancelledIsNotSaved
  <1>8. CASE SendStep
    <2>1. UNCHANGED <<active, generation, user_id, file, tmp, step, users, registered, cancelled>>
      BY <1>8 DEF SendStep, OpenSocket, SendPictures, ReceiveAnswer, SendFails, ThreadStep
    <2>2. results # <<>> => results' # <<>> /\ Head(results').gen = Head(results).gen
      <3>1. results \in Seq(Result)
        BY DEF RegistrationTypeOK, SenderTypeOK
      <3>2. results' = results \/ \E r : results' = Append(results, r)
        BY <1>8 DEF SendStep, OpenSocket, SendPictures, ReceiveAnswer, SendFails, Deliver, ThreadStep
      <3> QED
        BY <3>1, <3>2
    <2> QED
      BY <1>1, <1>2, <2>1, <2>2 DEF WriteInv
  <1>9. ASSUME NEW i \in Information, BeginSave(i) PROVE SavedInv' /\ WriteInv'
    <2>1. active /\ Head(results).gen = generation /\ results # <<>>
      BY <1>9 DEF BeginSave, Enrols, Stale
    <2>2. Head(results).id = user_id
      BY <2>1, ResultIsTyped DEF ResultInv, Current
    <2>3. PICK r \in BOOLEAN : users' = [LoadAll(r) EXCEPT ![user_id] = i]
      BY <1>9, <2>2 DEF BeginSave, Load
    <2>4. \A u \in Users : users'[u] # NoUser => u \in SavedUsers \/ u = user_id
      <3>1. LoadAll(r) \in Contents
        BY LoadedIsContents DEF RegistrationTypeOK
      <3>2. \A u \in Users : u # user_id => users'[u] = LoadAll(r)[u]
        BY <2>3, <3>1 DEF Contents
      <3> QED
        BY <3>2, LoadedAreSaved
    <2>5. UNCHANGED <<active, generation, user_id, results, file, registered, cancelled>> /\ step' = "loaded"
      BY <1>9 DEF BeginSave, Load
    <2> QED
      BY <1>1, <1>2, <2>1, <2>4, <2>5 DEF WriteInv
  <1>10. CASE WriteTmp
    <2>1. UNCHANGED <<active, generation, user_id, results, file, users, registered, cancelled>> /\ step # "idle"
      BY <1>10 DEF WriteTmp, OpenTmp, FillTmp
    <2>2. step' = "written" => tmp'.users = users
      BY <1>10 DEF WriteTmp, OpenTmp, FillTmp, File
    <2> QED
      BY <1>1, <1>2, <2>1, <2>2 DEF WriteInv
  <1>11. CASE EndSave
    <2>1. file' = tmp /\ tmp.users = users /\ step' = "idle" /\ active /\ ~active'
          /\ UNCHANGED <<user_id, registered, cancelled>>
      BY <1>11 DEF EndSave, ResultDone, Replace, WriteInv
    <2>2. \A u \in SavedUsers' : u \in SavedUsers \/ u = user_id
      <3>1. \A u \in SavedUsers' : u \in Users /\ users[u] # NoUser
        BY <2>1 DEF SavedUsers, LoadAll, Nobody
      <3> QED
        BY <1>11, <3>1 DEF WriteInv, EndSave, Replace
    <2>3. user_id \in 1..registered /\ user_id \notin cancelled
      BY <2>1 DEF CurrentInv, CounterInv
    <2> QED
      BY <2>1, <2>2, <2>3 DEF SavedInv, CancelledIsNotSaved, WriteInv
  <1>12. CASE SaveRaises
    <2>1. ~active' /\ step' = "idle" /\ UNCHANGED <<file, user_id, registered, cancelled>>
      BY <1>12 DEF SaveRaises, ResultDone, SaveFails
    <2> QED
      BY <1>2, <2>1 DEF WriteInv
  <1>13. CASE KillProgram
    <2>1. ~active' /\ step' = "idle" /\ UNCHANGED <<file, registered, cancelled>>
      BY <1>13 DEF KillProgram, Crash
    <2> QED
      BY <1>1, <2>1 DEF SavedInv, CancelledIsNotSaved, WriteInv
  <1>14. CASE UNCHANGED <<page, results, file, tmp, step, users, registered, cancelled>>
    BY <1>1, <1>2, <1>14 DEF WriteInv
  <1> QED
    BY <1>4, <1>5, <1>6, <1>7, <1>8, <1>9, <1>10, <1>11, <1>12, <1>13, <1>14, StepsOfPage

(* The invariant of the page. *)
LEMMA RegistrationInv == RegSpec => []RegInv
  <1>1. RegInv /\ [RegNext]_regVars => RegInv'
    BY RegistrationTypeStep, CounterStep, CurrentStep, ThreadStaysCurrent, ResultStaysCurrent, SaveStaysCurrent
    DEF RegInv
  <1> QED
    BY InitRegistration, <1>1, PTL DEF RegSpec

(* The page, its threads and the file keep their types. *)
THEOREM RegistrationTypeCorrect == RegSpec => []RegistrationTypeOK
  <1>1. RegInv => RegistrationTypeOK
    BY DEF RegInv
  <1> QED
    BY RegistrationInv, <1>1, PTL

(* No cancelled registration is saved, also if the file cannot be read. *)
THEOREM CancelledStaysOut == RegSpec => []CancelledIsNotSaved
  <1>1. RegInv => CancelledIsNotSaved
    BY DEF RegInv, SavedInv
  <1> QED
    BY RegistrationInv, <1>1, PTL

(* No success message clears a later registration. *)
THEOREM NoClear == RegSpec => []NoClearWhileActive
  <1>1. RegInv => NoClearWhileActive
    BY DEF RegInv, CounterInv, NoClearWhileActive
  <1> QED
    BY RegistrationInv, <1>1, PTL

(* The page uses the file as UserRepository says ... *)
THEOREM RegistrationImplementsRepository == RegSpec => Spec
  <1>1. RegInit => Init
    BY DEF RegInit
  <1>2. RegInv /\ [RegNext]_regVars => [Next]_vars
    BY RegistrationIsRepository DEF RegInv
  <1> QED
    BY RegistrationInv, <1>1, <1>2, PTL DEF RegSpec, Spec

(* ... so that only a save that could not read the file loses a user. *)
THEOREM RegistrationKeepsUsers == RegSpec => []SavedUsersPersist
  <1>1. Spec => []SavedUsersPersist
    BY UsersPersist
  <1> QED
    BY <1>1, RegistrationImplementsRepository, PTL

-----------------------------------------------------------------------------
(* What a registration leaves to the next.                                    *)

(* Whoever is saved, or about to be, has been enrolled: an answer with     *)
(* success follows its enrolment, and only such an answer is saved.        *)
Enrolling == {"success", "contour"}
EnrolledInv ==
    /\ SavedIsEnrolled
    /\ \A id \in Users : answers[id] \in Enrolling => id \in enrolled
    /\ \A i \in DOMAIN results : results[i].answer \in Enrolling => results[i].id \in enrolled
    /\ step # "idle" => Head(results).answer \in Enrolling

(* One capture step is scheduled while a registration takes its pictures,  *)
(* none before it, and none once a thread or a result carries its          *)
(* generation.                                                             *)
Captured(gen) == gen = generation /\ active => capture_jobs = 0
ChainInv ==
    /\ capture_jobs = IF capture_after THEN 1 ELSE 0
    /\ ~active => capture_jobs = 0
    /\ \A id \in Users : thread[id] \in {"start", "open", "sent"} => Captured(thread_gen[id])
    /\ \A i \in DOMAIN results : Captured(results[i].gen)
    /\ \A id \in Users : thread[id] # "none" => thread_images[id] = Captures

LeftInv == EnrolledInv /\ ChainInv /\ CancelRemovesPictures /\ ContourIsAnimated

LEMMA InitLeft == RegInit => LeftInv
  <1> SUFFICES ASSUME RegInit PROVE LeftInv
    OBVIOUS
  <1> USE DEF RegInit, PageInit
  <1>1. SavedUsers = {}
    BY DEF Init, SavedUsers, LoadAll, Nobody, File
  <1>2. EnrolledInv
    BY <1>1 DEF EnrolledInv, SavedIsEnrolled, Enrolling, Init
  <1>3. ChainInv /\ CancelRemovesPictures /\ ContourIsAnimated
    BY DEF ChainInv, Captured, CancelRemovesPictures, ContourIsAnimated
  <1> QED
    BY <1>2, <1>3 DEF LeftInv

(* The enrolments. *)
LEMMA EnrolledStep == RegInv /\ EnrolledInv /\ [RegNext]_regVars => EnrolledInv'
  <1> SUFFICES ASSUME RegInv, EnrolledInv, [RegNext]_regVars PROVE EnrolledInv'
    OBVIOUS
  <1> USE DEF RegInv
  <1>0. ASSUME UNCHANGED file PROVE UNCHANGED SavedUsers
    BY <1>0 DEF SavedUsers, LoadAll
  <1>t. results \in Seq(Result)
    BY DEF RegistrationTypeOK, SenderTypeOK
  <1>1. ASSUME UNCHANGED <<file, answers, enrolled, results, step>> PROVE EnrolledInv'
    BY <1>0, <1>1 DEF EnrolledInv, SavedIsEnrolled
  <1>2. ASSUME UNCHANGED <<file, answers, enrolled>>, step' = "idle", results # <<>>, results' = Tail(results)
        PROVE  EnrolledInv'
    <2>1. \A i \in DOMAIN results' : i + 1 \in DOMAIN results /\ results'[i] = results[i + 1]
      BY <1>2, ResultIsTyped
    <2> QED
      BY <1>0, <1>2, <2>1 DEF EnrolledInv, SavedIsEnrolled
  <1> USE DEF vars, sender, server
  <1>3. CASE UiStep(CaptureStep) \/ UiStep(FinishSuccess) \/ UiStep(ContourTick) \/ UiStep(Operator)
    BY <1>1, <1>3 DEF UiStep, CaptureStep, FinishSuccess, ContourTick, Operator, Register,
          RegisterNameless, CancelRegistration, OnShow
  <1>4. CASE UiStep(DropResult)
    BY <1>2, <1>4 DEF UiStep, DropResult
  <1>5. CASE SendStep
    <2>1. PICK id \in Users : OpenSocket(id) \/ SendPictures(id) \/ ReceiveAnswer(id) \/ SendFails(id)
      BY <1>5 DEF SendStep
    <2>2. UNCHANGED <<file, answers, enrolled, step>>
      BY <1>5, <2>1 DEF SendStep, OpenSocket, SendPictures, ReceiveAnswer, SendFails, ThreadStep
    <2>3. CASE UNCHANGED results
      BY <1>1, <2>2, <2>3
    <2>4. ASSUME NEW answer, answer \in Enrolling => id \in enrolled, Deliver(id, answer)
          PROVE  EnrolledInv'
      <3> DEFINE r == [id |-> id, gen |-> thread_gen[id], answer |-> answer]
      <3>1. r.id = id /\ r.answer = answer
        OBVIOUS
      <3>2. results' = Append(results, r)
        BY <2>4 DEF Deliver
      <3> HIDE DEF r
      <3>3. \A i \in DOMAIN results' : (i \in DOMAIN results /\ results'[i] = results[i]) \/ results'[i] = r
        BY <3>2, <1>t
      <3>4. results # <<>> => Head(results') = Head(results)
        BY <3>2, <1>t
      <3> QED
        BY <1>0, <2>2, <2>4, <3>1, <3>3, <3>4 DEF EnrolledInv, SavedIsEnrolled, WriteInv
    <2>5. CASE ReceiveAnswer(id)
      BY <2>4, <2>5 DEF ReceiveAnswer, EnrolledInv
    <2>6. CASE SendFails(id)
      BY <2>4, <2>6 DEF SendFails, Enrolling
    <2> QED
      BY <2>1, <2>3, <2>5, <2>6 DEF OpenSocket, SendPictures
  <1>6. CASE Outside
    <2>1. CASE CameraFrame
      BY <1>1, <1>6, <2>1 DEF Outside, CameraFrame
    <2>2. ASSUME NEW id \in Users, NEW a \in Answers, ServerAnswers(id, a) PROVE EnrolledInv'
      <3>1. UNCHANGED <<file, results, step>>
        BY <1>6, <2>2 DEF Outside, ServerAnswers
      <3>2. enrolled \subseteq enrolled' /\ (a \in Enrolling => id \in enrolled')
        BY <2>2 DEF ServerAnswers, Enrolling
      <3>3. answers' = [answers EXCEPT ![id] = a] /\ answers \in [Users -> Answers \union {"none"}]
        BY <2>2 DEF ServerAnswers, RegistrationTypeOK, OutsideTypeOK
      <3> QED
        BY <1>0, <3>1, <3>2, <3>3 DEF EnrolledInv, SavedIsEnrolled
    <2> QED
      BY <1>6, <2>1, <2>2 DEF Outside
  <1>7. ASSUME NEW i \in Information, BeginSave(i) PROVE EnrolledInv'
    <2>1. Head(results).answer \in Enrolling /\ UNCHANGED <<file, answers, enrolled, results>>
      BY <1>7 DEF BeginSave, Enrols, Enrolling, Load
    <2> QED
      BY <1>0, <2>1 DEF EnrolledInv, SavedIsEnrolled
  <1>8. CASE WriteTmp
    BY <1>0, <1>8 DEF WriteTmp, OpenTmp, FillTmp, EnrolledInv, SavedIsEnrolled
  <1>9. CASE EndSave
    <2>1. /\ file' = tmp /\ tmp.users = users /\ step = "written" /\ step' = "idle" /\ active /\ results # <<>>
          /\ UNCHANGED <<answers, enrolled>> /\ results' = Tail(results)
      BY <1>9 DEF EndSave, ResultDone, Replace, WriteInv
    <2>2. user_id \in enrolled
      <3>1. Head(results).id = user_id /\ 1 \in DOMAIN results /\ Head(results) = results[1]
        BY <2>1, ResultIsTyped DEF ResultInv, Current, WriteInv
      <3> QED
        BY <2>1, <3>1 DEF EnrolledInv
    <2>3. \A u \in SavedUsers' : u \in Users /\ users[u] # NoUser
      BY <2>1 DEF SavedUsers, LoadAll, Nobody
    <2>4. SavedUsers' \subseteq enrolled
      BY <2>1, <2>2, <2>3 DEF WriteInv, EnrolledInv, SavedIsEnrolled
    <2>5. \A i \in DOMAIN results' : i + 1 \in DOMAIN results /\ results'[i] = results[i + 1]
      BY <2>1, ResultIsTyped
    <2> QED
      BY <2>1, <2>4, <2>5 DEF EnrolledInv, SavedIsEnrolled
  <1>10. CASE SaveRaises
    <2>1. results # <<>>
      BY <1>10 DEF SaveRaises, SaveFails, WriteInv
    <2> QED
      BY <1>2, <1>10, <2>1 DEF SaveRaises, ResultDone, SaveFails
  <1>11. CASE FaceStep
    BY <1>1, <1>11 DEF FaceStep, HandleFace
  <1>12. CASE KillProgram
    BY <1>0, <1>12 DEF KillProgram, Crash, EnrolledInv, SavedIsEnrolled
  <1>13. CASE UNCHANGED regVars
    BY <1>1, <1>13 DEF regVars
  <1> QED
    BY <1>3, <1>4, <1>5, <1>6, <1>7, <1>8, <1>9, <1>10, <1>11, <1>12, <1>13
    DEF RegNext, UiStep, Jobs, SaveStep

(* The chain of capture steps, and the pictures of each thread. *)
LEMMA ChainStep == RegInv /\ ChainInv /\ [RegNext]_regVars => ChainInv'
  <1> SUFFICES ASSUME RegInv, ChainInv, [RegNext]_regVars PROVE ChainInv'
    OBVIOUS
  <1> USE DEF RegInv
  <1>t. /\ results \in Seq(Result) /\ thread_gen \in [Users -> Nat] /\ generation \in Nat /\ capture_jobs \in Nat
        /\ thread \in [Users -> {"none", "start", "open", "sent", "done"}]
        /\ thread_images \in [Users -> 0..Captures]
    BY DEF RegistrationTypeOK, SenderTypeOK, PageTypeOK, Generations
  <1>1. ASSUME UNCHANGED <<active, generation, capture_jobs, capture_after, thread, thread_gen, thread_images>>,
               \A i \in DOMAIN results' : \E j \in DOMAIN results : results'[i] = results[j]
        PROVE  ChainInv'
    BY <1>1 DEF ChainInv, Captured
  <1>2. ASSUME UNCHANGED <<generation, capture_jobs, capture_after, thread, thread_gen, thread_images>>,
               results # <<>>, results' = Tail(results), active' = FALSE, Head(results).gen = generation, active
        PROVE  ChainInv'
    <2>1. 1 \in DOMAIN results /\ Head(results) = results[1]
      BY <1>2, ResultIsTyped
    <2>2. capture_jobs = 0
      BY <1>2, <2>1 DEF ChainInv, Captured
    <2> QED
      BY <1>2, <2>2 DEF ChainInv, Captured
  <1> USE DEF page, sender
  <1>3. CASE UiStep(CaptureStep)
    <2>1. UNCHANGED <<active, generation, results>> /\ active /\ capture_jobs = 1
      BY <1>3 DEF UiStep, CaptureStep, ChainInv
    <2>2. CASE capture_count < Captures
      <3>1. capture_jobs' = 1 /\ capture_after' = TRUE /\ UNCHANGED <<thread, thread_gen, thread_images>>
        BY <1>3, <2>1, <2>2 DEF UiStep, CaptureStep, ScheduleCapture
      <3> QED
        BY <2>1, <3>1 DEF ChainInv, Captured
    <2>3. CASE ~(capture_count < Captures)
      <3>1. /\ capture_jobs' = 0 /\ capture_after' = FALSE
            /\ thread' = [thread EXCEPT ![user_id] = "start"]
            /\ thread_images' = [thread_images EXCEPT ![user_id] = capture_count]
        BY <1>3, <2>1, <2>3 DEF UiStep, CaptureStep
      <3>2. capture_count = Captures
        BY <2>3, RegistrationAssumption DEF RegistrationTypeOK, PageTypeOK
      <3> QED
        BY <1>t, <2>1, <3>1, <3>2 DEF ChainInv, Captured
    <2> QED
      BY <2>2, <2>3
  <1>4. CASE UiStep(DropResult)
    <2>1. results # <<>> /\ results' = Tail(results)
          /\ UNCHANGED <<generation, capture_jobs, capture_after, thread, thread_gen, thread_images>>
          /\ active' = (active /\ Stale(Head(results)))
      BY <1>4 DEF UiStep, DropResult
    <2>2. CASE active /\ ~Stale(Head(results))
      BY <1>2, <2>1, <2>2 DEF Stale
    <2>3. CASE ~(active /\ ~Stale(Head(results)))
      <3>1. active' = active
        BY <2>1, <2>3 DEF RegistrationTypeOK, PageTypeOK, Stale
      <3>2. \A i \in DOMAIN results' : i + 1 \in DOMAIN results /\ results'[i] = results[i + 1]
        BY <2>1, ResultIsTyped
      <3> QED
        BY <1>1, <2>1, <3>1, <3>2
    <2> QED
      BY <2>2, <2>3
  <1>5. CASE UiStep(Register) \/ UiStep(CancelRegistration)
    <2>1. /\ generation' = generation + 1 /\ UNCHANGED <<thread, thread_gen, thread_images, results>>
          /\ capture_jobs' = (IF capture_after' THEN 1 ELSE 0) /\ (~active' => capture_jobs' = 0)
      BY <1>5 DEF UiStep, Register, CancelRegistration, ScheduleCapture, Drop, ChainInv
    <2>2. \A id \in Users : thread[id] \in {"start", "open", "sent"} => thread_gen[id] # generation + 1
      BY <1>t DEF ThreadInv, Current
    <2>3. \A i \in DOMAIN results : results[i].gen # generation + 1
      <3>1. \A i \in DOMAIN results : results[i] \in Result
        BY <1>t
      <3>2. \A r \in Result : r.gen \in Nat
        BY DEF Result, Generations
      <3> QED
        BY <1>t, <3>1, <3>2 DEF ResultInv, Current
    <2> QED
      BY <2>1, <2>2, <2>3 DEF ChainInv, Captured
  <1>6. CASE SendStep
    <2>1. PICK id \in Users : OpenSocket(id) \/ SendPictures(id) \/ ReceiveAnswer(id) \/ SendFails(id)
      BY <1>6 DEF SendStep
    <2>2. PICK from \in {"start", "open", "sent"}, to \in {"open", "sent", "done"} : ThreadStep(id, from, to)
      BY <2>1 DEF OpenSocket, SendPictures, ReceiveAnswer, SendFails
    <2>3. UNCHANGED <<active, generation, capture_jobs, capture_after, thread_gen, thread_images>>
      BY <2>2 DEF ThreadStep
    <2>4. \A u \in Users : (thread'[u] \in {"start", "open", "sent"} => thread[u] \in {"start", "open", "sent"})
                           /\ (thread'[u] # "none" => thread[u] # "none")
      BY <1>t, <2>2 DEF ThreadStep
    <2>5. thread[id] \in {"start", "open", "sent"}
      BY <2>2 DEF ThreadStep
    <2>6. \A i \in DOMAIN results' : (i \in DOMAIN results /\ results'[i] = results[i])
                                     \/ results'[i].gen = thread_gen[id]
      <3>1. CASE UNCHANGED results
        BY <3>1
      <3>2. ASSUME NEW answer, Deliver(id, answer)
            PROVE  \A i \in DOMAIN results' : (i \in DOMAIN results /\ results'[i] = results[i])
                                              \/ results'[i].gen = thread_gen[id]
        <4> DEFINE r == [id |-> id, gen |-> thread_gen[id], answer |-> answer]
        <4>1. r.gen = thread_gen[id] /\ results' = Append(results, r)
          BY <3>2 DEF Deliver
        <4> HIDE DEF r
        <4> QED
          BY <1>t, <4>1
      <3> QED
        BY <2>1, <3>1, <3>2 DEF OpenSocket, SendPictures, ReceiveAnswer, SendFails
    <2> QED
      BY <2>3, <2>4, <2>5, <2>6 DEF ChainInv, Captured
  <1>7. CASE EndSave \/ SaveRaises
    <2>1. active /\ results # <<>> /\ Head(results).gen = generation
      BY <1>7 DEF EndSave, SaveRaises, Replace, SaveFails, WriteInv
    <2> QED
      BY <1>2, <1>7, <2>1 DEF EndSave, SaveRaises, ResultDone
  <1>8. CASE KillProgram
    BY <1>8 DEF KillProgram, ChainInv, Captured
  <1>9. CASE UNCHANGED <<active, generation, capture_jobs, capture_after, thread, thread_gen, thread_images, results>>
    BY <1>1, <1>9
  <1>10. CASE UiStep(FinishSuccess) \/ UiStep(ContourTick) \/ UiStep(RegisterNameless) \/ UiStep(OnShow)
              \/ Outside \/ FaceStep \/ WriteTmp \/ (\E i \in Information : BeginSave(i))
    BY <1>9, <1>10 DEF UiStep, FinishSuccess, ContourTick, RegisterNameless, OnShow, Outside, CameraFrame,
          ServerAnswers, FaceStep, WriteTmp, BeginSave
  <1> QED
    BY <1>3, <1>4, <1>5, <1>6, <1>7, <1>8, <1>9, <1>10
    DEF RegNext, UiStep, Jobs, Operator, SaveStep, regVars

(* Pictures and contour. *)
LEMMA PictureStep ==
    RegInv /\ CancelRemovesPictures /\ ContourIsAnimated /\ [RegNext]_regVars
    => CancelRemovesPictures' /\ ContourIsAnimated'
  <1> SUFFICES ASSUME RegInv, CancelRemovesPictures, ContourIsAnimated, [RegNext]_regVars
               PROVE  CancelRemovesPictures' /\ ContourIsAnimated'
    OBVIOUS
  <1> USE DEF CancelRemovesPictures, ContourIsAnimated, picture
  <1>1. CASE UiStep(CaptureStep)
    BY <1>1 DEF UiStep, CaptureStep, RegInv, CurrentInv
  <1>2. CASE UiStep(DropResult) \/ UiStep(FinishSuccess) \/ UiStep(ContourTick)
    BY <1>2 DEF UiStep, DropResult, FinishSuccess, ContourTick
  <1>3. CASE UiStep(Register) \/ UiStep(RegisterNameless)
    BY <1>3 DEF UiStep, Register, RegisterNameless
  <1>11. CASE UiStep(OnShow)
    <2>1. UNCHANGED <<dirs, cancelled, contour>> /\ contour_job' = (contour \/ contour_job)
      BY <1>11 DEF UiStep, OnShow
    <2> QED
      BY <2>1
  <1>4. CASE UiStep(CancelRegistration)
    BY <1>4 DEF UiStep, CancelRegistration
  <1>5. CASE SendStep
    BY <1>5 DEF SendStep, OpenSocket, SendPictures, ReceiveAnswer, SendFails, ThreadStep
  <1>6. CASE Outside
    BY <1>6 DEF Outside, CameraFrame, ServerAnswers
  <1>7. CASE (\E i \in Information : BeginSave(i)) \/ WriteTmp \/ FaceStep
    BY <1>7 DEF BeginSave, WriteTmp, FaceStep
  <1>8. CASE EndSave \/ SaveRaises
    BY <1>8 DEF EndSave, SaveRaises, ResultDone
  <1>9. CASE KillProgram
    BY <1>9 DEF KillProgram
  <1>10. CASE UNCHANGED regVars
    BY <1>10 DEF regVars
  <1> QED
    BY <1>1, <1>2, <1>3, <1>4, <1>5, <1>6, <1>7, <1>8, <1>9, <1>10, <1>11
    DEF RegNext, UiStep, Jobs, Operator, SaveStep

(* What a registration leaves behind. *)
THEOREM NothingLeft == RegSpec => []NothingLeftBehind
  <1>1. RegInv /\ LeftInv /\ [RegNext]_regVars => LeftInv'
    BY EnrolledStep, ChainStep, PictureStep DEF LeftInv
  <1>2. RegInv /\ LeftInv => NothingLeftBehind
    BY DEF RegInv, LeftInv, NothingLeftBehind, EnrolledInv, CounterInv, NoClearWhileActive, ChainInv, OneCaptureChain
  <1> QED
    BY RegistrationInv, InitLeft, <1>1, <1>2, PTL DEF RegSpec
===============================================================================
