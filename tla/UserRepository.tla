--------------------------- MODULE UserRepository ---------------------------
(***************************************************************************)
(* user_repository.py: the users and the racks they may open, one JSON     *)
(* file.  A save reads all of them, changes one, writes a second file and  *)
(* renames it; each of these steps may fail, and the program may be killed *)
(* between any two of them.                                                *)
(***************************************************************************)
EXTENDS Naturals, FiniteSets

CONSTANTS Users, Racks,
          MaxSaves, MaxCrashes  \* bounds

ASSUME BoundsAssumption == MaxSaves \in Nat /\ MaxCrashes \in Nat

VARIABLES file, tmp,   \* users.json and users.json.tmp
          step, users, \* the save in progress: its step, and the users it writes
          unread,      \* history: the save in progress could not read the file
          saved,       \* history: what has been saved last of each user,
          forgotten,   \* history: and whom a save that could not read the file dropped
          command,     \* the door command of the last Face-ID result
          saves, crashes

history == <<saved, forgotten>>
vars == <<file, tmp, step, users, unread, saved, forgotten, command, saves, crashes>>

NoUser == [entrance |-> FALSE, racks |-> {}, known |-> FALSE]
Information == [entrance : BOOLEAN, racks : SUBSET Racks, known : {TRUE}]
Contents == [Users -> Information \union {NoUser}]
Nobody == [u \in Users |-> NoUser]
File(state, contents) == [state |-> state, users |-> contents]
Files == [state : {"absent", "partial", "whole"}, users : Contents]

(* The upper nibble of the command: OPEN or CLOSE; the lower: the racks.   *)
Command == [door : {"OPEN", "CLOSE"}, racks : SUBSET Racks]

(* The file, the save in progress and the history have their types.        *)
TypeOK ==
    /\ file \in Files /\ tmp \in Files /\ users \in Contents /\ saved \in Contents
    /\ unread \in BOOLEAN /\ forgotten \subseteq Users
    /\ step \in {"idle", "loaded", "opened", "written"}
    /\ command \in Command /\ saves \in 0..MaxSaves /\ crashes \in 0..MaxCrashes

Init ==
    /\ file = File("absent", Nobody) /\ tmp = File("absent", Nobody)
    /\ step = "idle" /\ users = Nobody /\ saved = Nobody
    /\ unread = FALSE /\ forgotten = {}
    /\ command = [door |-> "CLOSE", racks |-> {}] /\ saves = 0 /\ crashes = 0

(* load_all: a file that is missing, is no JSON or cannot be read (a file  *)
(* another program has locked, at any reading) has no users.               *)
LoadAll(readable) == IF file.state = "whole" /\ readable THEN file.users ELSE Nobody

(* A mutant of Load. *)
LoadNobody(user, information) ==
    /\ step = "idle" /\ saves < MaxSaves /\ saves' = saves + 1
    /\ users' = [Nobody EXCEPT ![user] = information] /\ unread' = FALSE
    /\ step' = "loaded"
    /\ UNCHANGED <<file, tmp, history, command, crashes>>

(* save.                                                                   *)
Load(user, information) ==
    /\ step = "idle" /\ saves < MaxSaves /\ saves' = saves + 1
    /\ \E readable \in BOOLEAN :
         /\ users' = [LoadAll(readable) EXCEPT ![user] = information]
         /\ unread' = ~readable
    /\ step' = "loaded"
    /\ UNCHANGED <<file, tmp, history, command, crashes>>

(* A mutant of OpenTmp. *)
OpenInPlace ==
    /\ step = "loaded" /\ step' = "written"
    /\ file' = File("partial", Nobody) /\ tmp' = File("whole", users)
    /\ UNCHANGED <<users, unread, history, command, saves, crashes>>

OpenTmp ==   \* write_text truncates the file and fills it
    /\ step = "loaded" /\ step' = "opened"
    /\ tmp' = File("partial", Nobody)
    /\ UNCHANGED <<file, users, unread, history, command, saves, crashes>>

FillTmp ==
    /\ step = "opened" /\ step' = "written"
    /\ tmp' = File("whole", users)
    /\ UNCHANGED <<file, users, unread, history, command, saves, crashes>>

Replace ==
    /\ step = "written" /\ step' = "idle"
    /\ file' = tmp /\ tmp' = File("absent", Nobody)
    /\ saved' = [u \in Users |-> IF users[u] = NoUser THEN saved[u] ELSE users[u]]
    /\ forgotten' = {u \in Users : /\ users[u] = NoUser
                                  /\ IF unread THEN saved[u] # NoUser ELSE u \in forgotten}
    /\ unread' = FALSE
    /\ UNCHANGED <<users, command, saves, crashes>>

(* An OSError of any of these steps ends the save.                         *)
SaveFails ==
    /\ step # "idle" /\ step' = "idle" /\ unread' = FALSE
    /\ UNCHANGED <<file, tmp, users, history, command, saves, crashes>>

Crash ==
    /\ crashes < MaxCrashes /\ crashes' = crashes + 1
    /\ step' = "idle" /\ users' = Nobody /\ unread' = FALSE
    /\ UNCHANGED <<file, tmp, history, command, saves>>

(* get and command_for: the command of an authorized user; for an unknown  *)
(* one _handle_face sends CLOSE.                                           *)
CommandFor(information) ==
    [door |-> IF information.entrance THEN "OPEN" ELSE "CLOSE", racks |-> information.racks]
HandleFace(user) ==
    /\ step = "idle"
    /\ \E readable \in BOOLEAN : command' = CommandFor(LoadAll(readable)[user])
    /\ UNCHANGED <<file, tmp, step, users, unread, history, saves, crashes>>

Next == \/ \E user \in Users : HandleFace(user) \/ \E i \in Information : Load(user, i)
        \/ OpenTmp \/ FillTmp \/ Replace \/ SaveFails \/ Crash
Spec == Init /\ [][Next]_vars
-----------------------------------------------------------------------------
(* Whatever is killed when and whatever fails, users.json is absent or     *)
(* whole and holds what was saved last of every user, except of those that *)
(* a save which could not read the file (load_all: no users) has dropped,  *)
(* and who have not been saved again since.                                *)
Kept == [u \in Users |-> IF u \in forgotten THEN NoUser ELSE saved[u]]
SavedUsersPersist == file.state # "partial" /\ LoadAll(TRUE) = Kept
=============================================================================
