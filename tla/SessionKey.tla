------------------------------ MODULE SessionKey ------------------------------
(***************************************************************************)
(* What a re-keying handshake promises to the application: traffic stops,  *)
(* every party moves to the key of one fresh random, and traffic starts    *)
(* again only when all of them hold it.  The leader moves after everybody  *)
(* else has agreed; the parties move one at a time.                        *)
(***************************************************************************)
CONSTANTS
  Randoms,   \* the randoms an epoch may be given
  NoRandom,  \* no epoch yet
  Parties,   \* who holds a copy of the key
  First      \* First[p]: the parties that must have moved before p moves

VARIABLES
  key,       \* key[p] is the random p's key is derived from
  target,    \* the random of the epoch being installed, or running
  traffic    \* may application frames be sent?

svars == <<key, target, traffic>>

Init ==
  /\ key = [p \in Parties |-> NoRandom]
  /\ target = NoRandom
  /\ traffic = FALSE

Begin ==
  /\ traffic \/ target = NoRandom
  /\ target' \in Randoms \ {target}
  /\ traffic' = FALSE
  /\ UNCHANGED key

Move(p) ==
  /\ ~traffic
  /\ key[p] # target
  /\ \A q \in First[p] : key[q] = target
  /\ key' = [key EXCEPT ![p] = target]
  /\ UNCHANGED <<target, traffic>>

Enable ==
  /\ ~traffic /\ target # NoRandom
  /\ \A p \in Parties : key[p] = target
  /\ traffic' = TRUE
  /\ UNCHANGED <<key, target>>

Next == Begin \/ Enable \/ \E p \in Parties : Move(p)

Spec == Init /\ [][Next]_svars
=============================================================================
