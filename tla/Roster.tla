-------------------------------- MODULE Roster --------------------------------
(***************************************************************************)
(* What the server's room tables amount to, without their lists: a room    *)
(* remembers one session at most, the last one that joined it, and a       *)
(* session counts how often it has joined each room.  A session that logs  *)
(* out must hold no room, or the server dies with everything it knew.      *)
(* OnlineTables implements this specification (MCOnlineTables).            *)
(***************************************************************************)
EXTENDS Naturals

CONSTANTS
    Sessions,   \* connections that have a slot
    Rooms,
    Nobody,
    Unset,      \* sessions whose list may start as a wild pointer
    Faults      \* whether a connection may have no slot

VARIABLES
    listed,   \* the session a room's list names, or Nobody
    held,     \* how often a session has joined a room and not left it
    wild,     \* sessions whose list ends in a wild pointer
    alive     \* the server has not died since it was started

vars == <<listed, held, wild, alive>>

NoRooms == [r \in Rooms |-> 0]

Empty ==
    /\ listed = [r \in Rooms |-> Nobody]
    /\ held = [s \in Sessions |-> NoRooms]
    /\ alive = TRUE

Init == Empty /\ wild \in SUBSET Unset

(* The last session to join is the one the room remembers.                 *)
Join(s, r) ==
    /\ alive
    /\ listed' = [listed EXCEPT ![r] = s]
    /\ held' = [held EXCEPT ![s][r] = @ + 1]
    /\ UNCHANGED <<wild, alive>>

(* One leave undoes one join, and takes the session's own listing only.    *)
Leave(s, r) ==
    /\ alive
    /\ held[s][r] > 0
    /\ held' = [held EXCEPT ![s][r] = @ - 1]
    /\ listed' = [listed EXCEPT ![r] = IF @ = s THEN Nobody ELSE @]
    /\ UNCHANGED <<wild, alive>>

(* A login forgets the rooms held, and not the listings.                   *)
Login(s) ==
    /\ alive
    /\ held' = [held EXCEPT ![s] = NoRooms]
    /\ wild' = wild \ {s}
    /\ UNCHANGED <<listed, alive>>

(* Logging out while holding a room, or walking off a wild list.           *)
Die ==
    /\ alive
    /\ Faults \/ wild # {} \/ \E s \in Sessions : held[s] # NoRooms
    /\ alive' = FALSE
    /\ UNCHANGED <<listed, held, wild>>

Restart ==
    /\ ~alive
    /\ listed' = [r \in Rooms |-> Nobody]
    /\ held' = [s \in Sessions |-> NoRooms]
    /\ wild' \in SUBSET Unset
    /\ alive' = TRUE

Next ==
    \/ \E s \in Sessions, r \in Rooms : Join(s, r) \/ Leave(s, r)
    \/ \E s \in Sessions : Login(s)
    \/ Die
    \/ Restart

Spec == Init /\ [][Next]_vars
=============================================================================
