----------------------------- MODULE OnlineTables -----------------------------
(***************************************************************************)
(* The two tables the server keeps in memory while it runs:                *)
(*   - online_users (online_users.c): one slot per descriptor, with the    *)
(*     flag `online', a user name and the list of the rooms the session    *)
(*     has joined (room_list_head);                                        *)
(*   - online_rooms (online_rooms.c): the rooms loaded from the database,  *)
(*     each with the list of the sessions listed in it (user_list_head).   *)
(* The lists point at each other, and nothing but the code of these two    *)
(* files keeps them consistent.  Both are touched by one thread, the       *)
(* listener, so an operation is one atomic action here; module Daemon      *)
(* gives the order in which the listener calls them.                       *)
(*                                                                         *)
(* A list is a sequence, its head first.  The slots come from malloc and   *)
(* online_users_create leaves room_list_head unset: FreshHeads says what   *)
(* can be found there, <<>> for NULL and <<Wild>> for a pointer to no      *)
(* room.  Following it, or indexing the slots at or above MaxOnlineUsers,  *)
(* is undefined: the process dies, or goes on with memory that no longer   *)
(* means anything ("corrupt").                                             *)
(***************************************************************************)
EXTENDS Naturals, SequencesExt

CONSTANTS
    Fds,             \* descriptors the kernel can hand out to connections
    MaxOnlineUsers,  \* MAX_ONLINE_USERS
    Rooms,           \* rooms found in the database by load_rooms
    OtherRooms,      \* room names a request can carry that no room has
    Names,           \* what login can store as a user name
    Erased,          \* the name after logout's memset
    Garbage,         \* the name of a slot nobody has logged in on yet
    Wild,            \* the room an unset room_list_head points at
    FreshHeads,      \* what room_list_head can hold before the first login
    MaxJoined        \* bound: length of one session's list of rooms

ASSUME TablesAssumption ==
    /\ Fds \subseteq Nat
    /\ MaxOnlineUsers \in Nat
    /\ MaxJoined \in Nat
    /\ Rooms \cap OtherRooms = {}
    /\ Wild \notin Rooms \cup OtherRooms
    /\ Erased \notin Names
    /\ Garbage \notin Names
    /\ FreshHeads \subseteq {<<>>, <<Wild>>}
    /\ <<>> \in FreshHeads

VARIABLES
    online,    \* a_user.online of each slot
    username,  \* a_user.username of each slot
    joined,    \* room_list_head of each slot: the rooms the session holds
    members,   \* user_list_head of each room: the sessions it lists
    status     \* of the server process: "running", "crashed" or "corrupt"

vars == <<online, username, joined, members, status>>

Slots == {fd \in Fds : fd < MaxOnlineUsers}

Holds(fd, r) == r \in ToSet(joined[fd])
Listed(fd, r) == fd \in ToSet(members[r])

-----------------------------------------------------------------------------
(* online_users_create and online_rooms_create, then load_rooms.           *)
Init ==
    /\ online = [fd \in Slots |-> FALSE]
    /\ username = [fd \in Slots |-> Garbage]
    /\ joined \in [Slots -> FreshHeads]
    /\ members = [r \in Rooms |-> <<>>]
    /\ status = "running"

(* An access the C standard leaves undefined, outside the tables.          *)
Undefined ==
    /\ status' \in {"crashed", "corrupt"}
    /\ UNCHANGED <<online, username, joined, members>>

(* login: above the limit it returns -1, which its caller ignores.  On a   *)
(* slot it overwrites room_list_head and leaves the rooms' lists alone.    *)
Login(fd, name) ==
    /\ status = "running"
    /\ \/ /\ fd \in Slots
          /\ online' = [online EXCEPT ![fd] = TRUE]
          /\ username' = [username EXCEPT ![fd] = name]
          /\ joined' = [joined EXCEPT ![fd] = <<>>]
          /\ UNCHANGED <<members, status>>
       \/ fd \notin Slots /\ UNCHANGED vars

(* logout: for each room held, delete_user_from_room is given the room's   *)
(* name where it expects the room's node, and follows the name's bytes as  *)
(* a pointer.                                                              *)
Logout(fd) ==
    /\ status = "running"
    /\ \/ /\ fd \in Slots
          /\ online' = [online EXCEPT ![fd] = FALSE]
          /\ username' = [username EXCEPT ![fd] = Erased]
          /\ status' \in CASE joined[fd] = <<>>         -> {"running"}
                           [] joined[fd] = <<Wild>>     -> {"crashed", "corrupt"}
                           [] OTHER                     -> {"crashed"}
          /\ UNCHANGED <<joined, members>>
       \/ fd \notin Slots /\ Undefined

-----------------------------------------------------------------------------
(* Mutant: the room is not looked up.                                      *)
MutFindRoom(r) == TRUE

FindRoom(r) == r \in Rooms

(* Mutants: the insertion the comment announces; no unlinking at all; the  *)
(* list emptied whoever is at its head.                                    *)
MutAddUserToRoom(list, fd) == <<fd>> \o list
MutDeleteNothing(list, fd) == list
MutDeleteAll(list, fd) == <<>>

(* add_user_to_room: the new node's next is the old head's next, so the    *)
(* old head, if there is one, is no longer in the list.                    *)
AddUserToRoom(list, fd) ==
    <<fd>> \o (IF list = <<>> THEN <<>> ELSE Tail(list))

(* delete_user_from_room: a match at the head empties the list, a later    *)
(* one is unlinked.                                                        *)
DeleteUserFromRoom(list, fd) ==
    IF list # <<>> /\ Head(list) = fd THEN <<>> ELSE RemoveFirst(list, fd)

(* join_room: no test for a login or for a room already held.              *)
JoinRoom(fd, r) ==
    /\ status = "running"
    /\ \/ /\ FindRoom(r) /\ fd \in Slots
          /\ Len(joined[fd]) < MaxJoined
          /\ members' = [members EXCEPT ![r] = AddUserToRoom(@, fd)]
          /\ joined' = [joined EXCEPT ![fd] = <<r>> \o @]
          /\ UNCHANGED <<online, username, status>>
       \/ FindRoom(r) /\ fd \notin Slots /\ Undefined
       \/ ~FindRoom(r) /\ UNCHANGED vars

(* Mutant: the head goes, whatever its room.                               *)
MutIsFirstOf(i, r, list) == i = 1 /\ r \in ToSet(list)

IsFirstOf(i, r, list) ==
    /\ i \in DOMAIN list /\ list[i] = r
    /\ \A j \in 1 .. i - 1 : list[j] # r

(* leave_room: the first node for the room goes, and the session with it   *)
(* from the room's list; the result of delete_user_from_room is ignored.   *)
(* Without such a node the scan ends at NULL, or at the wild pointer.      *)
LeaveRoom(fd, r) ==
    /\ status = "running"
    /\ \/ /\ fd \in Slots
          /\ \E i \in DOMAIN joined[fd] :
                /\ IsFirstOf(i, r, joined[fd])
                /\ joined' = [joined EXCEPT ![fd] = RemoveAt(@, i)]
          /\ members' = [members EXCEPT ![r] = DeleteUserFromRoom(@, fd)]
          /\ UNCHANGED <<online, username, status>>
       \/ fd \in Slots /\ ~Holds(fd, r) /\ ~Holds(fd, Wild) /\ UNCHANGED vars
       \/ fd \in Slots /\ ~Holds(fd, r) /\ Holds(fd, Wild) /\ Undefined
       \/ fd \notin Slots /\ (Undefined \/ UNCHANGED vars)

(* What join_room and leave_room return, read in the state they start in.  *)
JoinSucceeds(r) == FindRoom(r)
LeaveSucceeds(fd, r) == fd \in Slots /\ Holds(fd, r)

(* The process died or lost its memory and is started again: both tables   *)
(* are created anew and the rooms are loaded again.                        *)
Restart ==
    /\ status # "running"
    /\ online' = [fd \in Slots |-> FALSE]
    /\ username' = [fd \in Slots |-> Garbage]
    /\ joined' \in [Slots -> FreshHeads]
    /\ members' = [r \in Rooms |-> <<>>]
    /\ status' = "running"

Next ==
    \/ \E fd \in Fds : \E name \in Names : Login(fd, name)
    \/ \E fd \in Fds : Logout(fd)
    \/ \E fd \in Fds : \E r \in Rooms \cup OtherRooms : JoinRoom(fd, r)
    \/ \E fd \in Fds : \E r \in Rooms \cup OtherRooms : LeaveRoom(fd, r)
    \/ Restart

Spec == Init /\ [][Next]_vars

-----------------------------------------------------------------------------
WildOnlyLast(list) ==
    \A i \in DOMAIN list : list[i] = Wild => i = Len(list)

(* Type invariant: the shape of the two tables.  A wild pointer, being the *)
(* content of an unset head, can only be the end of a list.                *)
TypeOK ==
    /\ online \in [Slots -> BOOLEAN]
    /\ username \in [Slots -> Names \cup {Erased, Garbage}]
    /\ joined \in [Slots -> Seq(Rooms \cup {Wild})]
    /\ \A fd \in Slots : WildOnlyLast(joined[fd])
    /\ members \in [Rooms -> Seq(Slots)]
    /\ status \in {"running", "crashed", "corrupt"}

(* However sessions join and leave, the list of a room never names two     *)
(* sessions, nor one session twice: add_user_to_room unlinks the old head  *)
(* and delete_user_from_room never puts one back.                          *)
OneListedMember == \A r \in Rooms : Len(members[r]) <= 1

(* A session stays in a room's list until it leaves that room itself, or   *)
(* another session joins the room and takes its place, or the server is    *)
(* started anew.  In particular the branch of delete_user_from_room that   *)
(* empties the whole list never takes anybody else with it.                *)
ListedUntilLeaveOrEviction ==
    [][\A fd \in Slots, r \in Rooms :
          Listed(fd, r) /\ ~Listed(fd, r)' =>
              \/ LeaveRoom(fd, r)
              \/ \E other \in Slots \ {fd} : JoinRoom(other, r)
              \/ Restart]_vars

(* A room lists a session that does not hold it only after that session    *)
(* logged in again without logging out: login drops the session's list and *)
(* nothing else lets the two tables disagree in this direction.            *)
GhostsComeFromRelogin ==
    [][\A fd \in Slots, r \in Rooms :
          (Listed(fd, r) /\ ~Holds(fd, r))' =>
              \/ Listed(fd, r) /\ ~Holds(fd, r)
              \/ \E name \in Names : Login(fd, name)]_vars

=============================================================================
