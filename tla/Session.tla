-------------------------------- MODULE Session --------------------------------
(***************************************************************************)
(* One client and the server's side of its connection: the requests reach  *)
(* the handlers of daemon.c in the order they were written, each works on  *)
(* the tables of OnlineTables and is answered at once.  What the two sides *)
(* believe about the session can then be compared.                         *)
(*                                                                         *)
(* The server reads one request at a time here; what happens when it does  *)
(* not is in module Daemon.                                                *)
(***************************************************************************)
EXTENDS Client

CONSTANTS
    fd,          \* the connection's descriptor on the server
    User, Erased, Garbage, Wild

ASSUME SessionAssumption == fd \in Nat

VARIABLES
    online, username, joined, members, server,  \* OnlineTables, its status as server
    lastJoin,  \* history: the last room the server reported as joined
    torn       \* history: a recv() returned something else than one reply

tables == <<online, username, joined, members, server>>
history == <<lastJoin, torn>>
vars == <<clientVars, tables, history>>

Tables == INSTANCE OnlineTables WITH
    Fds <- {fd}, MaxOnlineUsers <- fd + 1, Names <- {User},
    FreshHeads <- {<<>>}, MaxJoined <- MaxLines, status <- server

SessionInit == Init /\ Tables!Init /\ lastJoin = NULL /\ torn = FALSE

(* A reply, or the end of the connection if the handler killed the server. *)
Answer(m) ==
    /\ requests' = IF server' = "running" THEN Tail(requests) ELSE <<>>
    /\ conn' = IF server' = "running" THEN "up" ELSE "lost"
    /\ replies' = IF server' = "running" THEN Append(replies, m) ELSE replies

HandleLogin ==
    \/ Tables!Login(fd, User) /\ Answer([type |-> "LOGIN_SUCCESS"])
    \/ UNCHANGED tables /\ Answer([type |-> "LOGIN_FAILED"])

HandleLogout == Tables!Logout(fd) /\ Answer([type |-> "LOGOUT_SUCCESS"])

HandleJoinRoom(r) ==
    /\ Tables!JoinRoom(fd, r)
    /\ Answer(IF Tables!JoinSucceeds(r)
              THEN [type |-> "JOIN_ROOM_SUCCESS", data |-> r]
              ELSE [type |-> "JOIN_ROOM_FAILED"])

HandleLeaveRoom(r) ==
    /\ Tables!LeaveRoom(fd, r)
    /\ Answer(IF Tables!LeaveSucceeds(fd, r)
              THEN [type |-> "LEAVE_ROOM_SUCCESS", data |-> r]
              ELSE [type |-> "LEAVE_ROOM_FAILED"])

(* handle_message forwards nothing and answers nothing.                    *)
HandleOther ==
    /\ requests' = Tail(requests)
    /\ UNCHANGED <<tables, conn, replies>>

ServerStep ==
    /\ conn = "up" /\ server = "running" /\ requests # <<>>
    /\ LET m == Head(requests)
       IN  /\ \/ m.type = "LOGIN" /\ HandleLogin
              \/ m.type = "LOGOUT" /\ HandleLogout
              \/ m.type = "JOIN_ROOM" /\ HandleJoinRoom(m.data)
              \/ m.type = "LEAVE_ROOM" /\ HandleLeaveRoom(m.data)
              \/ m.type \in {"MESSAGE", "OTHER"} /\ HandleOther
           /\ lastJoin' = IF m.type = "JOIN_ROOM" /\ Tables!JoinSucceeds(m.data)
                          THEN m.data ELSE lastJoin
    /\ UNCHANGED <<client, roomVars, pcMain, pcRecv, msgList, lines, torn>>

(* The receive thread's steps, with the note whether one reply was taken.  *)
Receive ==
    /\ RecvStep
    /\ torn' = (torn \/ (replies' # replies /\ replies' # Tail(replies)))
    /\ UNCHANGED <<tables, lastJoin>>

Next ==
    \/ (UserStep \/ MainStep \/ Send \/ RecvError) /\ UNCHANGED <<tables, history>>
    \/ Receive
    \/ ServerStep

Spec == SessionInit /\ [][Next]_vars

(* The threads of both programs are scheduled; nobody has to type.         *)
FairSpec ==
    /\ Spec
    /\ WF_vars(ServerStep)
    /\ WF_vars(Send /\ UNCHANGED <<tables, history>>)
    /\ WF_vars(Receive)

-----------------------------------------------------------------------------
(* Every reply written has been received, one at a time, and acted upon.   *)
Settled ==
    /\ Running /\ conn = "up" /\ ~torn
    /\ replies = <<>> /\ pcRecv = "recv"

(* As long as each recv() returned one reply, whenever no reply is on its  *)
(* way the client shows itself online exactly when the server has the      *)
(* session online: room_handle.status against a_user.online.               *)
StatusAgrees == Settled => (status = "ONLINE" <=> online[fd])

(* The current room is the one the server reported last.  A join of a room *)
(* still in the list would leave cur_room where it was; there never is one *)
(* but the current room, because each room_join unlinks the head.          *)
CurRoomIsLastJoined ==
    Settled /\ Live(cur_room) => RoomOf(cur_room) = lastJoin

(* Each login the server confirms makes the client show itself online, as  *)
(* long as recv() returns one reply at a time.                             *)
LoginIsSeen ==
    [type |-> "LOGIN_SUCCESS"] \in ToSet(replies)
        ~> status = "ONLINE" \/ torn \/ ~Running

=============================================================================
