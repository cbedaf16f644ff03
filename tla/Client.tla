-------------------------------- MODULE Client --------------------------------
(***************************************************************************)
(* The client program (dtalk_c): the main thread makes requests of what    *)
(* the user types (get_input, construct_message), the send thread writes   *)
(* them, and the receive thread takes what one recv() returned for one     *)
(* reply and acts on it (msg_recv_func, process_recv_buf).  The main and   *)
(* the receive thread share room_handle without a lock.                    *)
(*                                                                         *)
(* heap holds the room nodes room_join has allocated, in order; a pointer  *)
(* is an index into it, and a freed node stays there with live = FALSE:    *)
(* what a read through it finds is up to the allocator.                    *)
(* The queue of requests is module MsgList's, its operations atomic here.  *)
(***************************************************************************)
EXTENDS Integers, SequencesExt

CONSTANTS
    Rooms,       \* names the server has a room for
    OtherRooms,  \* names it has none for
    Mangled,     \* a name that a wrong reply boundary has changed
    NULL,
    Fragment,    \* what is left of a reply once its head was read
    MaxPerRead,  \* bound: replies one recv() can return
    SplitReads,  \* whether a recv() can end inside a reply
    MaxLines     \* bound: lines the user types

Names == Rooms \cup OtherRooms

(* The replies that come to a client of this module's commands.            *)
ReplySet ==
    [type : {"LOGIN_SUCCESS", "LOGIN_FAILED", "LOGOUT_SUCCESS",
             "JOIN_ROOM_FAILED", "LEAVE_ROOM_FAILED"}]
        \cup [type : {"JOIN_ROOM_SUCCESS"}, data : Rooms]
        \cup [type : {"LEAVE_ROOM_SUCCESS"}, data : Names]

ASSUME ClientAssumption ==
    /\ Rooms \cap OtherRooms = {}
    /\ Mangled \notin Names
    /\ NULL \notin Nat
    /\ Fragment \notin ReplySet
    /\ MaxPerRead \in Nat \ {0}
    /\ SplitReads \in BOOLEAN
    /\ MaxLines \in Nat

VARIABLES
    client,         \* "running", "exited" or "killed"
    status,         \* room_handle.status
    use_room_list,  \* room_handle.use_room_list
    cur_room,       \* room_handle.cur_room
    heap,           \* the room nodes
    pcMain,         \* "input", "status", "room", "fill"
    pcRecv,         \* "recv", "free", "cur", "ended"
    msgList,        \* requests waiting for the send thread
    lines,          \* how many lines were typed
    conn,           \* "up", or "lost" once the server has closed
    requests,       \* written and not yet read by the server
    replies         \* written by the server and not yet received

roomVars == <<status, use_room_list, cur_room, heap>>
netVars == <<conn, requests, replies>>
clientVars == <<client, roomVars, pcMain, pcRecv, msgList, lines, netVars>>

Running == client = "running"
AnyName == Names \cup {Mangled}
Boundaries == INSTANCE Parsing WITH
    UserNames <- {}, Passwords <- {}, Long <- {}, RoomNames <- Names

RoomOf(node) == heap[node].room
Live(node) == node # NULL /\ heap[node].live

Init ==
    /\ client = "running"
    /\ status = "OFFLINE" /\ use_room_list = <<>> /\ cur_room = NULL /\ heap = <<>>
    /\ pcMain = "input" /\ pcRecv = "recv"
    /\ msgList = <<>> /\ lines = 0
    /\ conn = "up" /\ requests = <<>> /\ replies = <<>>

-----------------------------------------------------------------------------
(* The main thread.                                                        *)
Main(from, to) == Running /\ pcMain = from /\ pcMain' = to

(* add_msglist: behind the head, in front of the rest.                     *)
Enqueue(m) ==
    msgList' = IF msgList = <<>> THEN <<m>>
               ELSE <<Head(msgList), m>> \o Tail(msgList)

(* The requests of the commands, as the fill_* functions make them.  The   *)
(* others have no answer that changes the client.                          *)
Commands ==
    [type : {"LOGIN", "LOGOUT", "OTHER"}]
        \cup [type : {"JOIN_ROOM", "LEAVE_ROOM"}, data : Names]

NewLine == lines < MaxLines /\ lines' = lines + 1

(* A line with a slash reads nothing the other threads write.              *)
TypeCommand ==
    /\ Main("input", "input") /\ NewLine
    /\ \E m \in Commands : Enqueue(m)
    /\ UNCHANGED <<client, roomVars, pcRecv, netVars>>

TypeExit ==
    /\ Main("input", "input") /\ NewLine
    /\ client' = "exited"
    /\ UNCHANGED <<roomVars, pcRecv, msgList, netVars>>

(* get_input refuses any other line while there is no current room.        *)
TypeText ==
    /\ Main("input", "status") /\ NewLine
    /\ cur_room # NULL
    /\ UNCHANGED <<client, roomVars, pcRecv, msgList, netVars>>

(* construct_message looks at the status, at the room and, in              *)
(* fill_message, through the pointer: three reads of shared memory.        *)
CheckStatus ==
    /\ Main("status", IF status = "OFFLINE" THEN "input" ELSE "room")
    /\ UNCHANGED <<client, roomVars, pcRecv, msgList, lines, netVars>>

CheckRoom ==
    /\ Main("room", IF cur_room = NULL THEN "input" ELSE "fill")
    /\ UNCHANGED <<client, roomVars, pcRecv, msgList, lines, netVars>>

FillMessage ==
    /\ Main("fill", "input")
    /\ \E r \in IF Live(cur_room) THEN {RoomOf(cur_room)} ELSE AnyName :
          Enqueue([type |-> "MESSAGE", data |-> r])
    /\ UNCHANGED <<client, roomVars, pcRecv, lines, netVars>>

(* The send thread.  A write to a connection the server has closed is      *)
(* lost, and one after the RST it provokes kills the process.              *)
Send ==
    /\ Running /\ msgList # <<>>
    /\ msgList' = Tail(msgList)
    /\ \/ conn = "up" /\ requests' = Append(requests, Head(msgList))
          /\ UNCHANGED client
       \/ conn = "lost" /\ client' \in {"running", "killed"}
          /\ UNCHANGED requests
    /\ UNCHANGED <<roomVars, pcMain, pcRecv, lines, conn, replies>>

-----------------------------------------------------------------------------
(* The receive thread.                                                     *)
Recv(from, to) == Running /\ pcRecv = from /\ pcRecv' = to

(* Mutants: the new node goes in front of the whole list; the current room *)
(* is forgotten together with the list.                                    *)
MutLink(node) == <<node>> \o use_room_list
MutRoomDestory ==
    /\ Recv("free", "recv")
    /\ heap' = [n \in DOMAIN heap |-> [heap[n] EXCEPT !.live = FALSE]]
    /\ use_room_list' = <<>> /\ cur_room' = NULL
    /\ UNCHANGED <<client, status, pcMain, msgList, lines, netVars>>

(* room_join: the new node's next is the old head's next.                  *)
Link(node) ==
    <<node>> \o (IF use_room_list = <<>> THEN <<>> ELSE Tail(use_room_list))

AlreadyJoined(r) == \E n \in ToSet(use_room_list) : n \in DOMAIN heap /\ RoomOf(n) = r

(* room_join up to its last line.  A mangled name may be longer than       *)
(* room_name, and is written past its end.                                 *)
RoomJoin(r) ==
    \/ /\ AlreadyJoined(r) /\ Recv("recv", "recv")
       /\ UNCHANGED <<client, roomVars>>
    \/ /\ ~AlreadyJoined(r) /\ Recv("recv", "cur")
       /\ heap' = Append(heap, [room |-> r, live |-> TRUE])
       /\ use_room_list' = Link(Len(heap) + 1)
       /\ client' \in IF r = Mangled THEN {"running", "killed"} ELSE {"running"}
       /\ UNCHANGED <<status, cur_room>>

(* Mutant: the pointer behind the new node.                                *)
MutSetCurRoom ==
    /\ Recv("cur", "recv")
    /\ cur_room' = Len(heap) + 1
    /\ UNCHANGED <<client, status, use_room_list, heap, pcMain, msgList, lines, netVars>>

SetCurRoom ==
    /\ Recv("cur", "recv")
    /\ cur_room' = Len(heap)
    /\ UNCHANGED <<client, status, use_room_list, heap, pcMain, msgList, lines, netVars>>

(* Mutants: no reset of the status; a login that is only printed.          *)
MutLogoutSuccess == Recv("recv", "free") /\ UNCHANGED <<client, roomVars>>
MutLoginSuccess == Recv("recv", "recv") /\ UNCHANGED <<client, roomVars>>

LoginSuccess ==
    /\ Recv("recv", "recv")
    /\ status' = "ONLINE"
    /\ UNCHANGED <<client, use_room_list, cur_room, heap>>

LogoutSuccess ==
    /\ Recv("recv", "free")
    /\ status' = "OFFLINE"
    /\ UNCHANGED <<client, use_room_list, cur_room, heap>>

(* room_destory: every node in the list is freed; cur_room keeps its       *)
(* value.  A node that Link dropped is in no list and is never freed.      *)
RoomDestory ==
    /\ Recv("free", "recv")
    /\ heap' = [n \in DOMAIN heap |->
                  [heap[n] EXCEPT !.live = @ /\ n \notin ToSet(use_room_list)]]
    /\ use_room_list' = <<>>
    /\ UNCHANGED <<client, status, cur_room, pcMain, msgList, lines, netVars>>

(* process_message: LEAVE_ROOM_SUCCESS has no case of its own, and the     *)
(* handlers of the other types do nothing.                                 *)
ProcessMessage(m) ==
    \/ m.type = "LOGIN_SUCCESS" /\ LoginSuccess
    \/ m.type = "LOGOUT_SUCCESS" /\ LogoutSuccess
    \/ m.type = "JOIN_ROOM_SUCCESS" /\ RoomJoin(m.data)
    \/ /\ m.type \notin {"LOGIN_SUCCESS", "LOGOUT_SUCCESS", "JOIN_ROOM_SUCCESS"}
       /\ Recv("recv", "recv")
       /\ UNCHANGED <<client, roomVars>>

(* Fewer than two bytes make no message, and NULL is followed.             *)
Runt == Recv("recv", "recv") /\ client' = "killed" /\ UNCHANGED roomVars

(* process_recv_buf: whatever recv() returned is one reply; the second and *)
(* later ones in it are gone.                                              *)
ProcessRecvBuf(n, cut) ==
    LET m == Head(replies)
    IN  \/ m # Fragment /\ \E p \in Boundaries!Parsed(m, n, cut) : ProcessMessage(p)
        \/ n = 1 /\ cut /\ Runt
        \/ m = Fragment /\ Recv("recv", "recv") /\ UNCHANGED <<client, roomVars>>
        \/ m = Fragment /\ Runt

RecvReplies ==
    /\ \E n \in 1 .. MaxPerRead, cut \in {FALSE, SplitReads} :
          /\ n <= Len(replies)
          /\ ProcessRecvBuf(n, cut)
          /\ replies' = (IF cut THEN <<Fragment>> ELSE <<>>)
                            \o SubSeq(replies, n + 1, Len(replies))
    /\ UNCHANGED <<pcMain, msgList, lines, conn, requests>>

(* The connection was reset.  After an orderly end recv() returns 0 for    *)
(* good, and the loop goes round: no change.                               *)
RecvError ==
    /\ Recv("recv", "ended")
    /\ conn = "lost" /\ replies = <<>>
    /\ UNCHANGED <<client, roomVars, pcMain, msgList, lines, netVars>>

MainStep == CheckStatus \/ CheckRoom \/ FillMessage
RecvStep == RecvReplies \/ SetCurRoom \/ RoomDestory
UserStep == TypeCommand \/ TypeExit \/ TypeText

-----------------------------------------------------------------------------
(* Type invariant.                                                         *)
TypeOK ==
    /\ client \in {"running", "exited", "killed"}
    /\ status \in {"OFFLINE", "ONLINE"}
    /\ heap \in Seq([room : AnyName, live : BOOLEAN])
    /\ use_room_list \in Seq(DOMAIN heap)
    /\ cur_room \in DOMAIN heap \cup {NULL}
    /\ pcMain \in {"input", "status", "room", "fill"}
    /\ pcRecv \in {"recv", "free", "cur", "ended"}
    /\ conn \in {"up", "lost"}
    /\ lines \in 0 .. MaxLines

(* Although cur_room is tested in one place and followed in another, with  *)
(* the receive thread running in between, the pointer followed is never    *)
(* NULL: no handler of a reply takes a current room away again.            *)
NullIsNeverFollowed == pcMain = "fill" => cur_room # NULL

=============================================================================
