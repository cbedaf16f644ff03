-------------------------------- MODULE Daemon --------------------------------
(***************************************************************************)
(* The server (daemon.c): its single listener thread, the sockets it       *)
(* watches with edge-triggered epoll, the clients at their other ends, the *)
(* user accounts in the database and, through OnlineTables, the tables the *)
(* command handlers work on.                                               *)
(*                                                                         *)
(* A connection is known by its descriptor, which the kernel hands out     *)
(* again after a close.  stream[fd] holds the requests the client wrote    *)
(* and the server has not read: TCP keeps their order and not their        *)
(* boundaries, so one read() may return several of them, or part of one,   *)
(* and process_packet takes what one read() returned for one request: what *)
(* it finds is Parsed of module Parsing, and module Wire shows why.        *)
(* UserNames and Passwords are those clients send or open_db creates.      *)
(* Texts are kept whole: of one of MAX_USERNAME_SIZE characters or more a  *)
(* slot only has the beginning, and nothing compares what a slot has.      *)
(*                                                                         *)
(* The database's statements are made by sprintf with nothing escaped, so  *)
(* what one that holds a quote says is not known here: as a lookup it may  *)
(* find an account or none, and as create_user's insert, which             *)
(* sqlite3_exec runs to the end of the text, it may leave any accounts.    *)
(*                                                                         *)
(* The kernel's side is external code: accept() returns the lowest free    *)
(* descriptor and fails when there is none; new data, a FIN, a RST or a    *)
(* new connection puts a descriptor on epoll's ready list; epoll_wait      *)
(* returns what is on that list with the events that hold at that moment,  *)
(* and takes it off; read() returns queued data first, then EOF after a    *)
(* FIN, the error after a RST that no FIN preceded, EAGAIN otherwise.      *)
(***************************************************************************)
EXTENDS Parsing, Integers, Sequences, FiniteSets

CONSTANTS
    server_fd,      \* the listening socket
    Fds, MaxOnlineUsers, Rooms, OtherRooms, Erased, Garbage, Wild, FreshHeads,
    Forbidden,      \* names create_user refuses: admin, all, login
    DefaultUsers,   \* accounts open_db creates, name |-> password
    NoUser,         \* in place of the password of a name without account
    Requests,       \* the requests clients write
    Fragment,       \* what is left of a request once its head was read
    Quoted,         \* the texts that hold a quote, which the statements do not escape
    SpliceResults,  \* bound: what users may be after an insert with a quote in it
    SqlMayFail,     \* whether a statement can fail for want of the file or its lock
    MaxPerRead,     \* bound: requests one read() can return
    SplitReads,     \* whether a read() can end inside a request
    MaxClientOps    \* bound: connects, writes, closes and resets, in all

RequestSet ==
    [type : {"JOIN", "LOGIN"}, data : [name : UserNames, password : Passwords]]
        \cup [type : {"JOIN_ROOM", "LEAVE_ROOM"}, data : RoomNames]
        \cup [type : {"LOGOUT", "LIST_ROOMS", "ECHO", "OTHER", "UNKNOWN_TYPE"},
              data : {Mangled}]

ASSUME DaemonAssumption ==
    /\ Fds \subseteq Nat /\ server_fd \in Nat \ Fds
    /\ MaxOnlineUsers \in Nat
    /\ Requests \subseteq RequestSet /\ Fragment \notin Requests
    /\ Rooms \cap OtherRooms = {} /\ RoomNames = Rooms \cup OtherRooms
    /\ Mangled \notin UserNames \cup Passwords \cup RoomNames
    /\ Wild \notin RoomNames \cup {Mangled}
    /\ {Erased, Garbage} \cap (Passwords \cup {Mangled}) = {}
    /\ FreshHeads \subseteq {<<>>, <<Wild>>} /\ <<>> \in FreshHeads
    /\ Forbidden \subseteq UserNames
    /\ NoUser \notin Passwords
    /\ Quoted \subseteq UserNames \cup Passwords \cup {Mangled}
    /\ SpliceResults \subseteq [UserNames \cup {Mangled} -> Passwords \cup {Mangled, NoUser}]
    /\ DOMAIN DefaultUsers \subseteq UserNames
    /\ \A u \in DOMAIN DefaultUsers : DefaultUsers[u] \in Passwords
    /\ {SqlMayFail, SplitReads} \subseteq BOOLEAN
    /\ MaxPerRead \in Nat \ {0}
    /\ MaxClientOps \in Nat

VARIABLES
    online, username, joined, members, status,  \* see OnlineTables
    users,      \* table users of the database
    spliced,    \* history: slots whose account a text with a quote may have feigned
    peer,       \* the connection behind a descriptor, "none" if it is free
    stream,     \* what the client wrote and the server has not read
    backlog,    \* connections waiting for accept()
    edges,      \* epoll's ready list
    batch,      \* what epoll_wait returned and the loop has not handled yet
    pc,         \* where the listener is: "wait", "events", "accept", "read"
    current,    \* current_fd, while pc is "read"
    sent,       \* packets handed to write() by the last step
    ops,        \* what the clients have done so far
    leaked,     \* history: slots whose connection was closed without logout
    starved     \* history: accept() failed while a connection was waiting

tables == <<online, username, joined, members, status>>
accounts == <<users, spliced>>
sockets == <<peer, stream, backlog, edges>>
vars == <<tables, accounts, sockets, batch, pc, current, sent, ops, leaked, starved>>

Stored == Passwords \cup {Mangled}

Tables == INSTANCE OnlineTables
              WITH Names <- Stored, MaxJoined <- MaxClientOps,
                   OtherRooms <- OtherRooms \cup {Mangled}

Open == {fd \in Fds : peer[fd] # "none"}
Free == Fds \ Open
Running == status = "running"

-----------------------------------------------------------------------------
(* daemon_init: the tables, the rooms, the default users and the socket.   *)
FreshSockets ==
    /\ peer = [fd \in Fds |-> "none"]
    /\ stream = [fd \in Fds |-> <<>>]
    /\ backlog = 0
    /\ edges = {}
    /\ batch = {}
    /\ pc = "wait"
    /\ current = server_fd
    /\ sent = <<>>
    /\ leaked = {}
    /\ starved = FALSE

Init ==
    /\ Tables!Init
    /\ FreshSockets
    /\ users = [u \in UserNames \cup {Mangled} |->
                   IF u \in DOMAIN DefaultUsers THEN DefaultUsers[u] ELSE NoUser]
    /\ spliced = {}
    /\ ops = 0

(* main() again after the process died.  create_default_user_room finds    *)
(* the accounts of the last run, and only adds what is missing.            *)
Restart ==
    /\ Tables!Restart
    /\ peer' = [fd \in Fds |-> "none"]
    /\ stream' = [fd \in Fds |-> <<>>]
    /\ backlog' = 0
    /\ edges' = {} /\ batch' = {}
    /\ pc' = "wait" /\ current' = server_fd
    /\ sent' = <<>>
    /\ leaked' = {} /\ spliced' = {} /\ starved' = FALSE
    /\ UNCHANGED <<users, ops>>

-----------------------------------------------------------------------------
(* The clients and the network.                                            *)
ClientStep ==
    /\ Running
    /\ ops < MaxClientOps
    /\ ops' = ops + 1
    /\ UNCHANGED <<tables, accounts, batch, pc, current, sent, leaked, starved>>

Connect ==
    /\ ClientStep
    /\ backlog' = backlog + 1
    /\ edges' = edges \cup {server_fd}
    /\ UNCHANGED <<peer, stream>>

Write(fd, m) ==
    /\ peer[fd] = "open"
    /\ ClientStep
    /\ stream' = [stream EXCEPT ![fd] = Append(@, m)]
    /\ edges' = edges \cup {fd}
    /\ UNCHANGED <<peer, backlog>>

(* The client's close() or exit: what it wrote still arrives before it.    *)
CloseClient(fd) ==
    /\ peer[fd] = "open"
    /\ ClientStep
    /\ peer' = [peer EXCEPT ![fd] = "fin"]
    /\ edges' = edges \cup {fd}
    /\ UNCHANGED <<stream, backlog>>

(* A RST: the client died, or got data on a socket it had closed.          *)
ResetClient(fd) ==
    /\ peer[fd] \in {"open", "fin"}
    /\ ClientStep
    /\ peer' = [peer EXCEPT ![fd] = IF @ = "open" THEN "rst" ELSE "finrst"]
    /\ edges' = edges \cup {fd}
    /\ UNCHANGED <<stream, backlog>>

-----------------------------------------------------------------------------
(* create_user and check_user (database.c).                                *)
KnownUser(u) == users[u] # NoUser
Quotes(c) == {c.name, c.password} \cap Quoted # {}

JoinResults(c) ==
    (IF c.name \in Forbidden THEN {"JOIN_FAILED"} ELSE {"JOIN_SUCCESS"})
        \cup (IF SqlMayFail \/ Quotes(c) THEN {"JOIN_FAILED"} ELSE {})

(* Mutants: no look for a duplicate; no comparison of the password.        *)
MutCreateUser(c, result) ==
    /\ users' = IF result = "JOIN_SUCCESS"
                THEN [users EXCEPT ![c.name] = c.password] ELSE users
    /\ UNCHANGED spliced
MutCheckUser(c) == KnownUser(c.name)

CreateUser(c, result) ==
    LET found == c.name \notin Quoted /\ KnownUser(c.name)
    IN  IF Quotes(c) /\ c.name \notin Forbidden /\ ~found
        THEN users' \in SpliceResults \cup {users} /\ spliced' = Fds
        ELSE /\ users' = IF result = "JOIN_SUCCESS" /\ ~found
                         THEN [users EXCEPT ![c.name] = c.password]
                         ELSE users
             /\ UNCHANGED spliced

(* For a name and a password without a quote.                              *)
CheckUser(c) == KnownUser(c.name) /\ users[c.name] = c.password

Reply(fd, type) == <<[to |-> fd, type |-> type]>>
NoFd == -1   \* the fd of a message that nobody has set

(* The handlers.  Each is given what process_packet made of the packet.    *)
HandleJoin(fd, c) ==
    /\ \E result \in JoinResults(c) :
          /\ CreateUser(c, result)
          /\ sent' = Reply(NoFd, result)
    /\ UNCHANGED tables

(* Mutant: the password is checked, and what came of it ignored.           *)
MutHandleLogin(fd, c) ==
    /\ IF CheckUser(c) THEN Tables!Login(fd, c.password) ELSE UNCHANGED tables
    /\ sent' = Reply(fd, "LOGIN_SUCCESS")
    /\ UNCHANGED accounts

HandleLogin(fd, c) ==
    /\ \/ /\ CheckUser(c) \/ Quotes(c)
          /\ Tables!Login(fd, c.password)
          /\ spliced' = IF Quotes(c) THEN spliced \cup {fd} ELSE spliced \ {fd}
          /\ sent' = Reply(fd, "LOGIN_SUCCESS")
       \/ /\ ~CheckUser(c) \/ Quotes(c) \/ SqlMayFail \/ Mangled \in {c.name, c.password}
          /\ sent' = Reply(fd, "LOGIN_FAILED")
          /\ UNCHANGED <<tables, spliced>>
    /\ UNCHANGED users

HandleLogout(fd) ==
    /\ Tables!Logout(fd)
    /\ sent' = IF status' = "running" THEN Reply(fd, "LOGOUT_SUCCESS") ELSE <<>>
    /\ UNCHANGED accounts

HandleJoinRoom(fd, r) ==
    /\ Tables!JoinRoom(fd, r)
    /\ sent' = Reply(fd, IF Tables!JoinSucceeds(r) THEN "JOIN_ROOM_SUCCESS"
                                                   ELSE "JOIN_ROOM_FAILED")
    /\ UNCHANGED accounts

HandleLeaveRoom(fd, r) ==
    /\ Tables!LeaveRoom(fd, r)
    /\ sent' = Reply(fd, IF Tables!LeaveSucceeds(fd, r) THEN "LEAVE_ROOM_SUCCESS"
                                                        ELSE "LEAVE_ROOM_FAILED")
    /\ UNCHANGED accounts

(* One packet for each room.                                               *)
HandleListRooms(fd) ==
    /\ sent' = [i \in 1 .. Cardinality(Rooms) |->
                  [to |-> fd, type |-> "LIST_ROOMS_SUCCESS"]]
    /\ UNCHANGED <<tables, accounts>>

(* message.c has names for the types below 26: printing that of ECHO, or   *)
(* of any other byte above, reads past the array.  UNKNOWN_TYPE stands for *)
(* those bytes, of types that no handler is for and of no type at all.     *)
HandleEcho(fd) ==
    /\ \/ sent' = Reply(fd, "ECHO") /\ UNCHANGED tables
       \/ sent' = <<>> /\ Tables!Undefined
    /\ UNCHANGED accounts

HandleUnknownType ==
    /\ sent' = <<>>
    /\ UNCHANGED tables \/ Tables!Undefined
    /\ UNCHANGED accounts

(* MESSAGE, LIST_USERS and the types process_message does not know and     *)
(* message.c has a name for.                                               *)
HandleOther == sent' = <<>> /\ UNCHANGED <<tables, accounts>>

(* The listener reads through a NULL message, or aborts.                   *)
Crash ==
    /\ status' = "crashed"
    /\ sent' = <<>>
    /\ UNCHANGED <<online, username, joined, members, accounts>>

ProcessMessage(fd, m) ==
    \/ m.type = "JOIN" /\ HandleJoin(fd, m.data)
    \/ m.type = "LOGIN" /\ HandleLogin(fd, m.data)
    \/ m.type = "LOGOUT" /\ HandleLogout(fd)
    \/ m.type = "JOIN_ROOM" /\ HandleJoinRoom(fd, m.data)
    \/ m.type = "LEAVE_ROOM" /\ HandleLeaveRoom(fd, m.data)
    \/ m.type = "LIST_ROOMS" /\ HandleListRooms(fd)
    \/ m.type = "ECHO" /\ HandleEcho(fd)
    \/ m.type = "UNKNOWN_TYPE" /\ HandleUnknownType
    \/ m.type = "OTHER" /\ HandleOther

(* sscanf writes past the end of user_t a field of a request that has too  *)
(* long a one, or a password that ran into the next request; the handler   *)
(* survives that, or finds out when it returns.                            *)
TooLong(m) == NamesUser(m) /\ {m.data.name, m.data.password} \cap Long # {}

Overrun(m) ==
    /\ NamesUser(m)
    /\ m.type = "JOIN" => \E result \in JoinResults(m.data) : CreateUser(m.data, result)
    /\ m.type = "LOGIN" => UNCHANGED accounts
    /\ status' = "crashed"
    /\ sent' = <<>>
    /\ UNCHANGED <<online, username, joined, members>>

(* Mutant: a packet of just a header counts as malformed.                  *)
MutProcessPacket(fd, n, cut) ==
    LET m == Head(stream[fd])
    IN  \/ m.type # "LOGOUT" /\ \E p \in Parsed(m, n, cut) : ProcessMessage(fd, p)
        \/ m.type = "LOGOUT" /\ Crash

(* process_packet for the n requests, the last of them possibly in part,   *)
(* that one read() returned.  A piece without the two bytes of a header    *)
(* makes message_create_from_packet return NULL; the type of a fragment    *)
(* is a character of the request's data, past the end of the array.        *)
ProcessPacket(fd, n, cut) ==
    LET m == Head(stream[fd])
    IN  \/ m # Fragment /\ \E p \in Parsed(m, n, cut) : ProcessMessage(fd, p)
        \/ /\ m # Fragment
           /\ n > 1 \/ TooLong(m)
           /\ \E p \in Parsed(m, n, cut) : Overrun(p)
        \/ m # Fragment /\ n = 1 /\ cut /\ Crash
        \/ m = Fragment /\ (HandleOther \/ Crash)

-----------------------------------------------------------------------------
(* The listener.                                                           *)
Readable(fd) == stream[fd] # <<>> \/ peer[fd] # "open"

Events ==
    {<<fd, "hup">> : fd \in {f \in edges \cap Open : peer[f] \in {"rst", "finrst"}}}
    \cup {<<fd, "in">> : fd \in {f \in edges \cap Open :
                                   Readable(f) /\ peer[f] \in {"open", "fin"}}}
    \cup (IF server_fd \in edges /\ backlog > 0 THEN {<<server_fd, "in">>} ELSE {})

EpollWait ==
    /\ Running
    /\ pc = "wait"
    /\ Events # {}
    /\ batch' = Events
    /\ edges' = {}
    /\ pc' = "events"
    /\ sent' = <<>>
    /\ UNCHANGED <<tables, accounts, peer, stream, backlog, current, ops, leaked, starved>>

BatchDone ==
    /\ Running
    /\ pc = "events" /\ batch = {}
    /\ pc' = "wait"
    /\ sent' = <<>>
    /\ UNCHANGED <<tables, accounts, sockets, batch, current, ops, leaked, starved>>

(* The descriptor is closed: the kernel drops what was queued on it, and   *)
(* epoll forgets it.                                                       *)
Close(fd) ==
    /\ peer' = [peer EXCEPT ![fd] = "none"]
    /\ stream' = [stream EXCEPT ![fd] = <<>>]
    /\ edges' = edges \ {fd}
    /\ UNCHANGED backlog

(* The first branch: EPOLLERR or EPOLLHUP.  The session stays in its slot. *)
CloseOnError ==
    /\ Running /\ pc = "events"
    /\ \E fd \in Fds :
          /\ <<fd, "hup">> \in batch
          /\ Close(fd)
          /\ batch' = batch \ {<<fd, "hup">>}
          /\ leaked' = leaked \cup {fd}
    /\ sent' = <<>>
    /\ UNCHANGED <<tables, accounts, pc, current, ops, starved>>

StartAccept ==
    /\ Running /\ pc = "events"
    /\ <<server_fd, "in">> \in batch
    /\ batch' = batch \ {<<server_fd, "in">>}
    /\ pc' = "accept"
    /\ sent' = <<>>
    /\ UNCHANGED <<tables, accounts, sockets, current, ops, leaked, starved>>

(* Mutant: one accept for one event.                                       *)
MutAccept ==
    /\ Running /\ pc = "accept"
    /\ backlog > 0 /\ Free # {}
    /\ LET fd == CHOOSE f \in Free : \A g \in Free : f <= g
       IN  peer' = [peer EXCEPT ![fd] = "open"]
    /\ backlog' = backlog - 1
    /\ pc' = "events"
    /\ sent' = <<>>
    /\ UNCHANGED <<tables, accounts, stream, edges, batch, current, ops, leaked, starved>>

(* One turn of the accept loop.  Nothing is cleared in the slot the new    *)
(* connection's descriptor selects.                                        *)
Accept ==
    /\ Running /\ pc = "accept"
    /\ backlog > 0 /\ Free # {}
    /\ LET fd == CHOOSE f \in Free : \A g \in Free : f <= g
       IN  peer' = [peer EXCEPT ![fd] = "open"]
    /\ backlog' = backlog - 1
    /\ sent' = <<>>
    /\ UNCHANGED <<tables, accounts, stream, edges, batch, pc, current, ops, leaked, starved>>

(* EAGAIN, or any other error: back to the events.                         *)
AcceptFails ==
    /\ Running /\ pc = "accept"
    /\ backlog = 0 \/ Free = {}
    /\ pc' = "events"
    /\ starved' = (starved \/ backlog > 0)
    /\ sent' = <<>>
    /\ UNCHANGED <<tables, accounts, sockets, batch, current, ops, leaked>>

(* Mutant: the event is not done with when its read loop starts.           *)
MutStartRead ==
    /\ Running /\ pc = "events"
    /\ \E fd \in Fds : <<fd, "in">> \in batch /\ current' = fd
    /\ pc' = "read"
    /\ sent' = <<>>
    /\ UNCHANGED <<tables, accounts, sockets, batch, ops, leaked, starved>>

StartRead ==
    /\ Running /\ pc = "events"
    /\ \E fd \in Fds :
          /\ <<fd, "in">> \in batch
          /\ batch' = batch \ {<<fd, "in">>}
          /\ current' = fd
    /\ pc' = "read"
    /\ sent' = <<>>
    /\ UNCHANGED <<tables, accounts, sockets, ops, leaked, starved>>

(* Mutant: one read for one event.                                         *)
MutReadPacket ==
    /\ Running /\ pc = "read"
    /\ stream[current] # <<>>
    /\ stream' = [stream EXCEPT ![current] = Tail(@)]
    /\ ProcessPacket(current, 1, FALSE)
    /\ pc' = "events" /\ current' = server_fd
    /\ UNCHANGED <<peer, backlog, edges, batch, ops, leaked, starved>>

(* read() returned data: n requests, or n - 1 and the head of another,     *)
(* which is cut once at most (a bound).                                    *)
ReadPacket ==
    /\ Running /\ pc = "read"
    /\ \E n \in 1 .. MaxPerRead, cut \in {FALSE, SplitReads} :
          /\ n <= Len(stream[current])
          /\ cut => stream[current][n] # Fragment
          /\ stream' = [stream EXCEPT ![current] =
                          IF cut THEN <<Fragment>> \o SubSeq(@, n + 1, Len(@))
                                 ELSE SubSeq(@, n + 1, Len(@))]
          /\ ProcessPacket(current, n, cut)
    /\ UNCHANGED <<peer, backlog, edges, batch, pc, current, ops, leaked, starved>>

ReadAgain ==
    /\ Running /\ pc = "read"
    /\ stream[current] = <<>> /\ peer[current] = "open"
    /\ pc' = "events"
    /\ current' = server_fd
    /\ sent' = <<>>
    /\ UNCHANGED <<tables, accounts, sockets, batch, ops, leaked, starved>>

(* Mutants of the end of a connection: no logout; no break out of the      *)
(* loop; nothing at all, as after EAGAIN.                                  *)
MutReadEofNoLogout ==
    /\ Running /\ pc = "read"
    /\ stream[current] = <<>> /\ peer[current] \in {"fin", "finrst"}
    /\ Close(current)
    /\ pc' = "events" /\ current' = server_fd
    /\ sent' = <<>>
    /\ UNCHANGED <<tables, accounts, batch, ops, leaked, starved>>
MutReadEofNoBreak ==
    /\ Running /\ pc = "read"
    /\ stream[current] = <<>> /\ peer[current] \in {"fin", "finrst"}
    /\ Tables!Logout(current)
    /\ Close(current)
    /\ sent' = <<>>
    /\ UNCHANGED <<accounts, batch, pc, current, ops, leaked, starved>>
MutReadEofIgnored ==
    /\ Running /\ pc = "read"
    /\ stream[current] = <<>> /\ peer[current] \in {"fin", "finrst"}
    /\ pc' = "events" /\ current' = server_fd
    /\ sent' = <<>>
    /\ UNCHANGED <<tables, accounts, sockets, batch, ops, leaked, starved>>

(* read() returned 0: handle_logout_closefd, then close.                   *)
ReadEof ==
    /\ Running /\ pc = "read"
    /\ stream[current] = <<>> /\ peer[current] \in {"fin", "finrst"}
    /\ Tables!Logout(current)
    /\ Close(current)
    /\ leaked' = leaked \ {current}
    /\ pc' = "events"
    /\ current' = server_fd
    /\ sent' = <<>>
    /\ UNCHANGED <<accounts, batch, ops, starved>>

(* read() failed: done is set, but the loop goes on to process_packet,     *)
(* with the count -1.                                                      *)
ReadError ==
    /\ Running /\ pc = "read"
    /\ stream[current] = <<>> /\ peer[current] = "rst"
    /\ Crash
    /\ UNCHANGED <<sockets, batch, pc, current, ops, leaked, starved>>

-----------------------------------------------------------------------------
Clients ==
    \/ Connect
    \/ \E fd \in Fds, m \in Requests : Write(fd, m)
    \/ \E fd \in Fds : CloseClient(fd)
    \/ \E fd \in Fds : ResetClient(fd)

ListenerStep ==
    \/ EpollWait \/ BatchDone
    \/ CloseOnError
    \/ StartAccept \/ Accept \/ AcceptFails
    \/ StartRead \/ ReadPacket \/ ReadAgain \/ ReadEof \/ ReadError

Next == Clients \/ ListenerStep \/ Restart

Spec == Init /\ [][Next]_vars

(* The listener is a thread the scheduler runs; clients may stop anywhere, *)
(* and nobody has to start the server again.                               *)
FairSpec == Spec /\ WF_vars(ListenerStep)

-----------------------------------------------------------------------------
(* Type invariant.                                                         *)
TypeOK ==
    /\ Tables!TypeOK
    /\ users \in [UserNames \cup {Mangled} -> Stored \cup {NoUser}]
    /\ spliced \subseteq Fds
    /\ peer \in [Fds -> {"none", "open", "fin", "rst", "finrst"}]
    /\ stream \in [Fds -> Seq(Requests \cup {Fragment})]
    /\ \A fd \in Free : stream[fd] = <<>>
    /\ backlog \in 0 .. MaxClientOps
    /\ edges \subseteq Open \cup {server_fd}
    /\ batch \subseteq (Fds \X {"in", "hup"}) \cup {<<server_fd, "in">>}
    /\ pc \in {"wait", "events", "accept", "read"}
    /\ current \in IF pc = "read" THEN Open ELSE {server_fd}
    /\ ops \in 0 .. MaxClientOps
    /\ leaked \subseteq Fds
    /\ starved \in BOOLEAN

(* An event the loop still has to handle is for the connection it was      *)
(* reported for: although a descriptor may be closed, and handed out again *)
(* by accept, in the middle of a batch, no stale event for it is left.     *)
EventsAreForOpenFds ==
    \A event \in batch : event[1] = server_fd \/ peer[event[1]] # "none"

(* A descriptor nobody is connected to selects a slot in its initial state *)
(* unless its last connection ended in an error: a client that logs in,    *)
(* joins and disconnects in any order of packets leaves nothing behind.    *)
OrderlyCloseClears ==
    Running => \A fd \in (Tables!Slots \cap Free) \ leaked :
                  ~online[fd] /\ joined[fd] \in FreshHeads

(* What an online slot carries is the password of some account: no order   *)
(* of JOIN, LOGIN, closes, mangled packets and restarts puts a slot online *)
(* without a check that is still true, as long as no text with a quote     *)
(* came in: with such a name or password check_user may return 0 for what  *)
(* is no account's, and create_user may withdraw an account.               *)
OnlineImpliesAccount ==
    \A fd \in Tables!Slots \ spliced :
        online[fd] => username[fd] \in {users[u] : u \in DOMAIN users}

(* A read() that cannot be taken for one request without harm: it ends or  *)
(* starts inside one, or another one follows a password in it.             *)
TornRead ==
    LET before == stream[current] after == stream'[current]
    IN  \/ \E s \in {before, after} : s # <<>> /\ Head(s) = Fragment
        \/ /\ Len(after) < Len(before) - 1
           /\ Head(before).type \in {"JOIN", "LOGIN"}

(* JOIN answers JOIN_SUCCESS for an account that exists, but neither it    *)
(* nor a restart nor anything else changes or removes the account, except  *)
(* that the insert of a JOIN with a quote in it, or in what a torn read or *)
(* too long a field makes of it, may do anything.                          *)
MayQuote(m) == Quotes(m.data) \/ (Quoted # {} /\ (TornRead \/ TooLong(m)))

AccountsAreForever ==
    [][\A u \in DOMAIN users :
          users[u] # NoUser =>
              \/ users'[u] = users[u]
              \/ /\ pc = "read" /\ stream[current] # <<>>
                 /\ Head(stream[current]).type = "JOIN"
                 /\ MayQuote(Head(stream[current]))]_vars

Told(fd, type) == [to |-> fd, type |-> type] \in {sent[i] : i \in DOMAIN sent}

(* Whatever a read is taken for, a reply goes to the connection that was   *)
(* read, but the one to a registration, which goes to no descriptor; and   *)
(* what it tells the client is so: who is told of a login is online, who   *)
(* is told of a logout is not and holds no room, and who is told of a join *)
(* holds a room that lists him.  Above the limit of slots none of it is.   *)
RepliesAreTrue ==
    Running =>
        /\ \A i \in DOMAIN sent :
              IF sent[i].type \in {"JOIN_SUCCESS", "JOIN_FAILED"}
              THEN sent[i].to = NoFd ELSE pc = "read" /\ sent[i].to = current
        /\ \A fd \in Tables!Slots :
              /\ Told(fd, "LOGIN_SUCCESS") => online[fd]
              /\ Told(fd, "LOGOUT_SUCCESS") => ~online[fd] /\ joined[fd] = <<>>
              /\ Told(fd, "JOIN_ROOM_SUCCESS") =>
                    \E r \in Rooms : Tables!Holds(fd, r) /\ Tables!Listed(fd, r)

(* The listener dies only while it reads a connection, of one of these:    *)
(* the session holds a room (or an unset list) when it ends or leaves a    *)
(* room; the connection was reset after epoll_wait reported data; its      *)
(* descriptor has no slot; the request is an ECHO or of another type that  *)
(* has no name in message.c, and is printed from past the end of the array,*)
(* or a JOIN or LOGIN with a field that does not fit in user_t; the read   *)
(* was torn.                                                               *)
KnownCausesOfDeath ==
    [][Running /\ ~Running' =>
          /\ pc = "read"
          /\ \/ current \notin Tables!Slots
             \/ Tables!Logout(current) /\ joined[current] # <<>>
             \/ Tables!Holds(current, Wild)
             \/ stream[current] = <<>> /\ peer[current] = "rst"
             \/ /\ stream[current] # <<>>
                /\ \/ Head(stream[current]).type \in {"ECHO", "UNKNOWN_TYPE"}
                   \/ TooLong(Head(stream[current]))
             \/ TornRead]_vars

(* The loop reads until EAGAIN, so under edge-triggered epoll no request   *)
(* stays in a socket, also one that arrives while others are read.         *)
RequestsAreRead ==
    \A fd \in Fds : Running /\ stream[fd] # <<>> ~> ~Running \/ stream[fd] = <<>>

(* A client that has gone has its descriptor closed, whichever way it went *)
(* and whenever the listener finds out.                                    *)
GonePeersAreClosed ==
    \A fd \in Fds : Running /\ peer[fd] \in {"fin", "rst", "finrst"}
                       ~> ~Running \/ peer[fd] = "none"

(* A connection is accepted, unless accept() has failed for want of a      *)
(* descriptor: the listening socket too is edge-triggered, and the loop    *)
(* does not come back to it when a descriptor is free again.               *)
ConnectionsAreAccepted ==
    Running /\ backlog > 0 ~> ~Running \/ backlog = 0 \/ starved
=============================================================================
