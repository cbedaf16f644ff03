# Verification of dtalk

dtalk is a chat server (`dtalk_s`) and a terminal client (`dtalk_c`) in C. The
server is one process whose listener thread runs an edge-triggered epoll loop
over non-blocking sockets; sqlite holds users and rooms, two in-memory tables
hold who is online and who is in which room. The client has three threads: the
user's, one that sends and one that receives.

This directory holds TLA+ modules translated from that source, the TLC
configurations that check them on small instances, and proofs about them that
TLAPS checks. Paths below are relative to the repository's inner `src/`
directory; `PROJECT.json` maps every definition to its lines.

    tlc -config MCOnlineTables.cfg MCOnlineTables.tla     one run
    tlapm OnlineTables_proofs.tla                         one module of proofs

## 1. Inventory

| component | state it keeps | operations | talks to |
|---|---|---|---|
| online tables (`dtalk_s_lib/online_users.c`, `online_rooms.c`) | `users[MAX_ONLINE_USERS]`: flag, name and room list of a descriptor; list of rooms, each with the descriptors in it | `login`, `logout`, `join_room`, `leave_room`, `add_user_to_room`, `delete_user_from_room`, creation at start | called by the command handlers; each list is edited from the other's file |
| listener and handlers (`dtalk_s_lib/daemon.c`) | the epoll set, the batch of events, the descriptor being read | `listener_func`: error branch, accept loop, read loop; `process_packet`, `process_message`, one `handle_*` per command | kernel (epoll, TCP), tables, database |
| messages and packets (`lib/message.c`, `lib/packet.c`) | the bytes under way, the receive buffer, a payload, the `user_t` on a handler's stack | `get_packet`, `packet_send`; `set_payload`, `message_create_from_packet`, `parse_packet`, `get_username_password` | handlers of both programs |
| database (`lib/database/database.c`) | tables `users` (name is the primary key), `rooms` (no key) and `log`; of each process the handle and the statements it never finalized | `open_db`, `create_default_user_room`, `create_user`, `check_user`, `create_room`, `delete_room`, `save_log`, `list_rooms` | start-up, `handle_join`, `handle_login`; other processes through the file |
| start-up and shutdown (`dtalk_s/dtalk_s.c`, `lib/utils.c`) | the pid file, blocked signals, the bound port | `check_pid`, `run_as_daemon`, `install_signals_handler`, `daemon_init`, `run`, `unlink_pidfile` | kernel, database, listener |
| client send queue (`dtalk_c/deal_request.c`, `dtalk_c.c`) | `msgList`, `msg_mutex`, `msg_num` | `add_msglist`, `remove_msglist`, `sem_post`/`sem_wait` | main and send thread |
| client rooms, commands, replies (`dtalk_c/dtalk_c_room.c`, `deal_request.c`, `deal_reply.c`) | `room_handle`: status, current room, list of rooms, heap nodes | `construct_message`, `process_recv_buf`, `login_success`, `logout_success`, `join_room_success`, `room_join`, `room_destory` | main and receive thread share it without a lock; the server through TCP |
| configuration, logging, colours, `window.c`, vendored lists | read once, or only written out | - | - |

What is hard here, and what would make each component correct:

- **Tables.** Two lists of lists, each edited through the other, with an
  insertion that loses a node, a deletion that can empty a list, a login that
  overwrites a head and a logout that passes a name for a node. The questions:
  who can be in a room's list, when does one disappear from it, when do the two
  tables disagree, what ends the process.
- **Listener.** Edge-triggered events must be drained or they are lost;
  descriptors are closed and handed out again inside one batch of events; a
  slot is selected by descriptor and outlives the connection on an error path;
  one `read()` returns any piece of the byte stream. The questions: is every
  request read, every dead peer closed, every connection accepted; can an event
  reach the wrong connection; what does the next connection inherit; which
  inputs end the loop.
- **Messages and packets.** A `read()` may begin and end anywhere in the
  stream, a `write()` of the server may stop anywhere, and each read is taken for
  one packet in buffers that are partly uninitialized. The questions: which
  messages can a handler see, do bytes of one packet reach another, does damage
  outlive the messages it happened to.
- **Database.** Lookup and insert are two statements, a busy file looks like one
  without the row, results are ignored, a failed insert closes the handle,
  statements are left open. The questions: is an account ever replaced, are the
  results of `create_user` and `check_user` true, does the handle survive, is a
  default ever missing after an interrupted start, are all rooms loaded.
- **Start-up.** Two processes race through the pid file, the database and the
  port; pids are reused; signals are blocked. The questions: whom does the pid
  file name, does a start end, does TERM work.
- **Send queue.** A mutex and a semaphore that must stay in step, and a branch
  that would return with the mutex held. The questions: is the branch ever
  taken, is a message lost, doubled or stuck.
- **Client session.** A check in one place and a use in another with a second
  thread in between, freed nodes still pointed at, replies merged by `recv`.
  The questions: is NULL ever followed, do client and server agree about the
  login and the current room.

## 2. Modules

    OnlineTables ----- MCOnlineTables --- implements --> Roster
      |    |     \             \--------- Roster_proofs
      |    |      \--- OnlineTables_proofs
      |    Daemon ---- MCDaemon
      |       \------- Daemon_proofs (over OnlineTables_proofs)
      |
    Parsing -- Daemon, Client
      \------ Framing
      \------ Wire --- MCWire ------- implements --> Framing
                \----- Wire_proofs
    Client -- Session -- MCSession
                \------ Session_proofs
    Database -- MCDatabase
      \------- Database_proofs
    MsgList -- MCMsgList --- implements --> Outbox
                  \------- MsgList_proofs
    Lifecycle -- MCLifecycle
      \--------- Lifecycle_proofs

**OnlineTables** has one action per operation of the two table files. A list is
a sequence, head first: `joined[fd]` is `room_list_head` of a slot,
`members[r]` is `user_list_head` of a room. `AddUserToRoom` links the new node
in front of the old head's *successor*, `DeleteUserFromRoom` empties the list
when the head matches. `Logout` follows a room's name as if it were a node:
with a room held the process crashes. Memory that C leaves undefined is
explicit: slots come from `malloc`, so `FreshHeads` says what an unset list
head may hold, and an access through it, or past `MAX_ONLINE_USERS`, ends in
`"crashed"` or in `"corrupt"`, from where only a restart is modelled, because
nothing can be said of memory that was overwritten.

**Roster** is what these tables amount to: a room remembers at most one
session, the last to join, and a session counts its joins. `MCOnlineTables`
gives the refinement mapping (`ImplementsRoster`).

**Daemon** puts `OnlineTables` (by `INSTANCE`) under the epoll loop. `batch` is
the array `epoll_wait` returned, `pc`/`current` the place in `listener_func`;
one step is one turn of one of its loops, with the whole handler inside it,
because the listener is the only thread that works. Clients and kernel are
external actions: connect, write, orderly close, reset, at any moment; the
lowest free descriptor is handed out; closing drops queued data and epoll
registration. A handler's replies are in `sent`. A `read()` may return up to
`MaxPerRead` requests and, with `SplitReads`, end inside one. `CheckUser` and
`CreateUser` are exact for texts without a quote. `sprintf` puts names and
passwords into the statements (`database.c:105`, `137`, `153`) and escapes nothing,
so with a quote in one (`Quoted`) a login may succeed or fail, and a
registration may leave any accounts (`SpliceResults`); `spliced` remembers which
slots that may concern. `Overrun` is `sscanf` writing behind a `user_t`: a field of
ten characters or more (`Long`), or a password that ran into the next
request. `UNKNOWN_TYPE` stands for every type byte from 26 up but ECHO, all of which
index `message_type_array` past its end (`daemon.c:222`).

**Parsing** says which message a receiver makes of several messages, or of part
of one: the first decides the type, its last field may be mangled, a name too long
for its array ends in the password written over it, and a field
that `sscanf` finds nothing for holds what was on the stack. Daemon and Client
take it as given. **Wire** is where it comes from: `get_packet` turns a message
into bytes, `packet_send` writes all of them or, on the server's non-blocking
socket, some; `Receive(k)` clears the buffer, copies `k` bytes into it, and does
what `set_payload`, `parse_packet` and `get_username_password` do, with
uninitialized bytes chosen freely. `InUser` is the `user_t` the words land in, its
two arrays one behind the other. **Framing** is the promise: a connection is a
queue of messages, some without their head or tail, and a read takes any number
of them for what `Parsing` says of the first. Every byte of the stream carries the
number of its write, which the code never sees; the mapping takes the bytes of one
write for a message.

**Database** is `database.c` in several processes on one file. `pc` is where a
process is between two calls of sqlite, `db` its handle, `leak` its statements
that nobody finalizes; sqlite's shared, reserved and exclusive locks are external.
`Start` and `Call` are `daemon_init` and whoever calls the functions later.
Of a statement that got a quote the outcome is open: `SqlError` if it is no SQL, a row
or none, 0 or 2, and of an insert, whose text `sqlite3_exec` runs to its end, any table
`users`, with an error behind it or without. After such an insert `spliced` is true;
a table without a key is the number of its rows with each name. `list_rooms` reads
the table in one call (`ListRooms`, with the lock until `ListDone`); `load_rooms`
then takes one row of that list after the other (`LoadRoom`, with `add_room`; no
`order by`, so any of them), while others may write. `save_room` and `default_room`
are its variables: the whole list, and what is still to come.

**MsgList** interleaves `add_msglist` and `remove_msglist` at every statement
that touches shared memory; pointers kept in locals are copies of the rest of
the list. **Outbox** is the promise: each message in, each message out once.

**Client** is `room_handle` with the user's thread (three separate reads of it
for one line of text) and the receive thread. Heap nodes are never reused, so a
stale pointer stays recognisable: a read through it may find any name.
**Session** composes it with the server's tables, one connection, requests and
replies in order, so that the two sides' idea of the session can be compared.

**Lifecycle** is `main` of `dtalk_s.c` for any number of processes of one
machine: pid file (with the inode, so that a write to an unlinked file goes
nowhere), signals, the default rows one lookup and one insert at a time, the
port. `open_db`, a lookup, an insert and `list_rooms` may each fail while another
process is in the database. Any process may die between two steps and its pid may be used again, also
by another program. The pid before `daemon()` forks is identified with the one
after it.

## 3. Runs

A run is a cfg of section 2's MC modules; `PROJECT.json` lists them with their
properties and, for each property, a mutant: a plausible bug in one definition
(kept beside it, named `Mut...`) under which TLC finds the property violated.

| run | instance | distinct states | what it shows |
|---|---|---|---|
| `tables` | 2 sessions with slots, 1 descriptor without, 2 rooms and 1 unknown, lists of at most 3 joins | 56,000 | no room lists two sessions; a listing ends by the session's leave, another's join or a restart only; a session listed without holding the room has logged in twice; the tables implement `Roster` |
| `daemon_one` | 2 descriptors, one at the limit of slots, 16 requests with every kind of command, one with a long password and two with a quote, `read()` of up to 2 requests or of part of one, unset list heads, failing SQL, 4 client operations | 307,000 | accounts are never changed or removed, but by a registration with a quote; a slot is online only with the password of an account, unless a quote helped; a reply goes to the requester, if it has a slot, and is true of the tables when it is sent; each request is read; the complete list of what ends the listener |
| `daemon_two` | 2 connections with slots, login, join, leave, logout, 6 client operations | 374,000 | no stale event after a descriptor is closed and reused in one batch; an orderly close leaves a clean slot; dead peers are closed; waiting connections are accepted unless descriptors ran out |
| `msg_list` | 4 messages | 13,000 | the empty branch is never taken; the head leaves only by being sent; each message is sent unless the user exits; the list implements `Outbox` |
| `session` | 1 client, rooms `a`, `b` and an unknown `c`, 4 lines, `recv()` of up to 2 replies or of part of one | 1,116,000 | NULL is never followed; while replies arrive one by one, client and server agree about the login and the current room, and a confirmed login is seen |
| `wire` | 3 packets of 2 to 6 bytes, of 5 requests or 3 replies, arrays of two bytes, a buffer of 8, reads and short writes of any length | 30,000 | data end where the read ended, with nothing uninitialized or left from before; a read that begins inside a packet reaches no handler; the bytes implement `Framing`, and so `Parsing` |
| `database` | 2 processes, a default user and a default room, 2 further calls of 8, two of them with a quote, 1 death, all rooms in one bucket | 561,000 | no account is replaced or removed, but by an insert with a quote; what `create_user` and `check_user` report of texts without a quote is so; only `open_db` closes the handle; `find_room` finds the rooms of the list, and the list is the file's; each call ends |
| `lifecycle` | 2 pids, a default user and a default room | 284,000 | the pid file names a daemon that came up alone; such a server has all defaults; each start ends |

Four further runs state what a comment, header or message of the repository says
and the code does not do; TLC finds each violated, and the finding in
`PROJECT.json` quotes the line.

| run | claim | what happens instead |
|---|---|---|
| `tables_logout` | "leave from every joined room" (`online_users.c:58`) | a logout with a room held follows the room's name as a pointer and ends the server |
| `daemon_fresh` | `online` 0 means not authorized (`user.h:17`) | a connection closed on EPOLLERR/EPOLLHUP keeps its slot, and the next one with that descriptor is online before any login |
| `session_text` | "please join one room first!" (`deal_request.c:402`) | after a logout the current room is a freed node, passes the test and is read |
| `life_term` | "INT, TERM and HUP are handled by sigwait() in run()" (`dtalk_s.c:213`) | `daemon_init` never returns, so nobody waits for the blocked signals |

More disagreements were met while modelling. The models contain them, without a
run of their own:

- `add_user_to_room` drops the old head of the room's list, where the comment
  says "insert to first" (`online_rooms.c:200`): a room remembers its last member
  only. That is `OneListedMember` and `ImplementsRoster`.
- A read error falls through to `process_packet` with count -1, and the NULL
  that a "malformed packet" yields (`message.c:240`) is followed: a reset
  connection ends the server. It is one of `KnownCausesOfDeath`.
- `check_user` answers 1, "username error" (`database.c:132`), for a name that
  exists, when the file is busy; `CheckTruth` is silent about 1.
- A process that has answered one login of an existing name keeps a lock until it
  ends: no other process can write to the file any more (`database.c:155`).
- `daemon_init` ignores that `open_db` failed and goes on with a closed handle
  (`daemon.c:446`); `Daemon` assumes that it succeeded.
- `add_room` copies nine bytes of a name into memory that nobody cleared, so a
  room with a name of nine characters or more may not be found. The defaults are
  shorter, and nothing creates others.
- `handle_login` passes the password where `login` takes a user name
  (`daemon.c:93`), so the name of an online session is its password. That is
  why `OnlineImpliesAccount` speaks of passwords.
- The reply to JOIN keeps descriptor -1 (`daemon.c:72`) and reaches nobody.
- `login` refuses a descriptor above the limit, its result is ignored, and the
  client is told LOGIN_SUCCESS (`daemon.c:93`).
- One `read()` is taken for one request, although the comment at `daemon.c:416`
  says "process every packet"; the client does the same with replies
  (`deal_reply.c:217`), so a LOGOUT_SUCCESS behind another reply is lost.
- A LEAVE_ROOM_SUCCESS has no case in the client, so the room left stays the
  current one; `room_join` unlinks the room joined before.
- Two starts that overlap both pass `check_pid`: the pid file may name the one
  that fails to bind, and a default room may be inserted twice.
- `create_user` reports success for a name that exists, without changing it.
- `message_type_array` has 26 names, and any byte of the network indexes it: an
  ECHO reads past its end before it is answered, and so does every other type of
  26 or more before it is ignored.
- `get_username_password` has no width for the two arrays of ten bytes ("error
  prone", says the comment at `message.c:92`), and the client bounds its input by the
  packet only. A long name ends in the password; a long password overruns `user_t`.
- The statements are made with `sprintf` and nothing is escaped. What the modules say
  of accounts and passwords, they say of texts without a quote.

**Bounds, and why they are enough.** `MaxOnlineUsers` is 2 or 3 so that one
descriptor can be below and one above it; the tables treat all slots alike, and
for the tables the proofs remove every bound. `MaxJoined` = 3 lets a session
hold one room twice and another once. `MaxClientOps` = 6 is two connections
with login, join or a second login, and an end for one of them; 4 is enough for
each cause of death, the longest being connect, login, join, close. A fragment
is read once (it is not cut again), and `MaxPerRead` = 2, because what follows
the first request in a packet is dropped whatever it is. `MaxLines` = 4 covers
login, join, text and logout; `session_text` needs 6 to let text follow a
logout. Two pids give every race of two starts and the reuse of a pid; the second
default of each table is handled like the first, and `MaxRows` = 2 lets the
default room get a second row. In `wire` the buffer holds the longest
packet and two bytes, so packets run into each other, are cut, and fill it; a
third packet shows that damage ends; arrays of two bytes and names of one to three
put every field on either side of its limit. One long password and one text with a
quote, which a mangled field may have too, stand for all: nothing in `Daemon` tells two
of them apart. `SpliceResults` has the accounts with one added and with one
withdrawn, the two things the properties could be wrong about; the proofs admit any
set. Two processes are enough for `database`
because sqlite lets one write, and what it waits for is any other; two calls
after the start put a failed or leaking call before another one. In `MCSession` and `MCLifecycle`
nothing is symmetric enough to declare, so no symmetry is used anywhere.

**Deadlock** is checked for the tables, where a restart is always possible. The
other runs set `CHECK_DEADLOCK FALSE`: users stop typing, clients stop sending,
the client exits, writes and calls run out, and a dead server need not be
started again.

**Fairness.** Weak fairness of steps of a thread or process that can run:
`ListenerStep` (the listener never blocks but in `epoll_wait`), main and send
thread of the client with their mutex (`MainStep`, `SendStep`), the client's
send and receive threads and the server in `Session`, each starting process
in `Lifecycle`, and each process inside a function of `Database` (no call of
sqlite waits: no busy handler is set). All of these are steps of programs the scheduler runs. None is
assumed of users, clients, signals, crashes, restarts or the end of TIME_WAIT.
The receive thread's progress in `Session` is on reading replies that are there
and on finishing what a reply started.

## 4. Assumptions about what is outside the code

- Edge-triggered epoll: a descriptor becomes ready again when something arrives,
  and one `epoll_wait` reports all that are ready. Both fit into the array of
  64 events.
- The kernel hands out the lowest free descriptor. After a reset behind data,
  EPOLLHUP is reported; a reset found by `read()` is an error; an end before the
  reset is read as an end.
- In `Daemon` and `Session`, `write()` takes a packet whole or, on a closed
  connection, not at all; short writes are in `Wire`. A client
  writing to a connection the server has closed may be killed by SIGPIPE.
- A process that has written through a wild pointer ("corrupt") is not modelled
  until it is started again.
- In `Session` the client's connection stands from the start, and the server
  reads one request at a time; what it does with a read that holds more or less
  is in `Daemon`. The answers to listings, which change nothing in the client,
  are left out of the replies.
- sqlite, in rollback mode and without a busy handler: a statement that needs a
  lock another process holds fails at once; a row not yet finalized keeps a shared
  lock; a failed write is rolled back; `sqlite3_close` refuses while a statement is
  not finalized; a process that dies loses its locks. A use of a closed handle
  fails or ends the process. `Daemon` takes a failing insert as an error that the
  handler reports.
- `Wire`: names are printable and not empty, and two names are two strings; any may
  begin with another, or be another with the version of the next packet behind it.
  Packets leave two bytes of the buffer free, as the limits of the client's input do.
  Data that no handler looks at are left out: the server's reply texts, and the text
  of a MESSAGE. That text may hold any bytes, so that a read beginning inside a
  MESSAGE could be taken for a command; `TornPacketsReachNobody` is about the packets
  that are modelled. What is written behind both arrays of a `user_t` is `Overrun`
  in `Daemon`.
- Names and passwords with a quote: a lookup is one statement, since
  `sqlite3_prepare` compiles no second one, and a select, so that it changes nothing. An
  insert through `sqlite3_exec` is any number of statements; the modules let them
  leave any accounts in one step, but not touch the other tables, begin a transaction
  they do not end, or set a pragma. Names of rooms have no quote where they reach a
  statement: those come from the code, not from clients. `Mangled` is one text, and an
  instance says whether it has a quote; in `daemon_one` it has.
- Texts of ten characters or more are kept whole in `Daemon`, where a slot has
  their first nine; nothing in the code compares what a slot has. Names in `Session`
  are shorter, and have no quote.
- The pid before the fork of `daemon()` stands for the one after it: no
  property compares the two.
- A node of the client's room list is never handed out by `malloc` again while
  something points to it; what is read from it then is any name instead.

## 5. Proofs

TLAPS checks these for every value of the constants that the named assumptions
allow (`TablesAssumption`, `MessagesAssumption`, `LifecycleAssumption`,
`DatabaseAssumption`, `DaemonAssumption`, `ClientAssumption`, `SessionAssumption`,
`WireAssumption`, `MessageAssumption`). What they say of data is what the programs
put there: requests and replies are of the types and have the data that the code
constructs, the constants that stand for special values (a mangled name, a torn
packet, an erased slot) differ from ordinary ones, and a packet fits the buffer.

| theorem | states |
|---|---|
| `OnlineTables_proofs!TypeCorrect`, `RoomListsOne` | `[]TypeOK`, `[]OneListedMember` |
| `OnlineTables_proofs!ListingEnds`, `GhostsTheorem` | the two action properties of the tables |
| `Roster_proofs!RosterTheorem` | `ImplementsRoster`: the tables implement `Roster` |
| `Daemon_proofs!TypeCorrect`, `EventsTheorem`, `OrderlyTheorem` | `[]TypeOK`, `[]EventsAreForOpenFds`, `[]OrderlyCloseClears` |
| `Daemon_proofs!OnlineTheorem`, `AccountsTheorem` | `[]OnlineImpliesAccount`, `AccountsAreForever` |
| `Daemon_proofs!RepliesTheorem`, `DeathTheorem` | `[]RepliesAreTrue`, `KnownCausesOfDeath` |
| `Wire_proofs!TypeCorrect`, `TornTheorem`, `DataEndsTheorem` | `[]TypeOK`, `TornPacketsReachNobody`, `DataEndsWithRead` |
| `Wire_proofs!FramingTheorem` | `ImplementsFraming`: the bytes implement `Framing` |
| `Session_proofs!TypeCorrect`, `NullTheorem` | `[]TypeOK`, `[]NullIsNeverFollowed` |
| `Session_proofs!StatusTheorem`, `CurRoomTheorem` | `[]StatusAgrees`, `[]CurRoomIsLastJoined` |
| `MsgList_proofs!OutboxTheorem` | `ImplementsOutbox`: the send queue implements `Outbox` |
| `MsgList_proofs!TypeCorrect`, `NeverEmpty`, `HeadTheorem` | `[]TypeOK`, `[]EmptyBranchUnreachable`, `HeadGoesNext` |
| `Lifecycle_proofs!TypeCorrect`, `PidFileTheorem`, `DefaultsTheorem` | `[]TypeOK`, `[]PidFileNamesLoneServer`, `[]LoneServerHasDefaults` |
| `Database_proofs!HandleTheorem`, `AccountsTheorem` | `HandleStaysOpen`, `AccountsStand` |
| `Database_proofs!CreatedTheorem`, `CheckTheorem` | `[]CreatedAccountIsThere`, `[]CheckTruth` |
| `Database_proofs!TypeCorrect`, `LoadedTheorem` | `[]TypeOK`, `LoadedAreFound` |

*OnlineTables.* `TypeOK /\ OneListedMember` is inductive. `OneListedMember` needs
the types (lists of slots); that a join keeps a list at length one is exactly the
flaw of `AddUserToRoom`, and that `DeleteUserFromRoom` may empty a list without
harm is its consequence. Lemmas on sequences (`RemoveAt`, cons) carry the two
action properties.

*Roster.* The mapping counts how often a session's list has a room. Three lemmas
carry it: a node put in front adds one for its room, an unlinked node takes one
away, and other rooms' counts stay; each is a bijection between sets of places.
Every action of the tables is then shown to be the one of `Roster` it is mapped
to, or a stutter.

*Daemon.* What `OnlineTables_proofs` shows of the tables is taken over through an
`INSTANCE` of it: every handler is a step of the tables or leaves them alone, so
their invariant is kept whatever the loop does (`TablesInv`). The daemon's own
part: a batch has at most one event for a descriptor and none for the one
being read (`BatchInv`), which is why a close, and the reuse of the number, in the
middle of a batch meets no stale event; and the name of an online slot is the password
some account has, and accounts never lose theirs (`AccountInv`), for the slots that are
not `spliced`: a login with a quote adds its slot there, and one without takes it
out; an insert with a quote adds all. With the types these are inductive,
`OrderlyCloseClears` with them. That an account changes in no other step than a JOIN
that may have a quote is `AccountsTheorem`. `RepliesAreTrue` and `KnownCausesOfDeath`
follow step by step, handler by handler.

*Wire.* Behind a byte of the stream comes the next byte of its packet or a new
packet, the numbers of the writes go up by one, and requests are whole
(`StreamInv`), because `write()` takes a packet's first bytes. A read that
begins inside a packet so has in second place a character, the character `1`, or
the NUL of the cleared buffer: no type of a handler has such a number. The strings
of C are `SubSeq`s up to the first of some bytes; that there is a first one
(`MinOf`) comes from the well-foundedness of intervals, so no recursion is needed.
`FramingTheorem` has two halves. A write appends a message to the queue
(`QueueWritten`), and a read drops messages from its front, the last one without
its head if the read ends inside it (`QueueRead`); both follow from the place a byte's
message has in the queue, which is the difference of two numbers (`Place`). What the
read makes of the bytes is then followed from the packet through the buffer and the
payload to the data (`DataRead`, `FirstBytes`), and from there, for a request with
a name, through `sscanf` (`Scanned`) into the arrays (`InUser`): both words come back
as they were sent if the read ends with the packet and the name fits; the version
behind it makes a longer word, which may be another name; and a read that ends inside
leaves either word short or on the stack (`TakenUser`). Rooms and messages without data are the easier cases (`TakenRoom`,
`TakenPlain`), and `ReadTaken` puts them together with reads that begin in a packet.

*Session.* Agreement holds only when nothing is under way, so the invariant speaks of
what is: the last reply of the queue about the login says whether the server has
the session online, and if there is none the client shows it (`StatusInv`); the
same for the last JOIN_ROOM_SUCCESS (`JoinInv`). The list of rooms is the current
room or nothing, except between the two halves of `room_join` (`RoomInv`); that is
why a join never finds its room in the list already, and why `cur_room` is the
last one joined. `NullIsNeverFollowed` is part of the induction, with the types.

*MsgList.* `EmptyBranchUnreachable` is not inductive: that `sem_wait` returned says
something about the list only together with what the main thread has linked
and not posted yet. The invariant adds who holds the mutex (`MutexInv`), that a
thread's copy of the rest of the list is still true (`SnapshotInv`), and the count

    Len(list) + nodes unlinked by AddLink
        = msg_num + 1 if linked and not posted + 1 if waited and not removed

That the list implements `Outbox` needs one thing more: the places a message can be
in (the main thread's hand, the list, the nodes `AddLink` unlinked for a moment, the send
thread's hand) are disjoint, and no list holds a message twice (`PlacesInv`).
Linking, unlinking and relinking then stutter, and each abstract step is one statement.

*Lifecycle.* That the pid file names a lone daemon depends on everybody else being
kept out: while a process that came up alone is starting there is no other
server (`AloneInv`); from the write on the file holds its pid (`FileInv`); and a
later start is in `check_pid`, has read exactly that pid if it has read any, and
so ends (`KeptOutInv`). For the defaults, all rows before `item` are in the
tables, which only grow, because the one reason an insert fails, another
process's lock, needs another process (`DefaultsInv`). All of it is inductive
together with the types.

*Database.* Look-up and insert of `create_user` are two statements, so what the
first found may be out of date. What holds instead, of texts without a quote: only the owner of the reserved
lock is at a write (`WriterInv`), and the key was tested under that lock, so the
name of an insert under way is free (`KeyInv`); that gives `AccountsStand`, and
with it everything a look-up has found stays found (`FoundInv`), until an insert with
a quote is committed, the one step left out (`UsersStep`). Between the two
statements of `check_user` nobody gets the exclusive lock, because the first
one is never finalized (`LockInv`). A create that is at its insert has an
unfinished look-up (`LeakInv`), so `sqlite3_close` refuses, also when a text with a
quote fails behind its insert. `Arrival` says of each
place which step leads there; with `Frame`, that a step leaves the other
processes' entries alone, every part of the invariant follows in two cases. A second
invariant (`LInv`) takes these for granted. No process goes beyond the three tables,
because the schema cannot change under who is about to write (`SchemaInv`). For
`LoadedAreFound`: `list_rooms` is the last call `daemon_init` makes, so until
then a process has no rooms (`FreshInv`); while it lists, nobody writes; and while it
loads, a room is found exactly if less of its rows are to come than the list has
(`ListInv`), as a room put in front of a bucket hides none (`AddRoomFinds`).

Only model-checked:

- liveness (`RequestsAreRead`, `GonePeersAreClosed`, `ConnectionsAreAccepted`,
  `EveryMessageIsSent`, `LoginIsSeen`, `StartsEnd`, `CallsEnd`), which is out of the
  prover's reach.

Every safety invariant, action property and refinement of a passing run is a theorem.

## 6. Not modelled

- `get_room_desc` and `set_room_desc`, which have no caller, and the setters and
  getters of `message.c` and `packet.c` that copy a field.
- `room_update_add` (reached by a LIST_USERS_SUCCESS that the server never
  sends), `room_logout`, `room_update_del`, `room_init` of the client, `delete_room`,
  `add_room` of a new room, `list_users_in_room`, `get_user`, `check_joined_room`,
  `speak_at_room` of the tables: no caller on a path that runs. `list_users` and
  `list_logs` of the database only read, for the test program.
- The answers to listings in `Session`, one packet for each room with a pause
  behind it (`online_rooms.c:147`): that TCP may join them to other replies all the
  same is in the run only for the replies that are modelled.
- The replies a short write spoils, in `Daemon` and `Session`: `Framing` says what
  the client sees of them.
- The client's receive thread spinning once the server has closed: it changes
  nothing.
- Configuration, logging, colours, the ncurses demonstration, vendored lists.

## 7. Plan

Done, in this order: the tables with their abstract specification and proofs;
the listener over them; the send queue with its abstract specification and
proofs; the client and its session with the server; start-up and shutdown and
their proofs; the bytes of a connection with their abstract specification, under
Daemon and Client; the database with several processes and its proofs.

The proofs of the listener, of the client's session and of the bytes of a connection
followed, then the rooms a start loads, and all three refinements as theorems.

Next, the most important first:

1. *The queue under the session*: Session with `MsgList` in place of `Enqueue`.
