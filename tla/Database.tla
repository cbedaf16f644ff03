-------------------------------- MODULE Database --------------------------------
(***************************************************************************)
(* database.c on a file that several processes have open: a server, others *)
(* that start while it serves, the test program at the file's end.  Each   *)
(* function is a few calls of sqlite, and between two of them the other    *)
(* processes make theirs.                                                  *)
(*                                                                         *)
(* Sqlite is external.  A statement that has returned a row keeps a shared *)
(* lock until it is finalized; one that is done keeps none, but as long as *)
(* it is not finalized either sqlite3_close refuses to close.  A write     *)
(* takes the reserved lock, which one process can have, then waits for no  *)
(* reader but gives up with SQLITE_BUSY if there is one, then writes with  *)
(* everybody else locked out.  No call waits: there is no busy handler.    *)
(* A process that dies loses its locks and its uncommitted write.          *)
(*                                                                         *)
(* sprintf puts names and passwords into the statements, and escapes       *)
(* nothing: what a statement says that got a quote is not known here.  Of  *)
(* the lookups, sqlite3_prepare takes one select from the text, which may  *)
(* be no SQL, find a row or find none; of create_user's insert,            *)
(* sqlite3_exec runs all there is, and table users may be any after it.    *)
(* Names of rooms come from the code, and have no quote.                   *)
(***************************************************************************)
EXTENDS Integers, SequencesExt

CONSTANTS
    Procs,
    UserNames, Passwords, NoUser,   \* NoUser: no row with this name
    Quoted,         \* the names and passwords with a quote in them
    SpliceResults,  \* bound: what users may be after an insert with a quote in it
    RoomNames,
    Forbidden, ForbiddenRooms,   \* admin, all and login; admin
    Defaults,    \* what create_default_user_room calls, in order
    Calls,       \* what the programs call afterwards
    Buckets, BKDRHash,              \* of the table load_rooms fills
    Nobody,
    MaxCalls,    \* bound: calls after daemon_init, in all
    MaxDeaths    \* bound: processes that die

AccountCalls == [op : {"create_user", "check_user"}, name : UserNames, password : Passwords]
RoomCalls == [op : {"create_room", "delete_room"}, room : RoomNames]
PlainCalls == [op : {"save_log"}]

ASSUME DatabaseAssumption ==
    /\ NoUser \notin Passwords
    /\ Quoted \subseteq UserNames \cup Passwords
    /\ SpliceResults \subseteq [UserNames -> Passwords \cup {NoUser}]
    /\ Nobody \notin Procs
    /\ Forbidden \subseteq UserNames /\ ForbiddenRooms \subseteq RoomNames
    /\ Defaults \in Seq(AccountCalls \cup RoomCalls)
    /\ Calls \subseteq AccountCalls \cup RoomCalls \cup PlainCalls
    /\ BKDRHash \in [RoomNames -> Buckets]
    /\ {MaxCalls, MaxDeaths} \subseteq Nat

VARIABLES
    schema,  \* how many of the tables exist
    users,   \* table users, name |-> password: the name is the primary key
    rooms,   \* table rooms, name |-> rows with it: it has no key
    logs,    \* table log: the number of its rows
    spliced, \* history: an insert with a quote in it was committed
    writer,  \* who has the reserved lock
    pc, call, ret,  \* of each process: where it is, in which call; the result
    todo,    \* calls daemon_init still makes
    db,      \* the handle: "NULL", "open", or "closed", which nobody resets
    leak,    \* statements not finalized: "done", or "row", which has a lock
    loaded,  \* online_rooms[].next: the names in each bucket, newest first
    save_room, default_room,  \* load_rooms: all rows of its list, those to come
    calls, deaths

SQL_INIT_SIZE == 3
NoRows == [r \in RoomNames |-> 0]

file == <<schema, users, rooms, logs, spliced>>
list == <<save_room, default_room>>
process == <<pc, call, ret, todo, db, leak, loaded, list>>
vars == <<file, writer, process, calls, deaths>>

Init ==
    /\ schema = 0
    /\ users = [u \in UserNames |-> NoUser] /\ rooms = NoRows /\ logs = 0
    /\ spliced = FALSE
    /\ writer = Nobody
    /\ pc = [p \in Procs |-> "off"]
    /\ call = [p \in Procs |-> [op |-> "open_db"]] /\ ret = [p \in Procs |-> 0]
    /\ todo = [p \in Procs |-> <<>>]
    /\ db = [p \in Procs |-> "NULL"] /\ leak = [p \in Procs |-> {}]
    /\ loaded = [p \in Procs |-> [b \in Buckets |-> <<>>]]
    /\ save_room = [p \in Procs |-> NoRows] /\ default_room = save_room
    /\ calls = 0 /\ deaths = 0

(* Locks as sqlite has them.                                               *)
Blocked(p) == \E q \in Procs \ {p} : pc[q] = "exclusive"
Reads(p) == pc[p] \in {"found", "listing"} \/ "row" \in leak[p]

At(p, from) == pc[p] = from /\ UNCHANGED <<calls, deaths>>
Goto(p, to) == pc' = [pc EXCEPT ![p] = to] /\ UNCHANGED <<call, ret, todo>>
Return(p, result) ==
    /\ pc' = [pc EXCEPT ![p] = "idle"]
    /\ ret' = [ret EXCEPT ![p] = result]
    /\ UNCHANGED <<call, todo>>

-----------------------------------------------------------------------------
(* The callers: daemon_init opens the database, whatever comes of it loads *)
(* the rooms, and then serves.                                             *)
LoadRooms == <<[op |-> "list_rooms"]>>

Start(p) ==
    /\ At(p, "off")
    /\ pc' = [pc EXCEPT ![p] = "called"]
    /\ call' = [call EXCEPT ![p] = [op |-> "open_db"]]
    /\ todo' = [todo EXCEPT ![p] = LoadRooms]
    /\ db' = [db EXCEPT ![p] = "open"]
    /\ UNCHANGED <<file, writer, ret, leak, loaded, list>>

Call(p) ==
    /\ pc[p] = "idle"
    /\ \/ /\ todo[p] # <<>>
          /\ call' = [call EXCEPT ![p] = Head(todo[p])]
          /\ todo' = [todo EXCEPT ![p] = Tail(@)]
          /\ UNCHANGED calls
       \/ /\ todo[p] = <<>> /\ calls < MaxCalls
          /\ \E c \in Calls : call' = [call EXCEPT ![p] = c]
          /\ calls' = calls + 1
          /\ UNCHANGED todo
    /\ pc' = [pc EXCEPT ![p] = "called"]
    /\ ret' = [ret EXCEPT ![p] = 0]
    /\ UNCHANGED <<file, writer, db, leak, loaded, list, deaths>>

Died(p) ==
    /\ pc' = [pc EXCEPT ![p] = "off"]
    /\ call' = [call EXCEPT ![p] = [op |-> "open_db"]]
    /\ ret' = [ret EXCEPT ![p] = 0]
    /\ todo' = [todo EXCEPT ![p] = <<>>]
    /\ db' = [db EXCEPT ![p] = "NULL"]
    /\ leak' = [leak EXCEPT ![p] = {}]
    /\ loaded' = [loaded EXCEPT ![p] = [b \in Buckets |-> <<>>]]
    /\ save_room' = [save_room EXCEPT ![p] = NoRows]
    /\ default_room' = [default_room EXCEPT ![p] = NoRows]
    /\ writer' = IF writer = p THEN Nobody ELSE writer
    /\ UNCHANGED file

Die(p) ==
    /\ pc[p] # "off" /\ deaths < MaxDeaths
    /\ deaths' = deaths + 1
    /\ Died(p)
    /\ UNCHANGED calls

IsForbidden(c) ==
    \/ c.op = "create_user" /\ c.name \in Forbidden
    \/ c.op = "create_room" /\ c.room \in ForbiddenRooms

(* A call with the handle that open_db closed: sqlite notices the misuse,  *)
(* or the process dies of it.                                              *)
UseClosed(p) ==
    /\ At(p, "called") /\ db[p] = "closed" /\ ~IsForbidden(call[p])
    /\ \/ Return(p, -1) /\ UNCHANGED <<file, writer, db, leak, loaded, list>>
       \/ Died(p)

-----------------------------------------------------------------------------
Quotes(c) ==
    c.op \in {"create_user", "check_user"} /\ {c.name, c.password} \cap Quoted # {}
QuotedName(c) == Quotes(c) /\ c.name \in Quoted

(* Mutant: the failed write is not rolled back.                            *)
MutFail(p) == Return(p, -1) /\ UNCHANGED <<file, writer, db, leak, loaded, list>>

(* Mutant: the call is made again until it succeeds.                       *)
MutFailRetries(p) ==
    /\ Goto(p, "called")
    /\ writer' = IF writer = p THEN Nobody ELSE writer
    /\ UNCHANGED <<file, db, leak, loaded, list>>

(* A statement that failed.  open_db gives up and closes; create_user and  *)
(* create_room close too, which sqlite refuses while the lookup's          *)
(* statement is not finalized; the others leave the handle alone.          *)
GiveUp(p) ==
    /\ Return(p, -1)
    /\ db' = IF call[p].op \in {"open_db", "create_user", "create_room"} /\ leak[p] = {}
             THEN [db EXCEPT ![p] = "closed"] ELSE db

Fail(p) ==
    /\ GiveUp(p)
    /\ writer' = IF writer = p THEN Nobody ELSE writer
    /\ UNCHANGED <<file, leak, loaded, list>>

OpenFails(p) ==
    /\ At(p, "called") /\ call[p].op = "open_db"
    /\ Fail(p)

(* The tables are there: no create table writes.                           *)
Opened(p) ==
    /\ pc' = [pc EXCEPT ![p] = "idle"]
    /\ ret' = [ret EXCEPT ![p] = 0]
    /\ todo' = [todo EXCEPT ![p] = Defaults \o LoadRooms]
    /\ UNCHANGED call

SqlInit(p) ==
    /\ At(p, "called") /\ call[p].op = "open_db"
    /\ schema = SQL_INIT_SIZE /\ ~Blocked(p)
    /\ Opened(p)
    /\ UNCHANGED <<file, writer, db, leak, loaded, list>>

(* The first statement of create_user, create_room and check_user.  Only a *)
(* row is told from the rest: a busy file counts as no row.                *)
InFile(c) ==
    IF c.op = "create_room" THEN rooms[c.room] > 0 ELSE users[c.name] # NoUser

(* Mutant: whatever is not "done" counts as a row.                         *)
MutRow(p) == IF Blocked(p) THEN {TRUE} ELSE {InFile(call[p])}
Row(p) ==
    IF Blocked(p) THEN {FALSE}
    ELSE IF QuotedName(call[p]) THEN BOOLEAN ELSE {InFile(call[p])}

(* sqlite3_prepare takes the text for no SQL.                              *)
SqlError(p) ==
    /\ \/ At(p, "called") /\ db[p] = "open" /\ QuotedName(call[p]) /\ ~IsForbidden(call[p])
       \/ At(p, "match") /\ Quotes(call[p])
    /\ Return(p, -1)
    /\ UNCHANGED <<file, writer, db, leak, loaded, list>>

Forbid(p) ==
    /\ At(p, "called") /\ IsForbidden(call[p])
    /\ Return(p, -1)
    /\ UNCHANGED <<file, writer, db, leak, loaded, list>>

(* Mutant: the statement is finalized when it found nothing.               *)
MutLookup(p) ==
    /\ At(p, "called") /\ call[p].op \in {"create_user", "create_room"}
    /\ db[p] = "open" /\ ~IsForbidden(call[p])
    /\ \E row \in Row(p) : Goto(p, IF row THEN "found" ELSE "exec")
    /\ UNCHANGED <<file, writer, db, leak, loaded, list>>

Lookup(p) ==
    /\ At(p, "called") /\ call[p].op \in {"create_user", "create_room"}
    /\ db[p] = "open" /\ ~IsForbidden(call[p])
    /\ \/ TRUE \in Row(p) /\ Goto(p, "found") /\ UNCHANGED leak
       \/ /\ FALSE \in Row(p) /\ Goto(p, "exec")
          /\ leak' = [leak EXCEPT ![p] = @ \cup {"done"}]
    /\ UNCHANGED <<file, writer, db, loaded, list>>

Duplicate(p) ==
    /\ At(p, "found")
    /\ Return(p, IF call[p].op = "create_user" THEN 0 ELSE -1)
    /\ UNCHANGED <<file, writer, db, leak, loaded, list>>

(* Mutant: the first statement is finalized before the second is made.     *)
MutCheckName(p) ==
    /\ At(p, "called") /\ call[p].op = "check_user" /\ db[p] = "open"
    /\ \E row \in Row(p) : IF row THEN Goto(p, "match") ELSE Return(p, 1)
    /\ UNCHANGED <<file, writer, db, leak, loaded, list>>

(* check_user: its first statement, found, is overwritten by the second    *)
(* and never finalized.                                                    *)
CheckName(p) ==
    /\ At(p, "called") /\ call[p].op = "check_user" /\ db[p] = "open"
    /\ \/ FALSE \in Row(p) /\ Return(p, 1) /\ UNCHANGED leak
       \/ /\ TRUE \in Row(p) /\ Goto(p, "match")
          /\ leak' = [leak EXCEPT ![p] = @ \cup {"row"}]
    /\ UNCHANGED <<file, writer, db, loaded, list>>

CheckPassword(p) ==
    /\ At(p, "match")
    /\ \/ /\ users[call[p].name] = call[p].password \/ Quotes(call[p])
          /\ ~Blocked(p) /\ Return(p, 0)
       \/ /\ users[call[p].name] # call[p].password \/ Quotes(call[p]) \/ Blocked(p)
          /\ Return(p, 2)
    /\ UNCHANGED <<file, writer, db, leak, loaded, list>>

-----------------------------------------------------------------------------
(* A statement that writes: create table, insert or delete.                *)
Writes(p) ==
    \/ At(p, "exec")
    \/ At(p, "called") /\ db[p] = "open" /\ call[p].op \in {"save_log", "delete_room"}
    \/ At(p, "called") /\ call[p].op = "open_db" /\ schema < SQL_INIT_SIZE

(* Mutant: the users table has no primary key.                             *)
MutViolatesKey(p) == FALSE
ViolatesKey(p) ==
    call[p].op = "create_user" /\ ~Quotes(call[p]) /\ users[call[p].name] # NoUser

CanReserve(p) == ~Blocked(p) /\ writer = Nobody /\ ~ViolatesKey(p)

Reserve(p) ==
    /\ Writes(p)
    /\ \/ (~CanReserve(p) \/ Quotes(call[p])) /\ Fail(p)
       \/ /\ CanReserve(p)
          /\ Goto(p, "reserved") /\ writer' = p /\ UNCHANGED <<file, db, leak, loaded, list>>

Lock(p) ==
    /\ At(p, "reserved")
    /\ IF \E q \in Procs \ {p} : Reads(q) THEN Fail(p)
       ELSE Goto(p, "exclusive") /\ UNCHANGED <<file, writer, db, leak, loaded, list>>

(* What a committed statement has done.                                    *)
Write(c) ==
    /\ schema' = IF c.op = "open_db" THEN schema + 1 ELSE schema
    /\ IF c.op = "create_user" /\ Quotes(c)
       THEN users' \in SpliceResults \cup {users} /\ spliced' = TRUE
       ELSE /\ users' = IF c.op = "create_user"
                        THEN [users EXCEPT ![c.name] = c.password] ELSE users
            /\ UNCHANGED spliced
    /\ rooms' = CASE c.op = "create_room" -> [rooms EXCEPT ![c.room] = @ + 1]
                  [] c.op = "delete_room" -> [rooms EXCEPT ![c.room] = 0]
                  [] OTHER -> rooms
    /\ logs' = IF c.op = "save_log" THEN logs + 1 ELSE logs

(* Of a text with a quote, what comes after the insert may still fail.     *)
Commit(p) ==
    /\ At(p, "exclusive")
    /\ Write(call[p])
    /\ writer' = Nobody
    /\ \/ call[p].op # "open_db" /\ Return(p, 0) /\ UNCHANGED db
       \/ Quotes(call[p]) /\ GiveUp(p)
       \/ /\ call[p].op = "open_db"
          /\ IF schema' = SQL_INIT_SIZE THEN Opened(p) ELSE Goto(p, "called")
          /\ UNCHANGED db
    /\ UNCHANGED <<leak, loaded, list>>

-----------------------------------------------------------------------------
(* list_rooms reads the rows in one call of sqlite, and a busy file has    *)
(* none.  From its list load_rooms adds one room after the other in front  *)
(* of the bucket's list, while the other processes may write to the file.  *)
ListRooms(p) ==
    /\ At(p, "called") /\ call[p].op = "list_rooms" /\ db[p] = "open"
    /\ \/ Blocked(p) /\ Return(p, 0) /\ UNCHANGED list
       \/ /\ ~Blocked(p) /\ Goto(p, "listing")
          /\ save_room' = [save_room EXCEPT ![p] = rooms]
          /\ default_room' = [default_room EXCEPT ![p] = rooms]
    /\ UNCHANGED <<file, writer, db, leak, loaded>>

ListDone(p) ==
    /\ At(p, "listing")
    /\ Goto(p, "loading")
    /\ UNCHANGED <<file, writer, db, leak, loaded, list>>

MutAddRoom(table, r) == [table EXCEPT ![BKDRHash[r]] = <<r>>]  \* mutant: next lost
AddRoom(table, r) == [table EXCEPT ![BKDRHash[r]] = <<r>> \o @]

LoadRoom(p) ==
    /\ At(p, "loading")
    /\ \E r \in RoomNames :
          /\ default_room[p][r] > 0
          /\ default_room' = [default_room EXCEPT ![p][r] = @ - 1]
          /\ loaded' = [loaded EXCEPT ![p] = AddRoom(@, r)]
    /\ UNCHANGED <<file, writer, pc, call, ret, todo, db, leak, save_room>>

LoadDone(p) ==
    /\ At(p, "loading") /\ default_room[p] = NoRows
    /\ Return(p, 0)
    /\ save_room' = [save_room EXCEPT ![p] = NoRows]
    /\ UNCHANGED <<file, writer, db, leak, loaded, default_room>>

(* find_room looks in the bucket of the name only.                         *)
FindRoom(p, r) == r \in ToSet(loaded[p][BKDRHash[r]])

-----------------------------------------------------------------------------
InCall(p) ==
    \/ UseClosed(p) \/ OpenFails(p) \/ SqlInit(p)
    \/ Forbid(p) \/ SqlError(p) \/ Lookup(p) \/ Duplicate(p)
    \/ CheckName(p) \/ CheckPassword(p)
    \/ Reserve(p) \/ Lock(p) \/ Commit(p)
    \/ ListRooms(p) \/ ListDone(p) \/ LoadRoom(p) \/ LoadDone(p)

Next == \E p \in Procs : Start(p) \/ Call(p) \/ Die(p) \/ InCall(p)

Spec == Init /\ [][Next]_vars

(* A process in a call is run by the scheduler.                            *)
FairSpec == Spec /\ \A p \in Procs : WF_vars(InCall(p))

-----------------------------------------------------------------------------
(* Type invariant.                                                         *)
TypeOK ==
    /\ schema \in 0 .. SQL_INIT_SIZE
    /\ users \in [UserNames -> Passwords \cup {NoUser}]
    /\ rooms \in [RoomNames -> Nat] /\ logs \in Nat /\ spliced \in BOOLEAN
    /\ writer \in Procs \cup {Nobody}
    /\ pc \in [Procs -> {"off", "idle", "called", "found", "match", "exec",
                         "reserved", "exclusive", "listing", "loading"}]
    /\ \A p \in Procs : writer = p <=> pc[p] \in {"reserved", "exclusive"}
    /\ call \in [Procs -> AccountCalls \cup RoomCalls \cup PlainCalls
                             \cup [op : {"open_db", "list_rooms"}]]
    /\ ret \in [Procs -> -1 .. 2]
    /\ db \in [Procs -> {"NULL", "open", "closed"}]
    /\ leak \in [Procs -> SUBSET {"done", "row"}]
    /\ loaded \in [Procs -> [Buckets -> Seq(RoomNames)]]
    /\ {save_room, default_room} \subseteq [Procs -> [RoomNames -> Nat]]
    /\ calls \in 0 .. MaxCalls /\ deaths \in 0 .. MaxDeaths

Returned(p, op) == pc[p] = "idle" /\ call[p].op = op
PasswordOf(p) == users[call[p].name]

(* create_user closes the handle of the whole server when its insert fails.*)
(* It never gets away with it: the lookup's statement, which nobody        *)
(* finalizes, makes sqlite3_close refuse.  Only open_db closes a handle.   *)
HandleStaysOpen ==
    [][\A p \in Procs : db[p] = "open" /\ db'[p] = "closed" => call[p].op = "open_db"]_vars

(* Although create_user looks for the name and inserts it in two steps, no *)
(* interleaving of processes, failed write or crash replaces or removes an *)
(* account: only an insert with a quote in it, which says what it likes.   *)
AccountsStand ==
    [][\A u \in UserNames :
          users[u] # NoUser /\ users'[u] # users[u] =>
              \E p \in Procs :
                 pc[p] = "exclusive" /\ call[p].op = "create_user" /\ Quotes(call[p])]_vars

(* Where create_user returned 0 there is an account with the name, also    *)
(* when another process was writing while it looked: if the name has no    *)
(* quote, which might find a row of another, and no insert had one.        *)
CreatedAccountIsThere ==
    \A p \in Procs :
        Returned(p, "create_user") /\ ret[p] = 0 /\ ~spliced /\ ~QuotedName(call[p])
            => PasswordOf(p) # NoUser

(* check_user's 0 and 2 are true: the pair is there, or the name is with   *)
(* another password.  That no other process can make the second of its two *)
(* statements fail is due to the lock the first one leaks.  Of a name or a *)
(* password with a quote nothing is said: the 0 may be for any account.    *)
CheckTruth ==
    \A p \in Procs :
        Returned(p, "check_user") /\ ~spliced /\ ~Quotes(call[p]) =>
            /\ ret[p] = 0 => PasswordOf(p) = call[p].password
            /\ ret[p] = 2 => PasswordOf(p) \notin {NoUser, call[p].password}

(* The list of list_rooms is table rooms until its lock is released, and   *)
(* find_room finds the names of that list after load_rooms and no others,  *)
(* whichever share a bucket or have two rows, whoever writes to the file   *)
(* in between.                                                             *)
LoadedAreFound ==
    [][\A p \in Procs :
          /\ pc[p] = "listing" /\ pc'[p] = "loading" => save_room[p] = rooms'
          /\ pc[p] = "loading" /\ pc'[p] = "idle" =>
                \A r \in RoomNames : FindRoom(p, r) <=> save_room[p][r] > 0]_vars

(* No call waits for another process: with writers and readers, leaked     *)
(* locks and deaths all around, each ends.                                 *)
CallsEnd ==
    \A p \in Procs : pc[p] \notin {"off", "idle"} ~> pc[p] \in {"off", "idle"}
=============================================================================
