------------------------------- MODULE Lifecycle -------------------------------
(***************************************************************************)
(* Server processes coming and going on one machine: main() of dtalk_s.c   *)
(* with its pid file, the signals, the database that open_db completes     *)
(* with the default users and rooms, and the port the listener binds.      *)
(*                                                                         *)
(* A process is known by its pid; the fork of run_as_daemon, which gives   *)
(* it another one before it is written anywhere, is not shown.  What ran   *)
(* under a pid may end at any time, and the pid is then used again, by the *)
(* server or by some other program.                                        *)
(***************************************************************************)
EXTENDS Naturals, SequencesExt

CONSTANTS
    Pids,
    NoFile,       \* there is no pid file
    Empty,        \* it has been opened for writing, and no pid is in it
    NoServer,     \* nobody has bound the port
    TimeWait,     \* connections of a dead server still hold it
    Defaults,     \* create_default_user_room: <<table, name>>, in order
    MaxRows       \* bound: rows of table rooms beyond which no lookup fails

ASSUME LifecycleAssumption ==
    /\ {NoFile, Empty, NoServer, TimeWait} \cap Pids = {}
    /\ NoFile # Empty
    /\ Defaults \in Seq({"users", "rooms"} \X STRING)
    /\ MaxRows \in Nat

VARIABLES
    pc,       \* where the process is; "none" if there is none with that pid
    mode,     \* runMode
    file,     \* the pid file: NoFile, Empty or the pid it holds
    linked,   \* whether dtalk_s_fd is still the file of that name
    seen,     \* check_pid: the pid it read
    pending,  \* INT or TERM is pending and blocked
    item,     \* the default create_default_user_room is at
    users,    \* table users: username is its primary key
    rooms,    \* table rooms, which has no key
    loaded,   \* the rooms load_rooms found
    port,     \* NoServer, TimeWait or the pid of the process that bound it
    alone     \* history: no other server was there while it came up

vars == <<pc, mode, file, linked, seen, pending, item, users, rooms, loaded,
          port, alone>>
fileVars == <<file, linked>>
dbVars == <<users, rooms>>
own == <<seen, item, loaded>>

Named(table) == {Defaults[i][2] : i \in {j \in DOMAIN Defaults : Defaults[j][1] = table}}

Alive(p) == pc[p] # "none"
Instance(p) == Alive(p) /\ pc[p] # "other"
InDatabase == {"open", "lookup", "insert", "load"}
Starting(p) == Instance(p) /\ pc[p] # "serving"
SignalsBlocked(p) == pc[p] \in InDatabase \cup {"bind", "serving"}

Init ==
    /\ pc = [p \in Pids |-> "none"]
    /\ mode = [p \in Pids |-> "DEBUG"]
    /\ file = NoFile
    /\ linked = [p \in Pids |-> FALSE]
    /\ seen = [p \in Pids |-> Empty]
    /\ pending = [p \in Pids |-> FALSE]
    /\ item = [p \in Pids |-> 1]
    /\ users = {} /\ rooms = <<>>
    /\ loaded = [p \in Pids |-> {}]
    /\ port = NoServer
    /\ alone = [p \in Pids |-> FALSE]

-----------------------------------------------------------------------------
Step(p, from, to) == pc[p] = from /\ pc' = [pc EXCEPT ![p] = to]

(* The process is gone, with what the kernel kept for it.  close() on the  *)
(* listener is implied; its connections may linger.                        *)
Gone(p) ==
    /\ pc' = [pc EXCEPT ![p] = "none"]
    /\ linked' = [linked EXCEPT ![p] = FALSE]
    /\ seen' = [seen EXCEPT ![p] = Empty]
    /\ pending' = [pending EXCEPT ![p] = FALSE]
    /\ item' = [item EXCEPT ![p] = 1]
    /\ loaded' = [loaded EXCEPT ![p] = {}]
    /\ mode' = [mode EXCEPT ![p] = "DEBUG"]
    /\ alone' = [alone EXCEPT ![p] = FALSE]
    /\ port' \in IF port = p THEN {NoServer, TimeWait} ELSE {port}

(* main: parse_option.                                                     *)
Start(p) ==
    /\ Step(p, "none", "check")
    /\ mode' \in {[mode EXCEPT ![p] = m] : m \in {"DAEMON", "DEBUG"}}
    /\ alone' = [q \in Pids |->
                   IF q = p THEN \A r \in Pids : ~Instance(r)
                   ELSE alone[q] /\ ~Starting(q)]
    /\ UNCHANGED <<fileVars, own, pending, dbVars, port>>

(* Mutant: no test that there is a file.                                   *)
MutReadPidFile(p) ==
    /\ Step(p, "check", "test")
    /\ seen' = [seen EXCEPT ![p] = file]
    /\ UNCHANGED <<mode, fileVars, pending, item, loaded, dbVars, port, alone>>

(* check_pid: stat and read.  An empty file is read as pid 0.              *)
ReadPidFile(p) ==
    /\ \/ Step(p, "check", "save") /\ file = NoFile /\ UNCHANGED seen
       \/ Step(p, "check", "test") /\ file # NoFile
          /\ seen' = [seen EXCEPT ![p] = file]
    /\ UNCHANGED <<mode, fileVars, pending, item, loaded, dbVars, port, alone>>

(* Mutant: the file alone decides, whether its process runs or not.        *)
MutTestPid(p) ==
    /\ Step(p, "test", "unlink")
    /\ UNCHANGED <<mode, fileVars, own, pending, dbVars, port, alone>>

(* kill(pid, 0): the process that was read runs, and this one gives up; or *)
(* it does not, and the file is to be removed.                             *)
TestPid(p) ==
    \/ /\ pc[p] = "test" /\ seen[p] \in Pids /\ Alive(seen[p])
       /\ Gone(p)
       /\ UNCHANGED <<file, dbVars>>
    \/ /\ Step(p, "test", "unlink")
       /\ ~(seen[p] \in Pids /\ Alive(seen[p]))
       /\ UNCHANGED <<mode, fileVars, own, pending, dbVars, port, alone>>

(* Whatever file has the name by now.                                      *)
Unlink(p) ==
    /\ Step(p, "unlink", "save")
    /\ file' = NoFile
    /\ linked' = [q \in Pids |-> FALSE]
    /\ UNCHANGED <<mode, own, pending, dbVars, port, alone>>

(* run_as_daemon: only a daemon has a pid file; fopen truncates it.        *)
OpenPidFile(p) ==
    \/ /\ Step(p, "save", "write") /\ mode[p] = "DAEMON"
       /\ file' = Empty
       /\ linked' = [linked EXCEPT ![p] = TRUE]
       /\ UNCHANGED <<mode, own, pending, dbVars, port, alone>>
    \/ /\ Step(p, "save", "signals") /\ mode[p] = "DEBUG"
       /\ UNCHANGED <<mode, fileVars, own, pending, dbVars, port, alone>>

WritePid(p) ==
    /\ Step(p, "write", "signals")
    /\ file' = IF linked[p] THEN p ELSE file
    /\ UNCHANGED <<linked, mode, own, pending, dbVars, port, alone>>

(* INT, TERM and HUP are blocked from here on, in every thread.            *)
InstallSignalsHandler(p) ==
    /\ Step(p, "signals", "open")
    /\ UNCHANGED <<mode, fileVars, own, pending, dbVars, port, alone>>

-----------------------------------------------------------------------------
(* daemon_init: open_db and create_default_user_room, create_user and      *)
(* create_room for each default: a lookup, then an insert of its own.      *)
(* Somebody else can hold a lock of the database.                          *)
Contended(p) == \E q \in Pids \ {p} : pc[q] \in InDatabase \cup {"serving"}

(* A create table that finds the file locked closes the handle, open_db    *)
(* returns -1, and nobody looks: with the closed handle load_rooms finds   *)
(* no room, unless the process dies of it.                                 *)
OpenDb(p) ==
    /\ \/ Step(p, "open", "lookup")
       \/ Step(p, "open", "bind") /\ Contended(p)
    /\ UNCHANGED <<mode, fileVars, own, pending, dbVars, port, alone>>

AtItem(p) == item[p] <= Len(Defaults)
Found(d) == IF d[1] = "users" THEN d[2] \in users ELSE d[2] \in ToSet(rooms)
NextItem(p) == item' = [item EXCEPT ![p] = @ + 1]

(* Mutant: only a table with a first row is taken as complete.             *)
MutLookup(p) ==
    /\ \/ Step(p, "lookup", "load") /\ ~AtItem(p) /\ UNCHANGED item
       \/ Step(p, "lookup", "insert") /\ AtItem(p) /\ users = {}
          /\ UNCHANGED item
       \/ Step(p, "lookup", "load") /\ AtItem(p) /\ users # {}
          /\ UNCHANGED item
    /\ UNCHANGED <<mode, fileVars, seen, loaded, pending, dbVars, port, alone>>

(* A lookup that finds the file locked has found nothing.                  *)
Lookup(p) ==
    /\ \/ Step(p, "lookup", "load") /\ ~AtItem(p) /\ UNCHANGED item
       \/ Step(p, "lookup", "lookup") /\ AtItem(p) /\ Found(Defaults[item[p]])
          /\ NextItem(p)
       \/ Step(p, "lookup", "insert") /\ AtItem(p) /\ UNCHANGED item
          /\ \/ ~Found(Defaults[item[p]])
             \/ Contended(p) /\ Len(rooms) < MaxRows
    /\ UNCHANGED <<mode, fileVars, seen, loaded, pending, dbVars, port, alone>>

InsertRow(d) ==
    IF d[1] = "users" THEN users' = users \cup {d[2]} /\ UNCHANGED rooms
                      ELSE rooms' = Append(rooms, d[2]) /\ UNCHANGED users

(* Mutant: tried again until it succeeds.                                  *)
MutInsert(p) ==
    /\ Step(p, "insert", "lookup")
    /\ \/ NextItem(p) /\ InsertRow(Defaults[item[p]])
       \/ Contended(p) /\ UNCHANGED <<item, dbVars>>
    /\ UNCHANGED <<mode, fileVars, seen, loaded, pending, port, alone>>

(* A failed insert is logged, and its result is ignored.  The sqlite3_close*)
(* after it fails as well: the lookup's statement was never finalized.     *)
Insert(p) ==
    /\ Step(p, "insert", "lookup") /\ NextItem(p)
    /\ \/ InsertRow(Defaults[item[p]])
       \/ Contended(p) /\ UNCHANGED dbVars
    /\ UNCHANGED <<mode, fileVars, seen, loaded, pending, port, alone>>

(* list_rooms gives every row, or none if the file is locked; load_rooms   *)
(* makes a room of each, and of two with one name find_room only ever      *)
(* finds the one added last.                                               *)
ListRooms(p) == {ToSet(rooms)} \cup (IF Contended(p) THEN {{}} ELSE {})

LoadRooms(p) ==
    /\ Step(p, "load", "bind")
    /\ \E found \in ListRooms(p) : loaded' = [loaded EXCEPT ![p] = found]
    /\ UNCHANGED <<mode, fileVars, seen, item, pending, dbVars, port, alone>>

(* The listener thread: create_and_bind, or log_quit, which ends the       *)
(* process and leaves the pid file.                                        *)
Bind(p) ==
    \/ /\ Step(p, "bind", "serving") /\ port = NoServer
       /\ port' = p
       /\ UNCHANGED <<mode, fileVars, own, pending, dbVars, alone>>
    \/ /\ pc[p] = "bind" /\ port # NoServer
       /\ Gone(p)
       /\ UNCHANGED <<file, dbVars>>

-----------------------------------------------------------------------------
(* INT or TERM.  daemon_init waits for a listener that never returns, so   *)
(* run() with its sigwait, and unlink_pidfile after it, are not reached.   *)
Terminate(p) ==
    /\ Instance(p)
    /\ \/ SignalsBlocked(p) /\ pending' = [pending EXCEPT ![p] = TRUE]
          /\ UNCHANGED <<pc, mode, fileVars, own, dbVars, port, alone>>
       \/ ~SignalsBlocked(p) /\ Gone(p) /\ UNCHANGED <<file, dbVars>>

(* KILL, an abort in fatal_signal_handler, a failure of the machine.       *)
Die(p) == Instance(p) /\ Gone(p) /\ UNCHANGED <<file, dbVars>>

(* The rest of the machine.                                                *)
OtherStarts(p) ==
    /\ Step(p, "none", "other")
    /\ UNCHANGED <<mode, fileVars, own, pending, dbVars, port, alone>>
OtherEnds(p) ==
    /\ Step(p, "other", "none")
    /\ UNCHANGED <<mode, fileVars, own, pending, dbVars, port, alone>>
TimeWaitEnds ==
    /\ port = TimeWait /\ port' = NoServer
    /\ UNCHANGED <<pc, mode, fileVars, own, pending, dbVars, alone>>

ServerStep(p) ==
    \/ ReadPidFile(p) \/ TestPid(p) \/ Unlink(p) \/ OpenPidFile(p) \/ WritePid(p)
    \/ InstallSignalsHandler(p)
    \/ OpenDb(p) \/ Lookup(p) \/ Insert(p) \/ LoadRooms(p) \/ Bind(p)

Next ==
    \/ \E p \in Pids : Start(p) \/ ServerStep(p) \/ Terminate(p) \/ Die(p)
    \/ \E p \in Pids : OtherStarts(p) \/ OtherEnds(p)
    \/ TimeWaitEnds

Spec == Init /\ [][Next]_vars

(* A process that can take a step is scheduled.                            *)
FairSpec == Spec /\ \A p \in Pids : WF_vars(ServerStep(p))

-----------------------------------------------------------------------------
(* Type invariant.                                                         *)
TypeOK ==
    /\ pc \in [Pids -> {"none", "other", "check", "test", "unlink", "save",
                        "write", "signals", "open", "lookup", "insert", "load", "bind",
                        "serving"}]
    /\ mode \in [Pids -> {"DAEMON", "DEBUG"}]
    /\ file \in Pids \cup {NoFile, Empty}
    /\ linked \in [Pids -> BOOLEAN]
    /\ seen \in [Pids -> Pids \cup {Empty}]
    /\ pending \in [Pids -> BOOLEAN]
    /\ item \in [Pids -> 1 .. Len(Defaults) + 1]
    /\ users \subseteq Named("users")
    /\ rooms \in Seq(Named("rooms"))
    /\ loaded \in [Pids -> SUBSET Named("rooms")]
    /\ port \in Pids \cup {NoServer, TimeWait}
    /\ alone \in [Pids -> BOOLEAN]

(* A daemon that came up with no other server on the machine is named by   *)
(* the pid file for as long as it serves, whatever starts afterwards:      *)
(* check_pid sends every later start away before it touches the file.      *)
PidFileNamesLoneServer ==
    \A p \in Pids :
        pc[p] = "serving" /\ mode[p] = "DAEMON" /\ alone[p] => file = p

(* Such a server has all the default users and rooms, although an earlier  *)
(* start may have died between any two of the inserts.                     *)
LoneServerHasDefaults ==
    \A p \in Pids :
        pc[p] = "serving" /\ alone[p] =>
            /\ Named("users") \subseteq users
            /\ loaded[p] = Named("rooms")

(* Every start comes to an end, serving or gone: no step of it waits for   *)
(* another process.                                                        *)
StartsEnd == \A p \in Pids : Starting(p) ~> ~Starting(p)

=============================================================================
