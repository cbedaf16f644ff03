---------------------------- MODULE Database_proofs ----------------------------
(***************************************************************************)
(* For any number of processes on one file, with any accounts, calls and   *)
(* deaths: only open_db ever closes a handle, no account is replaced, and  *)
(* the results of create_user and check_user are true.  The last two are   *)
(* shown of texts without a quote: of a statement that got one, any        *)
(* outcome the module admits is admitted here.                             *)
(***************************************************************************)
EXTENDS Database, SequenceTheorems, TLAPS

Creates == {"create_user", "create_room"}
Writing == {"reserved", "exclusive"}
Every == AccountCalls \cup RoomCalls \cup PlainCalls \cup [op : {"open_db", "list_rooms"}]

(* Of the type invariant, what the other parts need.                       *)
Control ==
    /\ pc \in [Procs -> {"off", "idle", "called", "found", "match", "exec",
                         "reserved", "exclusive", "listing", "loading"}]
    /\ call \in [Procs -> Every]
    /\ ret \in [Procs -> -1 .. 2]
    /\ todo \in [Procs -> Seq(Every)]

Types ==
    /\ Control
    /\ users \in [UserNames -> Passwords \cup {NoUser}] /\ spliced \in BOOLEAN
    /\ writer \in Procs \cup {Nobody}
    /\ db \in [Procs -> {"NULL", "open", "closed"}]
    /\ leak \in [Procs -> SUBSET {"done", "row"}]

WriterInv == \A p \in Procs : writer = p <=> pc[p] \in Writing

(* A place in a function is reached from its beginning only.               *)
OpInv ==
    \A p \in Procs :
        /\ pc[p] \in {"found", "exec"} => call[p].op \in Creates
        /\ pc[p] = "match" => call[p].op = "check_user"
        /\ pc[p] \in {"listing", "loading"} => call[p].op = "list_rooms"
        /\ pc[p] \in Writing => call[p].op \notin {"check_user", "list_rooms"}

(* An insert comes after a lookup whose statement is still open.           *)
LeakInv ==
    \A p \in Procs :
        pc[p] \in {"exec"} \cup Writing /\ call[p].op \in Creates => leak[p] # {}

(* Who has the reserved lock for a name is the only one to insert it.      *)
KeyInv ==
    \A p \in Procs :
        pc[p] \in Writing /\ call[p].op = "create_user" /\ ~Quotes(call[p])
            => PasswordOf(p) = NoUser

(* Nobody reads while somebody writes.                                     *)
LockInv ==
    \A p, q \in Procs : p # q /\ pc[q] = "exclusive" => ~Reads(p)

(* What a lookup has found stays found.                                    *)
FoundInv ==
    \A p \in Procs :
        /\ pc[p] = "match" => "row" \in leak[p]
        /\ /\ pc[p] = "match" \/ (pc[p] = "found" /\ call[p].op = "create_user")
           /\ ~spliced /\ ~QuotedName(call[p])
           => PasswordOf(p) # NoUser

IInv ==
    /\ Types /\ WriterInv /\ OpInv /\ LeakInv /\ KeyInv /\ LockInv /\ FoundInv
    /\ CreatedAccountIsThere /\ CheckTruth

-----------------------------------------------------------------------------
LEMMA AccountOf ==
    ASSUME Types, NEW p \in Procs, call[p].op \in {"create_user", "check_user"}
    PROVE  /\ call[p].name \in UserNames
           /\ call[p].password \in Passwords /\ call[p].password # NoUser
<1>1. call[p] \in Every
    BY DEF Types, Control
<1>2. call[p] \in AccountCalls
    BY <1>1 DEF Every, AccountCalls, RoomCalls, PlainCalls
<1> QED
    BY <1>2, DatabaseAssumption DEF AccountCalls

LEMMA ToDo ==
    /\ LoadRooms \in Seq(Every)
    /\ Defaults \o LoadRooms \in Seq(Every)
<1>1. [op |-> "list_rooms"] \in Every
    BY DEF Every
<1>2. LoadRooms \in Seq(Every)
    BY <1>1 DEF LoadRooms
<1>3. Defaults \in Seq(AccountCalls \cup RoomCalls)
    BY DatabaseAssumption
<1>4. Defaults \in Seq(Every)
    BY <1>3 DEF Every
<1> QED
    BY <1>2, <1>4, ConcatProperties

LEMMA InitIInv == Init => IInv
<1> SUFFICES ASSUME Init PROVE IInv
    OBVIOUS
<1>1. Types /\ WriterInv
    <2>1. [op |-> "open_db"] \in Every
        BY DEF Every
    <2>2. <<>> \in Seq(Every)
        OBVIOUS
    <2>3. Control
        BY <2>1, <2>2 DEF Init, Control
    <2>4. /\ users \in [UserNames -> Passwords \cup {NoUser}] /\ spliced \in BOOLEAN
          /\ writer \in Procs \cup {Nobody}
        BY DEF Init
    <2>5. /\ db \in [Procs -> {"NULL", "open", "closed"}]
          /\ leak \in [Procs -> SUBSET {"done", "row"}]
        BY DEF Init
    <2> QED
        BY <2>3, <2>4, <2>5, DatabaseAssumption DEF Init, Types, WriterInv, Writing
<1>2. OpInv /\ LeakInv /\ KeyInv /\ LockInv /\ FoundInv
    BY DEF Init, OpInv, LeakInv, KeyInv, LockInv, FoundInv, Reads, Writing
<1>3. CreatedAccountIsThere /\ CheckTruth
    BY DEF Init, CreatedAccountIsThere, CheckTruth, Returned
<1> QED
    BY <1>1, <1>2, <1>3 DEF IInv

-----------------------------------------------------------------------------
StepOf(p) == Start(p) \/ Call(p) \/ Die(p) \/ InCall(p)

(* A step of one process leaves the entries of the others alone.           *)
Framed(p) ==
    \A q \in Procs \ {p} :
        /\ pc'[q] = pc[q] /\ call'[q] = call[q] /\ ret'[q] = ret[q]
        /\ leak'[q] = leak[q] /\ db'[q] = db[q] /\ todo'[q] = todo[q]

LEMMA Frame ==
    ASSUME Types, NEW p \in Procs, StepOf(p)
    PROVE  Framed(p)
<1> USE DEF Framed, process, file, At, Goto, Return, Died, Fail, GiveUp, Opened, Types, Control
<1>1. CASE Start(p) \/ Call(p) \/ Die(p)
    BY <1>1 DEF Start, Call, Die
<1>2. CASE UseClosed(p) \/ OpenFails(p) \/ SqlInit(p) \/ Forbid(p) \/ SqlError(p)
    BY <1>2 DEF UseClosed, OpenFails, SqlInit, Forbid, SqlError
<1>3. CASE Lookup(p) \/ Duplicate(p) \/ CheckName(p) \/ CheckPassword(p)
    BY <1>3 DEF Lookup, Duplicate, CheckName, CheckPassword
<1>4. CASE Reserve(p) \/ Lock(p)
    BY <1>4 DEF Reserve, Writes, Lock
<1>5. CASE Commit(p)
    BY <1>5 DEF Commit
<1>6. CASE ListRooms(p) \/ ListDone(p) \/ LoadRoom(p) \/ LoadDone(p)
    BY <1>6 DEF ListRooms, ListDone, LoadRoom, LoadDone
<1> QED
    BY <1>1, <1>2, <1>3, <1>4, <1>5, <1>6 DEF StepOf, InCall

(* Only the commit of an insert changes table users.                       *)
LEMMA UsersStep ==
    ASSUME NEW p \in Procs, StepOf(p)
    PROVE  \/ UNCHANGED <<users, spliced>>
           \/ /\ Commit(p) /\ call[p].op = "create_user" /\ Quotes(call[p])
              /\ users' \in SpliceResults \cup {users} /\ spliced' = TRUE
           \/ /\ Commit(p) /\ call[p].op = "create_user" /\ ~Quotes(call[p])
              /\ users' = [users EXCEPT ![call[p].name] = call[p].password]
              /\ UNCHANGED spliced
<1> USE DEF process, file, At, Goto, Return, Died, Fail, GiveUp, Opened
<1>1. CASE Start(p) \/ Call(p) \/ Die(p)
    BY <1>1 DEF Start, Call, Die
<1>2. CASE UseClosed(p) \/ OpenFails(p) \/ SqlInit(p) \/ Forbid(p) \/ SqlError(p)
    BY <1>2 DEF UseClosed, OpenFails, SqlInit, Forbid, SqlError
<1>3. CASE Lookup(p) \/ Duplicate(p) \/ CheckName(p) \/ CheckPassword(p)
    BY <1>3 DEF Lookup, Duplicate, CheckName, CheckPassword
<1>4. CASE Reserve(p) \/ Lock(p)
    BY <1>4 DEF Reserve, Lock
<1>5. CASE Commit(p)
    BY <1>5 DEF Commit, Write
<1>6. CASE ListRooms(p) \/ ListDone(p) \/ LoadRoom(p) \/ LoadDone(p)
    BY <1>6 DEF ListRooms, ListDone, LoadRoom, LoadDone
<1> QED
    BY <1>1, <1>2, <1>3, <1>4, <1>5, <1>6 DEF StepOf, InCall

LEMMA ControlMoves ==
    ASSUME Control, NEW p \in Procs,
           \/ Goto(p, "called") \/ Goto(p, "found") \/ Goto(p, "match")
           \/ Goto(p, "exec") \/ Goto(p, "reserved") \/ Goto(p, "exclusive")
           \/ Goto(p, "listing") \/ Goto(p, "loading")
           \/ Return(p, -1) \/ Return(p, 0) \/ Return(p, 1) \/ Return(p, 2)
           \/ Opened(p) \/ Died(p)
    PROVE  Control'
<1>1. CASE Died(p)
    <2>1. [op |-> "open_db"] \in Every /\ <<>> \in Seq(Every)
        BY DEF Every
    <2> QED
        BY <1>1, <2>1 DEF Died, Control
<1>2. CASE Opened(p)
    BY <1>2, ToDo DEF Opened, Control
<1>3. ASSUME NEW r \in -1 .. 2, Return(p, r) PROVE Control'
    <2>1. pc' \in [Procs -> {"off", "idle", "called", "found", "match", "exec",
                             "reserved", "exclusive", "listing", "loading"}]
        BY <1>3 DEF Return, Control
    <2>2. ret' \in [Procs -> -1 .. 2]
        BY <1>3 DEF Return, Control
    <2> QED
        BY <1>3, <2>1, <2>2 DEF Return, Control
<1>4. ASSUME NEW to \in {"called", "found", "match", "exec", "reserved", "exclusive",
                         "listing", "loading"}, Goto(p, to)
      PROVE  Control'
    BY <1>4 DEF Goto, Control
<1>5. -1 \in -1 .. 2 /\ 0 \in -1 .. 2 /\ 1 \in -1 .. 2 /\ 2 \in -1 .. 2
    OBVIOUS
<1> QED
    BY <1>1, <1>2, <1>3, <1>4, <1>5

LEMMA NextTypes ==
    ASSUME Types, NEW p \in Procs, StepOf(p)
    PROVE  Types'
<1> USE DEF process, file, At, Types
<1>1. users' \in [UserNames -> Passwords \cup {NoUser}] /\ spliced' \in BOOLEAN
    BY UsersStep, AccountOf, DatabaseAssumption
<1>2. CASE Start(p)
    <2>1. [op |-> "open_db"] \in Every
        BY DEF Every
    <2> QED
        BY <1>1, <1>2, <2>1, ToDo DEF Start, Control
<1>3. CASE Call(p)
    <2>1. \A c \in Calls : c \in Every
        BY DatabaseAssumption DEF Every
    <2>2. todo[p] # <<>> => Head(todo[p]) \in Every /\ Tail(todo[p]) \in Seq(Every)
        BY HeadTailProperties DEF Control
    <2>3. call' \in [Procs -> Every]
        BY <1>3, <2>1, <2>2 DEF Call, Control
    <2>4. todo' \in [Procs -> Seq(Every)]
        <3>1. CASE UNCHANGED todo
            BY <3>1 DEF Control
        <3>2. CASE todo[p] # <<>> /\ todo' = [todo EXCEPT ![p] = Tail(@)]
            BY <2>2, <3>2 DEF Control
        <3> QED
            BY <1>3, <3>1, <3>2 DEF Call
    <2> QED
        BY <1>1, <1>3, <2>3, <2>4 DEF Call, Control
<1>4. CASE Die(p) \/ UseClosed(p)
    <2>1. Control'
        BY <1>4, ControlMoves DEF Die, UseClosed
    <2> QED
        BY <1>1, <1>4, <2>1 DEF Die, UseClosed, Died
<1>5. CASE OpenFails(p)
    <2>1. Control'
        BY <1>5, ControlMoves DEF OpenFails, Fail, GiveUp
    <2> QED
        BY <1>1, <1>5, <2>1 DEF OpenFails, Fail, GiveUp
<1>6. CASE SqlInit(p) \/ Forbid(p) \/ SqlError(p)
    <2>1. Control'
        BY <1>6, ControlMoves DEF SqlInit, Forbid, SqlError
    <2> QED
        BY <1>1, <1>6, <2>1 DEF SqlInit, Forbid, SqlError
<1>7. CASE Lookup(p) \/ Duplicate(p)
    <2>1. Control'
        BY <1>7, ControlMoves DEF Lookup, Duplicate
    <2> QED
        BY <1>1, <1>7, <2>1 DEF Lookup, Duplicate
<1>8. CASE CheckName(p) \/ CheckPassword(p)
    <2>1. Control'
        BY <1>8, ControlMoves DEF CheckName, CheckPassword
    <2>2. leak' \in [Procs -> SUBSET {"done", "row"}]
        <3>1. \/ UNCHANGED leak
              \/ leak' = [leak EXCEPT ![p] = @ \cup {"row"}]
            BY <1>8 DEF CheckName, CheckPassword
        <3> QED
            BY <3>1
    <2>3. UNCHANGED <<writer, db>>
        BY <1>8 DEF CheckName, CheckPassword
    <2> QED
        BY <1>1, <2>1, <2>2, <2>3
<1>9. CASE Reserve(p) \/ Lock(p)
    <2>1. Control'
        BY <1>9, ControlMoves DEF Reserve, Lock, Fail, GiveUp
    <2> QED
        BY <1>1, <1>9, <2>1 DEF Reserve, Lock, Fail, GiveUp
<1>10. CASE Commit(p)
    <2>1. Control'
        BY <1>10, ControlMoves DEF Commit, GiveUp
    <2> QED
        BY <1>1, <1>10, <2>1 DEF Commit, GiveUp
<1>11. CASE ListRooms(p) \/ ListDone(p) \/ LoadRoom(p) \/ LoadDone(p)
    <2>1. Control'
        <3>1. CASE LoadRoom(p)
            BY <3>1 DEF LoadRoom, Control
        <3>2. CASE ListRooms(p) \/ ListDone(p) \/ LoadDone(p)
            BY <3>2, ControlMoves DEF ListRooms, ListDone, LoadDone
        <3> QED
            BY <1>11, <3>1, <3>2
    <2> QED
        BY <1>1, <1>11, <2>1 DEF ListRooms, ListDone, LoadRoom, LoadDone
<1> QED
    BY <1>2, <1>3, <1>4, <1>5, <1>6, <1>7, <1>8, <1>9, <1>10, <1>11 DEF StepOf, InCall

LEMMA NextWriter ==
    ASSUME Types, WriterInv, NEW p \in Procs, StepOf(p)
    PROVE  WriterInv'
<1> USE DEF process, file, At, Goto, Return, Types, Control, WriterInv, Writing
<1>0. Nobody \notin Procs
    BY DatabaseAssumption
<1>1. CASE Start(p) \/ Call(p)
    <2>1. UNCHANGED writer /\ pc[p] \in {"off", "idle"}
          /\ pc' = [pc EXCEPT ![p] = "called"]
        BY <1>1 DEF Start, Call
    <2> QED
        BY <1>0, <2>1
<1>2. CASE Die(p) \/ UseClosed(p)
    <2>1. CASE Died(p)
        BY <1>0, <2>1 DEF Died
    <2>2. CASE pc[p] = "called" /\ Return(p, -1) /\ UNCHANGED writer
        BY <1>0, <2>2
    <2> QED
        BY <1>2, <2>1, <2>2 DEF Die, UseClosed
<1>3. CASE OpenFails(p)
    BY <1>0, <1>3 DEF OpenFails, Fail, GiveUp
<1>4. CASE SqlInit(p) \/ Forbid(p) \/ SqlError(p)
    BY <1>4 DEF SqlInit, Forbid, SqlError, Opened
<1>5. CASE Lookup(p) \/ Duplicate(p)
    BY <1>5 DEF Lookup, Duplicate
<1>6. CASE CheckName(p) \/ CheckPassword(p)
    BY <1>6 DEF CheckName, CheckPassword
<1>7. CASE Reserve(p)
    <2>1. CASE Fail(p)
        BY <1>0, <1>7, <2>1 DEF Fail, GiveUp, Reserve, Writes
    <2>2. CASE writer = Nobody /\ Goto(p, "reserved") /\ writer' = p
        BY <1>0, <2>2
    <2> QED
        BY <1>7, <2>1, <2>2 DEF Reserve, CanReserve
<1>8. CASE Lock(p)
    <2>1. CASE Fail(p)
        BY <1>0, <1>8, <2>1 DEF Fail, GiveUp, Lock
    <2>2. CASE Goto(p, "exclusive") /\ UNCHANGED writer
        BY <1>0, <1>8, <2>2 DEF Lock
    <2> QED
        BY <1>8, <2>1, <2>2 DEF Lock
<1>9. CASE Commit(p)
    BY <1>0, <1>9 DEF Commit, GiveUp, Opened
<1>10. CASE ListRooms(p) \/ ListDone(p) \/ LoadRoom(p) \/ LoadDone(p)
    BY <1>10 DEF ListRooms, ListDone, LoadRoom, LoadDone
<1> QED
    BY <1>1, <1>2, <1>3, <1>4, <1>5, <1>6, <1>7, <1>8, <1>9, <1>10 DEF StepOf, InCall

-----------------------------------------------------------------------------
(* How a process gets to each place.  Nobody stays where he is: a step that*)
(* ends at a place came from another.                                      *)
Arrival(p) ==
    /\ pc'[p] \notin {"off", "called"} => call'[p] = call[p]
    /\ pc'[p] = "found" => Lookup(p) /\ TRUE \in Row(p)
    /\ pc'[p] = "exec" => Lookup(p) /\ "done" \in leak'[p]
    /\ pc'[p] = "match" => CheckName(p) /\ TRUE \in Row(p) /\ "row" \in leak'[p]
    /\ pc'[p] = "reserved" =>
          Writes(p) /\ CanReserve(p) /\ UNCHANGED <<users, leak>>
    /\ pc'[p] = "exclusive" =>
          /\ pc[p] = "reserved" /\ \A q \in Procs \ {p} : ~Reads(q)
          /\ UNCHANGED <<users, leak>>
    /\ pc'[p] = "listing" => call[p].op = "list_rooms" /\ ~Blocked(p)
    /\ pc'[p] = "loading" => call[p].op = "list_rooms"
    /\ "row" \in leak'[p] => "row" \in leak[p] \/ pc'[p] = "match"
    /\ pc'[p] = "idle" =>
          \/ ret'[p] = -1
          \/ call[p].op \in {"open_db", "list_rooms"}
          \/ Duplicate(p) \/ Commit(p) \/ CheckPassword(p)
          \/ ret'[p] = 1 /\ call[p].op = "check_user"

LEMMA Arrives ==
    ASSUME Types, OpInv, NEW p \in Procs, StepOf(p)
    PROVE  Arrival(p)
<1> USE DEF Arrival, file, At, Types, Control
<1>1. CASE Start(p) \/ Call(p) \/ Die(p)
    BY <1>1 DEF Start, Call, Die, Died
<1>2. CASE UseClosed(p)
    BY <1>2 DEF UseClosed, Died, Return
<1>3. CASE OpenFails(p) \/ Forbid(p) \/ SqlError(p)
    BY <1>3 DEF OpenFails, Fail, GiveUp, Forbid, SqlError, Return
<1>4. CASE SqlInit(p)
    BY <1>4 DEF SqlInit, Opened
<1>5. CASE Lookup(p)
    <2>1. CASE TRUE \in Row(p) /\ Goto(p, "found") /\ UNCHANGED leak
        BY <1>5, <2>1 DEF Goto
    <2>2. CASE Goto(p, "exec") /\ leak' = [leak EXCEPT ![p] = @ \cup {"done"}]
        BY <1>5, <2>2 DEF Goto
    <2> QED
        BY <1>5, <2>1, <2>2 DEF Lookup
<1>6. CASE Duplicate(p)
    BY <1>6 DEF Duplicate, Return
<1>7. CASE CheckName(p)
    <2>1. CASE Return(p, 1) /\ UNCHANGED leak
        BY <1>7, <2>1 DEF CheckName, Return
    <2>2. CASE /\ TRUE \in Row(p) /\ Goto(p, "match")
               /\ leak' = [leak EXCEPT ![p] = @ \cup {"row"}]
        BY <1>7, <2>2 DEF Goto
    <2> QED
        BY <1>7, <2>1, <2>2 DEF CheckName
<1>8. CASE CheckPassword(p)
    BY <1>8 DEF CheckPassword, Return
<1>9. CASE Reserve(p)
    <2>1. CASE Fail(p)
        BY <2>1 DEF Fail, GiveUp, Return
    <2>2. CASE CanReserve(p) /\ Goto(p, "reserved") /\ UNCHANGED <<users, leak>>
        BY <1>9, <2>2 DEF Reserve, Goto
    <2> QED
        BY <1>9, <2>1, <2>2 DEF Reserve
<1>10. CASE Lock(p)
    <2>1. CASE Fail(p)
        BY <2>1 DEF Fail, GiveUp, Return
    <2>2. CASE Goto(p, "exclusive") /\ ~(\E q \in Procs \ {p} : Reads(q))
        BY <1>10, <2>1, <2>2 DEF Lock, Goto
    <2> QED
        BY <1>10, <2>1, <2>2 DEF Lock
<1>11. CASE Commit(p)
    BY <1>11 DEF Commit, GiveUp, Goto, Return, Opened
<1>12. CASE ListRooms(p)
    BY <1>12 DEF ListRooms, Goto, Return
<1>13. CASE ListDone(p) \/ LoadRoom(p) \/ LoadDone(p)
    BY <1>13 DEF ListDone, LoadRoom, LoadDone, Goto, Return, OpInv
<1> QED
    BY <1>1, <1>2, <1>3, <1>4, <1>5, <1>6, <1>7, <1>8, <1>9, <1>10, <1>11, <1>12, <1>13
    DEF StepOf, InCall

LEMMA NextOp ==
    ASSUME Types, OpInv, NEW p \in Procs, StepOf(p)
    PROVE  OpInv'
<1> SUFFICES ASSUME NEW q \in Procs
             PROVE  /\ pc'[q] \in {"found", "exec"} => call'[q].op \in Creates
                    /\ pc'[q] = "match" => call'[q].op = "check_user"
                    /\ pc'[q] \in {"listing", "loading"} => call'[q].op = "list_rooms"
                    /\ pc'[q] \in Writing => call'[q].op \notin {"check_user", "list_rooms"}
    BY DEF OpInv
<1>1. CASE q # p
    BY <1>1, Frame DEF Framed, OpInv
<1>2. CASE q = p
    <2>1. Arrival(p)
        BY Arrives
    <2>2. pc'[p] \in {"found", "exec"} => call'[p].op \in Creates
        BY <2>1 DEF Arrival, Lookup, Creates
    <2>3. pc'[p] = "match" => call'[p].op = "check_user"
        BY <2>1 DEF Arrival, CheckName
    <2>4. pc'[p] = "reserved" => call'[p].op \notin {"check_user", "list_rooms"}
        BY <2>1 DEF Arrival, Writes, At, OpInv, Creates
    <2>5. pc'[p] = "exclusive" => call'[p].op \notin {"check_user", "list_rooms"}
        BY <2>1 DEF Arrival, OpInv, Writing
    <2> QED
        BY <1>2, <2>1, <2>2, <2>3, <2>4, <2>5 DEF Arrival, Writing
<1> QED
    BY <1>1, <1>2

LEMMA NextLeak ==
    ASSUME Types, OpInv, LeakInv, NEW p \in Procs, StepOf(p)
    PROVE  LeakInv'
<1> SUFFICES ASSUME NEW q \in Procs, pc'[q] \in {"exec"} \cup Writing,
                    call'[q].op \in Creates
             PROVE  leak'[q] # {}
    BY DEF LeakInv
<1>1. CASE q # p
    BY <1>1, Frame DEF Framed, LeakInv
<1>2. CASE q = p
    <2>1. Arrival(p) /\ call'[p] = call[p]
        BY <1>2, Arrives DEF Arrival, Writing
    <2>2. CASE pc'[p] = "exec"
        BY <1>2, <2>1, <2>2 DEF Arrival
    <2>3. CASE pc'[p] = "reserved"
        BY <1>2, <2>1, <2>3 DEF Arrival, Writes, At, LeakInv, Creates
    <2>4. CASE pc'[p] = "exclusive"
        BY <1>2, <2>1, <2>4 DEF Arrival, LeakInv, Writing
    <2> QED
        BY <1>2, <2>2, <2>3, <2>4 DEF Writing
<1> QED
    BY <1>1, <1>2

-----------------------------------------------------------------------------
(* The commit of an insert without a quote finds the name free.            *)
Splices(p) == pc[p] = "exclusive" /\ call[p].op = "create_user" /\ Quotes(call[p])

LEMMA AccountsStay ==
    ASSUME Types, KeyInv, NEW p \in Procs, StepOf(p)
    PROVE  /\ spliced => spliced'
           /\ \/ Splices(p) /\ spliced'
              \/ \A u \in UserNames : users[u] # NoUser => users'[u] = users[u]
<1>1. CASE UNCHANGED <<users, spliced>>
    BY <1>1
<1>2. CASE /\ Commit(p) /\ call[p].op = "create_user" /\ Quotes(call[p])
           /\ spliced' = TRUE
    BY <1>2 DEF Commit, At, Splices
<1>3. CASE /\ Commit(p) /\ call[p].op = "create_user" /\ ~Quotes(call[p])
           /\ users' = [users EXCEPT ![call[p].name] = call[p].password]
           /\ UNCHANGED spliced
    <2>1. users[call[p].name] = NoUser
        BY <1>3 DEF Commit, At, KeyInv, PasswordOf, Writing
    <2> QED
        BY <1>3, <2>1 DEF Types
<1> QED
    BY <1>1, <1>2, <1>3, UsersStep

LEMMA NextKey ==
    ASSUME Types, WriterInv, OpInv, KeyInv, NEW p \in Procs, StepOf(p)
    PROVE  KeyInv'
<1> SUFFICES ASSUME NEW q \in Procs, pc'[q] \in Writing,
                    call'[q].op = "create_user", ~Quotes(call'[q])
             PROVE  users'[call'[q].name] = NoUser
    BY DEF KeyInv, PasswordOf, Quotes
<1>1. CASE q # p
    <2>1. pc[q] \in Writing /\ call'[q] = call[q]
        BY <1>1, Frame DEF Framed
    <2>2. users[call[q].name] = NoUser
        BY <1>1, <2>1, Frame DEF Framed, KeyInv, PasswordOf
    <2>3. ~Commit(p)
        BY <1>1, <2>1 DEF Commit, At, WriterInv, Writing
    <2> QED
        BY <2>1, <2>2, <2>3, UsersStep
<1>2. CASE q = p
    <2>1. Arrival(p) /\ call'[p] = call[p]
        BY <1>2, Arrives DEF Arrival, Writing
    <2>2. CASE pc'[p] = "reserved"
        BY <1>2, <2>1, <2>2 DEF Arrival, CanReserve, ViolatesKey
    <2>3. CASE pc'[p] = "exclusive"
        BY <1>2, <2>1, <2>3 DEF Arrival, KeyInv, PasswordOf, Writing
    <2> QED
        BY <1>2, <2>2, <2>3 DEF Writing
<1> QED
    BY <1>1, <1>2

LEMMA NextLock ==
    ASSUME Types, OpInv, LockInv, NEW p \in Procs, StepOf(p)
    PROVE  LockInv'
<1> SUFFICES ASSUME NEW r \in Procs, NEW q \in Procs, r # q, pc'[q] = "exclusive"
             PROVE  ~Reads(r)'
    BY DEF LockInv
<1>1. CASE q = p
    <2>1. ~Reads(r)
        BY <1>1, Arrives DEF Arrival
    <2> QED
        BY <1>1, <2>1, Frame DEF Framed, Reads
<1>2. CASE q # p /\ r # p
    BY <1>2, Frame DEF Framed, LockInv, Reads
<1>3. CASE q # p /\ r = p
    <2>1. pc[q] = "exclusive"
        BY <1>3, Frame DEF Framed
    <2>2. ~Reads(p) /\ Blocked(p)
        BY <1>3, <2>1 DEF LockInv, Blocked
    <2>3. Arrival(p) /\ TRUE \notin Row(p)
        BY <2>2, Arrives DEF Row
    <2> QED
        BY <1>3, <2>2, <2>3 DEF Arrival, Reads
<1> QED
    BY <1>1, <1>2, <1>3

LEMMA NextFound ==
    ASSUME Types, OpInv, KeyInv, FoundInv, NEW p \in Procs, StepOf(p)
    PROVE  FoundInv'
<1> SUFFICES ASSUME NEW q \in Procs
             PROVE  /\ pc'[q] = "match" => "row" \in leak'[q]
                    /\ /\ \/ pc'[q] = "match"
                          \/ pc'[q] = "found" /\ call'[q].op = "create_user"
                       /\ ~spliced' /\ ~QuotedName(call'[q])
                       => users'[call'[q].name] # NoUser
    BY DEF FoundInv, PasswordOf, QuotedName, Quotes
<1>1. CASE q # p
    <2>1. pc'[q] = pc[q] /\ call'[q] = call[q] /\ leak'[q] = leak[q]
        BY <1>1, Frame DEF Framed
    <2>2. ASSUME pc[q] = "match" \/ (pc[q] = "found" /\ call[q].op = "create_user"),
                 ~spliced', ~QuotedName(call[q])
          PROVE  users'[call[q].name] # NoUser
        <3>1. ~spliced /\ users[call[q].name] # NoUser
            BY <2>2, AccountsStay DEF FoundInv, PasswordOf
        <3>2. call[q].name \in UserNames
            BY <2>2, AccountOf DEF OpInv
        <3> QED
            BY <2>2, <3>1, <3>2, AccountsStay
    <2> QED
        BY <2>1, <2>2 DEF FoundInv
<1>2. CASE q = p
    <2>1. Arrival(p)
        BY Arrives
    <2>2. ASSUME pc'[p] = "match" \/ (pc'[p] = "found" /\ call'[p].op = "create_user"),
                 ~QuotedName(call'[p])
          PROVE  users'[call'[p].name] # NoUser
        <3>1. /\ Lookup(p) \/ CheckName(p)
              /\ TRUE \in Row(p) /\ call'[p] = call[p]
            BY <2>1, <2>2 DEF Arrival
        <3>2. call[p].op \in {"create_user", "check_user"} /\ UNCHANGED users
            BY <2>2, <3>1 DEF Lookup, CheckName, Goto, file, At, Types, Control
        <3>3. Row(p) \in {{FALSE}, {InFile(call[p])}}
            BY <2>2, <3>1 DEF Row
        <3>4. InFile(call[p])
            BY <3>1, <3>3
        <3> QED
            BY <3>1, <3>2, <3>4 DEF InFile
    <2> QED
        BY <1>2, <2>1, <2>2 DEF Arrival
<1> QED
    BY <1>1, <1>2

LEMMA NextCreated ==
    ASSUME Types, OpInv, KeyInv, FoundInv, CreatedAccountIsThere,
           NEW p \in Procs, StepOf(p)
    PROVE  CreatedAccountIsThere'
<1> SUFFICES ASSUME NEW q \in Procs, pc'[q] = "idle", call'[q].op = "create_user",
                    ret'[q] = 0, ~spliced', ~QuotedName(call'[q])
             PROVE  users'[call'[q].name] # NoUser
    BY DEF CreatedAccountIsThere, Returned, PasswordOf, QuotedName, Quotes
<1>0. ~spliced
    BY AccountsStay
<1>1. CASE q # p
    <2>1. pc[q] = "idle" /\ call'[q] = call[q] /\ ret[q] = 0
        BY <1>1, Frame DEF Framed
    <2>2. users[call[q].name] # NoUser
        BY <1>0, <2>1 DEF CreatedAccountIsThere, Returned, PasswordOf
    <2>3. call[q].name \in UserNames
        BY <2>1, AccountOf
    <2> QED
        BY <2>1, <2>2, <2>3, AccountsStay
<1>2. CASE q = p
    <2>1. Arrival(p) /\ call'[p] = call[p]
        BY <1>2, Arrives DEF Arrival
    <2>2. Duplicate(p) \/ Commit(p) \/ CheckPassword(p)
        BY <1>2, <2>1 DEF Arrival
    <2>3. CASE Duplicate(p)
        BY <1>0, <1>2, <2>1, <2>3 DEF Duplicate, At, FoundInv, PasswordOf, file
    <2>4. CASE Commit(p)
        <3>1. users' = [users EXCEPT ![call[p].name] = call[p].password]
            BY <1>2, <2>1, <2>4 DEF Commit, Write, file
        <3> QED
            BY <1>2, <2>1, <3>1, AccountOf DEF Types
    <2>5. ~CheckPassword(p)
        BY <1>2, <2>1 DEF CheckPassword, At, OpInv
    <2> QED
        BY <2>2, <2>3, <2>4, <2>5
<1> QED
    BY <1>1, <1>2

LEMMA NextCheck ==
    ASSUME Types, OpInv, KeyInv, LockInv, FoundInv, CheckTruth,
           NEW p \in Procs, StepOf(p)
    PROVE  CheckTruth'
<1> SUFFICES ASSUME NEW q \in Procs, pc'[q] = "idle", call'[q].op = "check_user",
                    ~spliced', ~Quotes(call'[q])
             PROVE  /\ ret'[q] = 0 => users'[call'[q].name] = call'[q].password
                    /\ ret'[q] = 2
                         => users'[call'[q].name] \notin {NoUser, call'[q].password}
    BY DEF CheckTruth, Returned, PasswordOf, Quotes
<1>0. ~spliced
    BY AccountsStay
<1>1. CASE q # p
    <2>1. pc[q] = "idle" /\ call'[q] = call[q] /\ ret'[q] = ret[q]
        BY <1>1, Frame DEF Framed
    <2>2. /\ ret[q] = 0 => users[call[q].name] = call[q].password
          /\ ret[q] = 2 => users[call[q].name] \notin {NoUser, call[q].password}
        BY <1>0, <2>1 DEF CheckTruth, Returned, PasswordOf
    <2>3. call[q].name \in UserNames /\ call[q].password # NoUser
        BY <2>1, AccountOf
    <2>4. users[call[q].name] # NoUser => users'[call[q].name] = users[call[q].name]
        BY <2>3, AccountsStay
    <2> QED
        BY <2>1, <2>2, <2>3, <2>4
<1>2. CASE q = p
    <2>1. Arrival(p) /\ call'[p] = call[p]
        BY <1>2, Arrives DEF Arrival
    <2>2. CASE CheckPassword(p)
        <3>1. ~Blocked(p) /\ users[call[p].name] # NoUser
            BY <1>0, <1>2, <2>1, <2>2
            DEF CheckPassword, At, FoundInv, LockInv, Blocked, Reads, PasswordOf, QuotedName
        <3>2. ret'[p] = (IF users[call[p].name] = call[p].password THEN 0 ELSE 2)
            BY <1>2, <2>1, <2>2, <3>1 DEF CheckPassword, Return, Types, Control
        <3>3. users' = users
            BY <2>2 DEF CheckPassword, file
        <3> QED
            BY <1>2, <2>1, <3>1, <3>2, <3>3
    <2>3. CASE ~CheckPassword(p)
        <3>1. ~Duplicate(p) /\ ~Commit(p)
            BY <1>2, <2>1 DEF Duplicate, Commit, At, OpInv, Writing, Creates
        <3>2. ret'[p] = -1 \/ ret'[p] = 1
            BY <1>2, <2>1, <2>3, <3>1 DEF Arrival
        <3> QED
            BY <1>2, <3>2
    <2> QED
        BY <2>2, <2>3
<1> QED
    BY <1>1, <1>2

-----------------------------------------------------------------------------
LEMMA NextIInv == IInv /\ [Next]_vars => IInv'
<1> SUFFICES ASSUME IInv, [Next]_vars PROVE IInv'
    OBVIOUS
<1>1. CASE UNCHANGED vars
    BY <1>1 DEF vars, process, file, IInv, Types, Control, WriterInv, OpInv, LeakInv,
        KeyInv, LockInv, FoundInv, CreatedAccountIsThere, CheckTruth, Returned,
        PasswordOf, Reads, Quotes, QuotedName
<1>2. CASE Next
    <2>1. PICK p \in Procs : StepOf(p)
        BY <1>2 DEF Next, StepOf
    <2> QED
        BY <2>1, NextTypes, NextWriter, NextOp, NextLeak, NextKey, NextLock, NextFound,
           NextCreated, NextCheck DEF IInv
<1> QED
    BY <1>1, <1>2

LEMMA Invariance == Spec => []IInv
<1> QED
    BY InitIInv, NextIInv, PTL DEF Spec

(* A failed insert of create_user or create_room calls sqlite3_close, but  *)
(* never closes: only open_db closes a handle.                             *)
LEMMA StepKeepsHandle ==
    ASSUME IInv, NEW p \in Procs, StepOf(p), NEW q \in Procs,
           db[q] = "open", db'[q] = "closed"
    PROVE  call[q].op = "open_db"
<1> USE DEF process, file, At, IInv, Types
<1>1. q = p
    BY Frame DEF Framed
<1>2. CASE Start(p) \/ Call(p) \/ Die(p) \/ UseClosed(p)
    BY <1>1, <1>2 DEF Start, Call, Die, UseClosed, Died
<1>3. CASE OpenFails(p)
    BY <1>1, <1>3 DEF OpenFails
<1>4. CASE SqlInit(p) \/ Forbid(p) \/ SqlError(p) \/ Lookup(p) \/ Duplicate(p)
    BY <1>1, <1>4 DEF SqlInit, Forbid, SqlError, Lookup, Duplicate
<1>5. CASE CheckName(p) \/ CheckPassword(p)
    BY <1>1, <1>5 DEF CheckName, CheckPassword
<1>7. CASE ListRooms(p) \/ ListDone(p) \/ LoadRoom(p) \/ LoadDone(p)
    BY <1>1, <1>7 DEF ListRooms, ListDone, LoadRoom, LoadDone
<1>6. CASE Reserve(p) \/ Lock(p) \/ Commit(p)
    <2>1. GiveUp(p)
        BY <1>1, <1>6 DEF Reserve, Lock, Commit, Fail
    <2>2. /\ leak[p] = {}
          /\ call[p].op \in {"open_db"} \cup Creates
        BY <1>1, <2>1 DEF GiveUp, Creates
    <2>3. pc[p] = "exec" \/ pc[p] \in Writing => call[p].op \notin Creates
        BY <2>2 DEF LeakInv
    <2> QED
        BY <1>1, <1>6, <2>2, <2>3 DEF Reserve, Writes, Lock, Commit, Creates, Writing
<1> QED
    BY <1>2, <1>3, <1>4, <1>5, <1>6, <1>7 DEF StepOf, InCall

(* HandleStaysOpen, with its lemma: the failing sqlite3_close of           *)
(* create_user (database.c) is harmless whatever the processes do.         *)
THEOREM HandleTheorem == Spec => HandleStaysOpen
<1>1. ASSUME IInv, [Next]_vars
      PROVE  [\A p \in Procs :
                db[p] = "open" /\ db'[p] = "closed" => call[p].op = "open_db"]_vars
    <2>1. CASE UNCHANGED vars
        BY <2>1
    <2>2. CASE Next
        <3>1. PICK p \in Procs : StepOf(p)
            BY <2>2 DEF Next, StepOf
        <3> QED
            BY <1>1, <3>1, StepKeepsHandle
    <2> QED
        BY <1>1, <2>1, <2>2
<1> QED
    BY <1>1, Invariance, PTL DEF Spec, HandleStaysOpen

(* AccountsStand: no interleaving of look-ups, inserts, failed writes and  *)
(* deaths replaces or removes an account; the commit of an insert with a   *)
(* quote in it is the only step that may.                                  *)
THEOREM AccountsTheorem == Spec => AccountsStand
<1>1. ASSUME IInv, [Next]_vars
      PROVE  [\A u \in UserNames :
                users[u] # NoUser /\ users'[u] # users[u] =>
                    \E p \in Procs :
                       pc[p] = "exclusive" /\ call[p].op = "create_user"
                           /\ Quotes(call[p])]_vars
    <2>1. CASE UNCHANGED vars
        BY <2>1
    <2>2. CASE Next
        <3>1. PICK p \in Procs : StepOf(p)
            BY <2>2 DEF Next, StepOf
        <3> QED
            BY <1>1, <3>1, AccountsStay DEF IInv, Splices
    <2> QED
        BY <1>1, <2>1, <2>2
<1> QED
    BY <1>1, Invariance, PTL DEF Spec, AccountsStand

(* CreatedAccountIsThere: create_user returns 0 only for a name that has   *)
(* an account, however many processes create the same one, as long as that *)
(* name and the inserts before have no quote.                              *)
THEOREM CreatedTheorem == Spec => []CreatedAccountIsThere
<1>1. IInv => CreatedAccountIsThere
    BY DEF IInv
<1> QED
    BY <1>1, Invariance, PTL

(* CheckTruth: what check_user says of a name and a password without a     *)
(* quote is true, after inserts without one, and no writer makes its       *)
(* second statement fail.                                                  *)
THEOREM CheckTheorem == Spec => []CheckTruth
<1>1. IInv => CheckTruth
    BY DEF IInv
<1> QED
    BY <1>1, Invariance, PTL

-----------------------------------------------------------------------------
(* The rest of the type invariant, and the rooms a process loads.          *)
NoRooms == [b \in Buckets |-> <<>>]

Tables ==
    /\ schema \in 0 .. SQL_INIT_SIZE
    /\ rooms \in [RoomNames -> Nat] /\ logs \in Nat
    /\ loaded \in [Procs -> [Buckets -> Seq(RoomNames)]]
    /\ save_room \in [Procs -> [RoomNames -> Nat]]
    /\ default_room \in [Procs -> [RoomNames -> Nat]]
    /\ calls \in 0 .. MaxCalls /\ deaths \in 0 .. MaxDeaths

(* Who has the reserved lock for a create table is the only one to create. *)
SchemaInv ==
    \A p \in Procs :
        pc[p] \in Writing /\ call[p].op = "open_db" => schema < SQL_INIT_SIZE

(* load_rooms is the last thing daemon_init does with the database, and    *)
(* until then there are no rooms.                                          *)
ListLast(t) == \A i \in 1 .. Len(t) : t[i].op = "list_rooms" <=> i = Len(t)

FreshInv ==
    \A p \in Procs :
        /\ ListLast(todo[p])
        /\ pc[p] # "off" /\ call[p].op = "list_rooms" => todo[p] = <<>>
        /\ \/ pc[p] = "off"
           \/ todo[p] # <<>>
           \/ pc[p] \notin {"idle", "loading"} /\ call[p].op \in {"open_db", "list_rooms"}
           => loaded[p] = NoRooms

(* The list is the table as long as it is locked, and the rooms loaded are *)
(* those of the list that are not to come in full.                         *)
ListInv ==
    \A p \in Procs :
        /\ pc[p] = "listing" => save_room[p] = rooms /\ default_room[p] = rooms
        /\ pc[p] = "loading" =>
              \A r \in RoomNames :
                  /\ default_room[p][r] <= save_room[p][r]
                  /\ FindRoom(p, r) <=> default_room[p][r] < save_room[p][r]

LInv == Tables /\ SchemaInv /\ FreshInv /\ ListInv

LEMMA RoomOf ==
    ASSUME Types, NEW p \in Procs, call[p].op \in {"create_room", "delete_room"}
    PROVE  call[p].room \in RoomNames
<1>1. call[p] \in Every
    BY DEF Types, Control
<1>2. call[p] \in RoomCalls
    BY <1>1 DEF Every, AccountCalls, RoomCalls, PlainCalls
<1> QED
    BY <1>2 DEF RoomCalls

LEMMA InitLInv == Init => LInv
<1> SUFFICES ASSUME Init PROVE LInv
    OBVIOUS
<1>1. Tables
    <2>1. \A b \in Buckets : <<>> \in Seq(RoomNames)
        OBVIOUS
    <2>2. NoRows \in [RoomNames -> Nat]
        BY DEF NoRows
    <2> QED
        BY <2>1, <2>2, DatabaseAssumption DEF Init, Tables, SQL_INIT_SIZE
<1>2. SchemaInv /\ ListInv
    BY DEF Init, SchemaInv, ListInv, Writing
<1>3. FreshInv
    BY DEF Init, FreshInv, ListLast, NoRooms
<1> QED
    BY <1>1, <1>2, <1>3 DEF LInv

(* Only a commit changes the file.                                         *)
LEMMA FileStep ==
    ASSUME NEW p \in Procs, StepOf(p)
    PROVE  UNCHANGED file \/ Commit(p)
<1>1. CASE Start(p) \/ Call(p) \/ Die(p)
    BY <1>1 DEF Start, Call, Die, Died
<1>2. CASE UseClosed(p) \/ OpenFails(p) \/ SqlInit(p) \/ Forbid(p) \/ SqlError(p)
    BY <1>2 DEF UseClosed, Died, OpenFails, Fail, GiveUp, SqlInit, Forbid, SqlError
<1>3. CASE Lookup(p) \/ Duplicate(p) \/ CheckName(p) \/ CheckPassword(p)
    BY <1>3 DEF Lookup, Duplicate, CheckName, CheckPassword
<1>4. CASE Reserve(p) \/ Lock(p)
    BY <1>4 DEF Reserve, Lock, Fail, GiveUp
<1>5. CASE ListRooms(p) \/ ListDone(p) \/ LoadRoom(p) \/ LoadDone(p)
    BY <1>5 DEF ListRooms, ListDone, LoadRoom, LoadDone
<1> QED
    BY <1>1, <1>2, <1>3, <1>4, <1>5 DEF StepOf, InCall

(* What a commit makes of the file.                                        *)
LEMMA CommitStep ==
    ASSUME Types, Tables, SchemaInv, NEW p \in Procs, Commit(p)
    PROVE  /\ schema' \in 0 .. SQL_INIT_SIZE
           /\ rooms' \in [RoomNames -> Nat]
           /\ logs' \in Nat
<1>1. pc[p] = "exclusive" /\ Write(call[p])
    BY DEF Commit, At
<1>2. schema' \in 0 .. SQL_INIT_SIZE
    BY <1>1 DEF Write, Tables, SchemaInv, SQL_INIT_SIZE, Writing
<1>3. rooms' \in [RoomNames -> Nat]
    <2>1. CASE call[p].op = "create_room"
        <3>1. rooms' = [rooms EXCEPT ![call[p].room] = @ + 1]
            BY <1>1, <2>1 DEF Write
        <3> QED
            BY <2>1, <3>1, RoomOf DEF Tables
    <2>2. CASE call[p].op = "delete_room"
        <3>1. rooms' = [rooms EXCEPT ![call[p].room] = 0]
            BY <1>1, <2>2 DEF Write
        <3> QED
            BY <2>2, <3>1, RoomOf DEF Tables
    <2>3. CASE call[p].op \notin {"create_room", "delete_room"}
        BY <1>1, <2>3 DEF Write, Tables
    <2> QED
        BY <2>1, <2>2, <2>3
<1>4. logs' \in Nat
    BY <1>1 DEF Write, Tables
<1> QED
    BY <1>2, <1>3, <1>4

(* Only these steps change the lists of a process.                         *)
LEMMA LoadedStep ==
    ASSUME NEW p \in Procs, StepOf(p)
    PROVE  \/ UNCHANGED <<loaded, list>>
           \/ Died(p) \/ ListRooms(p) \/ LoadRoom(p) \/ LoadDone(p)
<1>1. CASE Start(p) \/ Call(p) \/ Die(p)
    BY <1>1 DEF Start, Call, Die
<1>2. CASE UseClosed(p) \/ OpenFails(p) \/ SqlInit(p) \/ Forbid(p) \/ SqlError(p)
    BY <1>2 DEF UseClosed, OpenFails, Fail, GiveUp, SqlInit, Forbid, SqlError
<1>3. CASE Lookup(p) \/ Duplicate(p) \/ CheckName(p) \/ CheckPassword(p)
    BY <1>3 DEF Lookup, Duplicate, CheckName, CheckPassword
<1>4. CASE Reserve(p) \/ Lock(p) \/ Commit(p)
    BY <1>4 DEF Reserve, Lock, Fail, GiveUp, Commit
<1>5. CASE ListRooms(p) \/ ListDone(p) \/ LoadRoom(p) \/ LoadDone(p)
    BY <1>5 DEF ListDone
<1> QED
    BY <1>1, <1>2, <1>3, <1>4, <1>5 DEF StepOf, InCall

(* A room in front of its bucket's list is found there, and hides no other.*)
LEMMA AddRoomFinds ==
    ASSUME NEW table \in [Buckets -> Seq(RoomNames)],
           NEW r \in RoomNames, NEW s \in RoomNames
    PROVE  /\ AddRoom(table, r) \in [Buckets -> Seq(RoomNames)]
           /\ s \in ToSet(AddRoom(table, r)[BKDRHash[s]])
                 <=> s = r \/ s \in ToSet(table[BKDRHash[s]])
<1>1. BKDRHash[r] \in Buckets /\ BKDRHash[s] \in Buckets
    BY DatabaseAssumption
<1> DEFINE old == table[BKDRHash[r]]
           new == <<r>> \o old
<1>2. old \in Seq(RoomNames) /\ <<r>> \in Seq(RoomNames)
    BY <1>1
<1>3. new \in Seq(RoomNames) /\ Len(new) = 1 + Len(old)
    BY <1>2, ConcatProperties
<1>4. \A i \in 1 .. Len(new) : new[i] = IF i = 1 THEN r ELSE old[i - 1]
    BY <1>2, ConcatProperties
<1>5. s \in ToSet(new) <=> s = r \/ s \in ToSet(old)
    <2>1. /\ DOMAIN new = 1 .. Len(new) /\ DOMAIN old = 1 .. Len(old)
          /\ Len(old) \in Nat
        BY <1>2, <1>3
    <2> HIDE DEF new, old
    <2>2. ASSUME s \in ToSet(new) PROVE s = r \/ s \in ToSet(old)
        <3>1. PICK i \in 1 .. Len(new) : new[i] = s
            BY <2>1, <2>2 DEF ToSet
        <3>2. i # 1 => i - 1 \in 1 .. Len(old)
            BY <1>3, <2>1
        <3> QED
            BY <1>4, <2>1, <3>1, <3>2 DEF ToSet
    <2>3. ASSUME s = r PROVE s \in ToSet(new)
        <3>1. 1 \in 1 .. Len(new) /\ new[1] = s
            BY <1>3, <1>4, <2>1, <2>3
        <3> QED
            BY <2>1, <3>1 DEF ToSet
    <2>4. ASSUME s \in ToSet(old) PROVE s \in ToSet(new)
        <3>1. PICK i \in 1 .. Len(old) : old[i] = s
            BY <2>1, <2>4 DEF ToSet
        <3>2. i + 1 \in 1 .. Len(new) /\ new[i + 1] = s
            BY <1>3, <1>4, <2>1, <3>1
        <3> QED
            BY <2>1, <3>2 DEF ToSet
    <2> QED
        BY <2>2, <2>3, <2>4
<1>6. AddRoom(table, r) = [table EXCEPT ![BKDRHash[r]] = new]
    BY <1>1 DEF AddRoom
<1> HIDE DEF new
<1>7. CASE BKDRHash[s] = BKDRHash[r]
    BY <1>1, <1>3, <1>5, <1>6, <1>7
<1>8. CASE BKDRHash[s] # BKDRHash[r]
    <2>1. s # r
        BY <1>8
    <2> QED
        BY <1>1, <1>3, <1>6, <1>8, <2>1
<1> QED
    BY <1>7, <1>8

LEMMA NextTables ==
    ASSUME Types, Tables, SchemaInv, NEW p \in Procs, StepOf(p)
    PROVE  Tables'
<1>1. schema' \in 0 .. SQL_INIT_SIZE /\ rooms' \in [RoomNames -> Nat] /\ logs' \in Nat
    BY FileStep, CommitStep DEF file, Tables
<1>2. calls' \in 0 .. MaxCalls /\ deaths' \in 0 .. MaxDeaths
    <2>1. MaxCalls \in Nat /\ MaxDeaths \in Nat
        BY DatabaseAssumption
    <2>2. CASE Call(p)
        BY <2>1, <2>2 DEF Call, Tables
    <2>3. CASE Die(p)
        BY <2>1, <2>3 DEF Die, Tables
    <2>4. CASE Start(p) \/ InCall(p)
        <3>1. UNCHANGED <<calls, deaths>>
            BY <2>4 DEF Start, InCall, At, UseClosed, OpenFails, SqlInit, Forbid, SqlError,
                Lookup, Duplicate, CheckName, CheckPassword, Reserve, Writes, Lock, Commit,
                ListRooms, ListDone, LoadRoom, LoadDone
        <3> QED
            BY <3>1 DEF Tables
    <2> QED
        BY <2>2, <2>3, <2>4 DEF StepOf
<1>3. NoRows \in [RoomNames -> Nat]
    BY DEF NoRows
<1>4. /\ loaded' \in [Procs -> [Buckets -> Seq(RoomNames)]]
      /\ save_room' \in [Procs -> [RoomNames -> Nat]]
      /\ default_room' \in [Procs -> [RoomNames -> Nat]]
    <2>1. CASE UNCHANGED <<loaded, list>>
        BY <2>1 DEF list, Tables
    <2>2. CASE Died(p)
        <3>1. NoRooms \in [Buckets -> Seq(RoomNames)]
            BY DEF NoRooms
        <3> QED
            BY <1>3, <2>2, <3>1 DEF Died, NoRooms, Tables
    <2>3. CASE ListRooms(p)
        BY <2>3 DEF ListRooms, list, Tables
    <2>4. CASE LoadRoom(p)
        <3>1. PICK r \in RoomNames :
                  /\ default_room[p][r] > 0
                  /\ default_room' = [default_room EXCEPT ![p][r] = @ - 1]
                  /\ loaded' = [loaded EXCEPT ![p] = AddRoom(@, r)]
            BY <2>4 DEF LoadRoom
        <3>2. AddRoom(loaded[p], r) \in [Buckets -> Seq(RoomNames)]
            BY AddRoomFinds DEF Tables
        <3>3. default_room[p][r] - 1 \in Nat
            BY <3>1 DEF Tables
        <3> QED
            BY <2>4, <3>1, <3>2, <3>3 DEF LoadRoom, Tables
    <2>5. CASE LoadDone(p)
        BY <1>3, <2>5 DEF LoadDone, Tables
    <2> QED
        BY <2>1, <2>2, <2>3, <2>4, <2>5, LoadedStep
<1> QED
    BY <1>1, <1>2, <1>4 DEF Tables

LEMMA NextSchema ==
    ASSUME Types, WriterInv, OpInv, SchemaInv, NEW p \in Procs, StepOf(p)
    PROVE  SchemaInv'
<1> SUFFICES ASSUME NEW q \in Procs, pc'[q] \in Writing, call'[q].op = "open_db"
             PROVE  schema' < SQL_INIT_SIZE
    BY DEF SchemaInv
<1>1. CASE q # p
    <2>1. pc[q] \in Writing /\ call[q].op = "open_db"
        BY <1>1, Frame DEF Framed
    <2>2. ~Commit(p)
        BY <1>1, <2>1 DEF Commit, At, WriterInv, Writing
    <2> QED
        BY <2>1, <2>2, FileStep DEF file, SchemaInv
<1>2. CASE q = p
    <2>1. CASE Commit(p)
        BY <1>2, <2>1 DEF Commit, GiveUp, Return, Opened, Goto, Types, Control, Writing
    <2>2. CASE Start(p) \/ Call(p) \/ Die(p) \/ UseClosed(p) \/ OpenFails(p) \/ SqlInit(p)
        BY <1>2, <2>2 DEF Start, Call, Die, Died, UseClosed, OpenFails, Fail, GiveUp, Return,
            SqlInit, Opened, Types, Control, Writing
    <2>3. CASE Forbid(p) \/ SqlError(p) \/ Lookup(p) \/ Duplicate(p)
               \/ CheckName(p) \/ CheckPassword(p)
        BY <1>2, <2>3 DEF Forbid, SqlError, Lookup, Duplicate, CheckName, CheckPassword,
            Goto, Return, Types, Control, Writing
    <2>4. CASE Reserve(p) \/ Lock(p)
        <3>1. CASE Fail(p)
            BY <1>2, <3>1 DEF Fail, GiveUp, Return, Types, Control, Writing
        <3>2. CASE ~Fail(p) /\ Reserve(p)
            BY <1>2, <3>2 DEF Reserve, Writes, At, Goto, file, OpInv, Creates,
                Types, Control
        <3>3. CASE ~Fail(p) /\ Lock(p)
            BY <1>2, <3>3 DEF Lock, At, Goto, file, SchemaInv, Types, Control, Writing
        <3> QED
            BY <2>4, <3>1, <3>2, <3>3
    <2>5. CASE ListRooms(p) \/ ListDone(p) \/ LoadRoom(p) \/ LoadDone(p)
        BY <1>2, <2>5 DEF ListRooms, ListDone, LoadRoom, LoadDone, At, Goto, Return,
            Types, Control, Writing
    <2> QED
        BY <2>1, <2>2, <2>3, <2>4, <2>5 DEF StepOf, InCall
<1> QED
    BY <1>1, <1>2

(* The calls still to make come from two places.                           *)
LEMMA ToDoLast ==
    ASSUME Types
    PROVE  /\ ListLast(LoadRooms) /\ ListLast(Defaults \o LoadRooms)
           /\ LoadRooms # <<>> /\ Defaults \o LoadRooms # <<>>
<1>1. LoadRooms \in Seq(Every) /\ Defaults \in Seq(Every)
    BY ToDo, DatabaseAssumption DEF Every
<1>2. Len(LoadRooms) = 1 /\ LoadRooms[1].op = "list_rooms"
    BY DEF LoadRooms
<1>3. ListLast(LoadRooms)
    BY <1>2 DEF ListLast
<1>4. \A i \in 1 .. Len(Defaults) : Defaults[i].op # "list_rooms"
    <2>1. Defaults \in Seq(AccountCalls \cup RoomCalls)
        BY DatabaseAssumption
    <2>2. \A i \in 1 .. Len(Defaults) : Defaults[i] \in AccountCalls \cup RoomCalls
        BY <2>1, ElementOfSeq
    <2> QED
        BY <2>2 DEF AccountCalls, RoomCalls
<1>5. /\ Len(Defaults \o LoadRooms) = Len(Defaults) + 1
      /\ \A i \in 1 .. Len(Defaults) + 1 :
            (Defaults \o LoadRooms)[i]
                = IF i <= Len(Defaults) THEN Defaults[i] ELSE LoadRooms[i - Len(Defaults)]
    <2>1. /\ Len(Defaults \o LoadRooms) = Len(Defaults) + Len(LoadRooms)
          /\ \A i \in 1 .. Len(Defaults) + Len(LoadRooms) :
                (Defaults \o LoadRooms)[i]
                   = IF i <= Len(Defaults) THEN Defaults[i] ELSE LoadRooms[i - Len(Defaults)]
        BY <1>1, ConcatProperties
    <2> QED
        BY <1>2, <2>1
<1>6. Len(Defaults) \in Nat
    BY <1>1, LenProperties
<1>7. ListLast(Defaults \o LoadRooms)
    <2> SUFFICES ASSUME NEW i \in 1 .. Len(Defaults \o LoadRooms)
                 PROVE  (Defaults \o LoadRooms)[i].op = "list_rooms"
                            <=> i = Len(Defaults \o LoadRooms)
        BY DEF ListLast
    <2>1. CASE i <= Len(Defaults)
        BY <1>4, <1>5, <1>6, <2>1
    <2>2. CASE i = Len(Defaults) + 1
        <3>1. i - Len(Defaults) = 1 /\ ~(i <= Len(Defaults))
            BY <1>6, <2>2
        <3> QED
            BY <1>2, <1>5, <2>2, <3>1
    <2> QED
        BY <1>5, <1>6, <2>1, <2>2
<1>8. Len(Defaults \o LoadRooms) # 0
    BY <1>5, <1>6
<1> QED
    BY <1>2, <1>3, <1>7, <1>8, EmptySeq

(* The steps, told apart by what they do to the calls to come and to the   *)
(* rooms loaded.                                                           *)
Opens(p) ==
    /\ Opened(p) /\ UNCHANGED loaded
    /\ pc[p] \in {"called", "exclusive"} /\ call[p].op = "open_db"
Within(p) ==
    /\ UNCHANGED <<call, todo, loaded>>
    /\ pc[p] \notin {"off", "idle"} /\ pc'[p] # "off"
    /\ pc[p] = "loading" => pc'[p] = "idle"

LEMMA Kinds ==
    ASSUME Types, NEW p \in Procs, StepOf(p)
    PROVE  Start(p) \/ Call(p) \/ Died(p) \/ Opens(p) \/ LoadRoom(p) \/ Within(p)
<1> USE DEF At, Types, Control
<1>1. CASE Start(p) \/ Call(p) \/ LoadRoom(p)
    BY <1>1
<1>2. CASE Die(p) \/ UseClosed(p)
    BY <1>2 DEF Die, UseClosed, Return, Within
<1>3. CASE OpenFails(p) \/ Forbid(p) \/ SqlError(p)
    BY <1>3 DEF OpenFails, Fail, GiveUp, Forbid, SqlError, Return, Within
<1>4. CASE SqlInit(p)
    BY <1>4 DEF SqlInit, Opens
<1>5. CASE Lookup(p) \/ Duplicate(p)
    BY <1>5 DEF Lookup, Duplicate, Goto, Return, Within
<1>6. CASE CheckName(p) \/ CheckPassword(p)
    BY <1>6 DEF CheckName, CheckPassword, Goto, Return, Within
<1>7. CASE Reserve(p)
    BY <1>7 DEF Reserve, Writes, Fail, GiveUp, Goto, Return, Within
<1>8. CASE Lock(p)
    BY <1>8 DEF Lock, Fail, GiveUp, Goto, Return, Within
<1>9. CASE Commit(p)
    BY <1>9 DEF Commit, GiveUp, Goto, Return, Within, Opens
<1>10. CASE ListRooms(p) \/ ListDone(p) \/ LoadDone(p)
    BY <1>10 DEF ListRooms, ListDone, LoadDone, Goto, Return, Within
<1> QED
    BY <1>1, <1>2, <1>3, <1>4, <1>5, <1>6, <1>7, <1>8, <1>9, <1>10 DEF StepOf, InCall

LEMMA FrameLoaded ==
    ASSUME Tables, NEW p \in Procs, StepOf(p), NEW q \in Procs, q # p
    PROVE  /\ loaded'[q] = loaded[q] /\ save_room'[q] = save_room[q]
           /\ default_room'[q] = default_room[q]
<1>1. CASE UNCHANGED <<loaded, list>>
    BY <1>1 DEF list
<1>2. CASE Died(p) \/ ListRooms(p)
    BY <1>2 DEF Died, ListRooms, list, Tables
<1>3. CASE LoadRoom(p) \/ LoadDone(p)
    BY <1>3 DEF LoadRoom, LoadDone, Tables
<1> QED
    BY <1>1, <1>2, <1>3, LoadedStep

(* Where load_rooms is entered and left.                                   *)
LEMMA Elsewhere ==
    ASSUME Types, NEW p \in Procs, StepOf(p)
    PROVE  /\ pc'[p] \in {"listing", "loading"} =>
                  ListRooms(p) \/ ListDone(p) \/ LoadRoom(p)
           /\ pc[p] = "loading" /\ pc'[p] = "idle" => LoadDone(p)
<1> USE DEF At, Types, Control
<1>1. CASE Start(p) \/ Call(p) \/ Die(p) \/ UseClosed(p)
    BY <1>1 DEF Start, Call, Die, Died, UseClosed, Return
<1>2. CASE OpenFails(p) \/ Forbid(p) \/ SqlError(p) \/ SqlInit(p)
    BY <1>2 DEF OpenFails, Fail, GiveUp, Forbid, SqlError, SqlInit, Opened, Return
<1>3. CASE Lookup(p) \/ Duplicate(p) \/ CheckName(p) \/ CheckPassword(p)
    BY <1>3 DEF Lookup, Duplicate, CheckName, CheckPassword, Goto, Return
<1>4. CASE Reserve(p) \/ Lock(p)
    BY <1>4 DEF Reserve, Writes, Lock, Fail, GiveUp, Goto, Return
<1>5. CASE Commit(p)
    BY <1>5 DEF Commit, GiveUp, Goto, Return, Opened
<1>6. CASE ListRooms(p) \/ ListDone(p) \/ LoadRoom(p) \/ LoadDone(p)
    BY <1>6 DEF ListRooms, ListDone, LoadRoom, LoadDone, Goto, Return
<1> QED
    BY <1>1, <1>2, <1>3, <1>4, <1>5, <1>6 DEF StepOf, InCall

LEMMA NextFresh ==
    ASSUME Types, OpInv, Tables, FreshInv, NEW p \in Procs, StepOf(p)
    PROVE  FreshInv'
<1> DEFINE Fresh(q) ==
        /\ ListLast(todo[q])
        /\ pc[q] # "off" /\ call[q].op = "list_rooms" => todo[q] = <<>>
        /\ \/ pc[q] = "off"
           \/ todo[q] # <<>>
           \/ pc[q] \notin {"idle", "loading"} /\ call[q].op \in {"open_db", "list_rooms"}
           => loaded[q] = NoRooms
<1>1. \A q \in Procs : Fresh(q)
    BY DEF FreshInv
<1>2. ASSUME NEW q \in Procs, q # p PROVE Fresh(q)'
    <2>1. /\ pc'[q] = pc[q] /\ call'[q] = call[q] /\ todo'[q] = todo[q]
          /\ loaded'[q] = loaded[q]
        BY <1>2, Frame, FrameLoaded DEF Framed
    <2>2. Fresh(q)
        BY <1>1
    <2> QED
        BY <2>1, <2>2 DEF ListLast, NoRooms
<1>3. Fresh(p)'
    <2>0. Fresh(p)
        BY <1>1
    <2>1. CASE Start(p)
        <3>1. /\ pc'[p] = "called" /\ call'[p].op = "open_db" /\ todo'[p] = LoadRooms
              /\ loaded'[p] = NoRooms
            BY <2>0, <2>1 DEF Start, At, Types, Control
        <3> QED
            BY <3>1, ToDoLast DEF ListLast, NoRooms
    <2>2. CASE Call(p)
        <3>1. pc[p] = "idle" /\ pc'[p] = "called" /\ UNCHANGED loaded
            BY <2>2 DEF Call, Types, Control
        <3>2. CASE /\ todo[p] # <<>> /\ call' = [call EXCEPT ![p] = Head(todo[p])]
                   /\ todo' = [todo EXCEPT ![p] = Tail(@)]
            <4>1. /\ todo[p] \in Seq(Every)
                  /\ call'[p] = Head(todo[p]) /\ todo'[p] = Tail(todo[p])
                BY <3>2 DEF Types, Control
            <4>2. /\ Len(todo[p]) \in Nat /\ Len(todo[p]) > 0
                  /\ Head(todo[p]) = todo[p][1]
                  /\ Tail(todo[p]) \in Seq(Every) /\ Len(Tail(todo[p])) = Len(todo[p]) - 1
                  /\ \A i \in 1 .. Len(Tail(todo[p])) : Tail(todo[p])[i] = todo[p][i + 1]
                BY <3>2, <4>1, HeadTailProperties, EmptySeq, LenProperties
            <4> DEFINE n == Len(todo[p])
            <4>3. \A i \in 1 .. n : todo[p][i].op = "list_rooms" <=> i = n
                BY <2>0 DEF ListLast
            <4>4. ListLast(Tail(todo[p]))
                <5> SUFFICES ASSUME NEW i \in 1 .. n - 1
                             PROVE  Tail(todo[p])[i].op = "list_rooms" <=> i = n - 1
                    BY <4>2 DEF ListLast
                <5>1. i + 1 \in 1 .. n /\ (i + 1 = n <=> i = n - 1)
                    BY <4>2
                <5>2. Tail(todo[p])[i] = todo[p][i + 1]
                    BY <4>2
                <5> QED
                    BY <4>3, <5>1, <5>2
            <4>5. Head(todo[p]).op = "list_rooms" => Tail(todo[p]) = <<>>
                <5>1. 1 \in 1 .. n
                    BY <4>2
                <5>2. Head(todo[p]).op = "list_rooms" => n = 1
                    BY <4>2, <4>3, <5>1
                <5>3. n = 1 => Len(Tail(todo[p])) = 0
                    BY <4>2
                <5>4. Len(Tail(todo[p])) = 0 => Tail(todo[p]) = <<>>
                    BY <4>2, EmptySeq
                <5> QED
                    BY <5>2, <5>3, <5>4
            <4>6. loaded'[p] = NoRooms
                BY <2>0, <3>1, <3>2
            <4>7. ListLast(todo[p])'
                BY <4>1, <4>4 DEF ListLast
            <4> QED
                BY <4>1, <4>5, <4>6, <4>7 DEF NoRooms
        <3>3. CASE /\ todo[p] = <<>> /\ UNCHANGED todo
                   /\ \E c \in Calls : call' = [call EXCEPT ![p] = c]
            <4>1. PICK c \in Calls : call' = [call EXCEPT ![p] = c]
                BY <3>3
            <4>2. c.op \notin {"open_db", "list_rooms"}
                BY DatabaseAssumption DEF AccountCalls, RoomCalls, PlainCalls
            <4>3. call'[p] = c
                BY <4>1 DEF Types, Control
            <4> QED
                BY <2>0, <3>1, <3>3, <4>2, <4>3 DEF ListLast, NoRooms
        <3> QED
            BY <2>2, <3>2, <3>3 DEF Call
    <2>3. CASE Died(p)
        BY <2>0, <2>3 DEF Died, Types, Control, Tables, ListLast, NoRooms
    <2>4. CASE Opens(p)
        <3>1. /\ pc'[p] = "idle" /\ call'[p] = call[p] /\ todo'[p] = Defaults \o LoadRooms
              /\ loaded'[p] = loaded[p] /\ call[p].op = "open_db"
            BY <2>4 DEF Opens, Opened, Types, Control
        <3>2. loaded[p] = NoRooms
            BY <2>0, <2>4 DEF Opens
        <3> QED
            BY <3>1, <3>2, ToDoLast DEF ListLast, NoRooms
    <2>5. CASE LoadRoom(p)
        <3>1. /\ pc[p] = "loading" /\ UNCHANGED <<pc, call, todo>>
              /\ call[p].op = "list_rooms"
            BY <2>5 DEF LoadRoom, At, OpInv
        <3> QED
            BY <2>0, <3>1 DEF ListLast
    <2>6. CASE Within(p)
        <3>1. UNCHANGED <<call, todo, loaded>>
            BY <2>6 DEF Within
        <3>2. pc[p] = "loading" => pc'[p] = "idle"
            BY <2>6 DEF Within
        <3>3. pc[p] \notin {"off", "idle"} /\ pc'[p] # "off"
            BY <2>6 DEF Within
        <3> QED
            BY <2>0, <3>1, <3>2, <3>3 DEF ListLast, NoRooms
    <2> QED
        BY <2>1, <2>2, <2>3, <2>4, <2>5, <2>6, Kinds
<1> QED
    BY <1>2, <1>3 DEF FreshInv

(* Nobody writes while a process lists, and what load_rooms takes from the *)
(* list is found.                                                          *)
LEMMA NextList ==
    ASSUME Types, OpInv, LockInv, Tables, FreshInv, ListInv, NEW p \in Procs, StepOf(p)
    PROVE  ListInv'
<1> DEFINE Listed(q) ==
        /\ pc[q] = "listing" => save_room[q] = rooms /\ default_room[q] = rooms
        /\ pc[q] = "loading" =>
              \A r \in RoomNames :
                  /\ default_room[q][r] <= save_room[q][r]
                  /\ FindRoom(q, r) <=> default_room[q][r] < save_room[q][r]
<1>1. \A q \in Procs : Listed(q)
    BY DEF ListInv
<1>2. ASSUME NEW q \in Procs, q # p PROVE Listed(q)'
    <2>1. /\ pc'[q] = pc[q] /\ loaded'[q] = loaded[q] /\ save_room'[q] = save_room[q]
          /\ default_room'[q] = default_room[q]
        BY <1>2, Frame, FrameLoaded DEF Framed
    <2>2. pc[q] = "listing" => rooms' = rooms
        <3>1. pc[q] = "listing" => ~Commit(p)
            BY <1>2 DEF LockInv, Reads, Commit, At
        <3> QED
            BY <3>1, FileStep DEF file
    <2>3. Listed(q)
        BY <1>1
    <2> QED
        BY <2>1, <2>2, <2>3 DEF FindRoom
<1>3. Listed(p)'
    <2>0. Listed(p)
        BY <1>1
    <2>1. CASE ListRooms(p)
        BY <2>1 DEF ListRooms, At, Goto, Return, file, list, Types, Control, Tables
    <2>2. CASE ListDone(p)
        <3>1. /\ pc[p] = "listing" /\ pc'[p] = "loading" /\ UNCHANGED <<loaded, list>>
            BY <2>2 DEF ListDone, At, Goto, Types, Control
        <3>2. loaded[p] = NoRooms
            BY <3>1 DEF FreshInv, OpInv
        <3>3. \A r \in RoomNames : ~FindRoom(p, r)
            BY <3>2, DatabaseAssumption DEF FindRoom, NoRooms, ToSet
        <3>4. \A r \in RoomNames : default_room[p][r] \in Nat
            BY DEF Tables
        <3>5. save_room[p] = default_room[p]
            BY <2>0, <3>1
        <3>6. \A r \in RoomNames : FindRoom(p, r)' = FindRoom(p, r)
            BY <3>1 DEF FindRoom
        <3> QED
            BY <3>1, <3>3, <3>4, <3>5, <3>6 DEF list
    <2>3. CASE LoadRoom(p)
        <3>1. PICK s \in RoomNames :
                  /\ default_room[p][s] > 0
                  /\ default_room' = [default_room EXCEPT ![p][s] = @ - 1]
                  /\ loaded' = [loaded EXCEPT ![p] = AddRoom(@, s)]
            BY <2>3 DEF LoadRoom
        <3>2. pc[p] = "loading" /\ pc' = pc /\ save_room' = save_room
            BY <2>3 DEF LoadRoom, At
        <3>3. ASSUME NEW r \in RoomNames
              PROVE  /\ default_room'[p][r] <= save_room'[p][r]
                     /\ FindRoom(p, r)' <=> default_room'[p][r] < save_room'[p][r]
            <4>1. default_room[p][r] \in Nat /\ save_room[p][r] \in Nat
                BY DEF Tables
            <4>2. default_room'[p][r] = IF r = s THEN default_room[p][r] - 1
                                                 ELSE default_room[p][r]
                BY <3>1 DEF Tables
            <4>3. FindRoom(p, r)' <=> r = s \/ FindRoom(p, r)
                <5>1. loaded'[p] = AddRoom(loaded[p], s)
                    BY <3>1 DEF Tables
                <5> QED
                    BY <5>1, AddRoomFinds DEF FindRoom, Tables
            <4>4. /\ default_room[p][r] <= save_room[p][r]
                  /\ FindRoom(p, r) <=> default_room[p][r] < save_room[p][r]
                BY <2>0, <3>2
            <4> QED
                BY <3>2, <4>1, <4>2, <4>3, <4>4
        <3> QED
            BY <3>2, <3>3
    <2>4. CASE ~ListRooms(p) /\ ~ListDone(p) /\ ~LoadRoom(p)
        <3>1. pc'[p] \notin {"listing", "loading"}
            BY <2>4, Elsewhere
        <3> QED
            BY <3>1
    <2> QED
        BY <2>1, <2>2, <2>3, <2>4
<1> QED
    BY <1>2, <1>3 DEF ListInv

-----------------------------------------------------------------------------
LEMMA NextLInv == IInv /\ LInv /\ [Next]_vars => LInv'
<1> SUFFICES ASSUME IInv, LInv, [Next]_vars PROVE LInv'
    OBVIOUS
<1>1. CASE UNCHANGED vars
    BY <1>1 DEF vars, process, file, list, LInv, Tables, SchemaInv, FreshInv, ListInv,
        ListLast, NoRooms, FindRoom
<1>2. CASE Next
    <2>1. PICK p \in Procs : StepOf(p)
        BY <1>2 DEF Next, StepOf
    <2> QED
        BY <2>1, NextTables, NextSchema, NextFresh, NextList DEF IInv, LInv
<1> QED
    BY <1>1, <1>2

LEMMA LoadedInvariance == Spec => []LInv
<1> QED
    BY Invariance, InitLInv, NextLInv, PTL DEF Spec

(* TypeOK: the schema never grows beyond the three tables, though several  *)
(* processes create them at once, and the writer is who has the lock.      *)
THEOREM TypeCorrect == Spec => []TypeOK
<1>1. IInv /\ LInv => TypeOK
    BY DEF IInv, LInv, Types, Control, Every, Tables, WriterInv, Writing, TypeOK
<1> QED
    BY <1>1, Invariance, LoadedInvariance, PTL

(* LoadedAreFound: after load_rooms a process finds the rooms that were in *)
(* the file when it read it, however many there are, in whichever buckets, *)
(* and whatever the others do to the file in the meantime.                 *)
THEOREM LoadedTheorem == Spec => LoadedAreFound
<1>1. ASSUME IInv, LInv, [Next]_vars
      PROVE  [\A p \in Procs :
                /\ pc[p] = "listing" /\ pc'[p] = "loading" => save_room[p] = rooms'
                /\ pc[p] = "loading" /\ pc'[p] = "idle" =>
                      \A r \in RoomNames : FindRoom(p, r) <=> save_room[p][r] > 0]_vars
    <2>1. CASE UNCHANGED vars
        BY <2>1
    <2>2. ASSUME NEW p \in Procs, StepOf(p), NEW q \in Procs,
                 pc[q] = "listing", pc'[q] = "loading"
          PROVE  save_room[q] = rooms'
        <3>1. q = p
            BY <1>1, <2>2, Frame DEF Framed, IInv
        <3>2. ~Commit(p)
            BY <2>2, <3>1 DEF Commit, At
        <3> QED
            BY <1>1, <2>2, <3>2, FileStep DEF file, LInv, ListInv
    <2>3. ASSUME NEW p \in Procs, StepOf(p), NEW q \in Procs,
                 pc[q] = "loading", pc'[q] = "idle", NEW r \in RoomNames
          PROVE  FindRoom(q, r) <=> save_room[q][r] > 0
        <3>1. q = p
            BY <1>1, <2>3, Frame DEF Framed, IInv
        <3>2. LoadDone(p)
            BY <1>1, <2>3, <3>1, Elsewhere DEF IInv
        <3>3. default_room[q][r] = 0
            BY <3>1, <3>2 DEF LoadDone, NoRows
        <3>4. FindRoom(q, r) <=> default_room[q][r] < save_room[q][r]
            BY <1>1, <2>3 DEF LInv, ListInv
        <3> QED
            BY <3>3, <3>4
    <2>4. CASE Next
        <3>1. PICK p \in Procs : StepOf(p)
            BY <2>4 DEF Next, StepOf
        <3> QED
            BY <2>2, <2>3, <3>1
    <2> QED
        BY <1>1, <2>1, <2>4
<1> QED
    BY <1>1, Invariance, LoadedInvariance, PTL DEF Spec, LoadedAreFound

=============================================================================
