----------------------------- MODULE Daemon_proofs -----------------------------
(***************************************************************************)
(* For every set of descriptors, accounts, rooms and requests, every limit *)
(* on the slots and every number of requests a read may return: what the   *)
(* listener, its clients and restarts keep true.                           *)
(*                                                                         *)
(* The tables are those of OnlineTables; what is proved of them there is   *)
(* taken over, and the lemmas of the second section connect the two.       *)
(***************************************************************************)
EXTENDS Daemon, SequenceTheorems, TLAPS

Lists == INSTANCE OnlineTables_proofs
             WITH Names <- Stored, MaxJoined <- MaxClientOps,
                  OtherRooms <- OtherRooms \cup {Mangled}

AnyRoom == Rooms \cup (OtherRooms \cup {Mangled})
Slots == Tables!Slots

(* The tables as OnlineTables leaves them.                                 *)
TablesInv == Tables!TypeOK /\ Tables!OneListedMember

(* Everything of TypeOK that is the daemon's own.                          *)
UsersType ==
    /\ users \in [UserNames \cup {Mangled} -> Stored \cup {NoUser}]
    /\ spliced \subseteq Fds

SocketsType ==
    /\ peer \in [Fds -> {"none", "open", "fin", "rst", "finrst"}]
    /\ stream \in [Fds -> Seq(Requests \cup {Fragment})]
    /\ \A fd \in Free : stream[fd] = <<>>
    /\ backlog \in 0 .. MaxClientOps
    /\ edges \subseteq Open \cup {server_fd}

LoopType ==
    /\ batch \subseteq (Fds \X {"in", "hup"}) \cup {<<server_fd, "in">>}
    /\ pc \in {"wait", "events", "accept", "read"}
    /\ current \in IF pc = "read" THEN Open ELSE {server_fd}
    /\ ops \in 0 .. MaxClientOps
    /\ backlog <= ops
    /\ leaked \subseteq Fds
    /\ starved \in BOOLEAN

(* One event at most for each descriptor, none for the one being read: a   *)
(* close in the middle of a batch leaves no event behind.                  *)
BatchInv ==
    /\ EventsAreForOpenFds
    /\ \A fd \in Fds : <<fd, "in">> \notin batch \/ <<fd, "hup">> \notin batch
    /\ pc = "read" => \A event \in batch : event[1] # current

(* A slot is put online with the password of an account, which stays, but  *)
(* for texts with a quote in them.                                         *)
AccountInv ==
    \A fd \in Slots \ spliced : online[fd] =>
        \E u \in DOMAIN users : users[u] # NoUser /\ username[fd] = users[u]

IInv ==
    /\ TablesInv /\ UsersType /\ SocketsType /\ LoopType /\ BatchInv
    /\ AccountInv /\ OrderlyCloseClears

-----------------------------------------------------------------------------
(* The daemon's tables and those of the proofs are the same.               *)
LEMMA TablesAssumed == Lists!TablesAssumption
BY DaemonAssumption DEF Lists!TablesAssumption, Stored

LEMMA SameInvariant == Lists!IInv <=> TablesInv
BY DEF Lists!IInv, TablesInv, Tables!TypeOK, Lists!TypeOK, Tables!Slots, Lists!Slots,
    Tables!WildOnlyLast, Lists!WildOnlyLast, Tables!OneListedMember, Lists!OneListedMember

LEMMA ListsKeepTables ==
    ASSUME TablesInv, Lists!Next
    PROVE  TablesInv'
<1>1. Lists!IInv'
    BY TablesAssumed, SameInvariant, Lists!NextIInv
<1> QED
    BY <1>1 DEF Lists!IInv, TablesInv, Tables!TypeOK, Lists!TypeOK, Tables!Slots,
        Lists!Slots, Tables!WildOnlyLast, Lists!WildOnlyLast, Tables!OneListedMember,
        Lists!OneListedMember

LEMMA SameSequences ==
    ASSUME NEW s, NEW x
    PROVE  /\ Tables!ToSet(s) = Lists!ToSet(s)
           /\ Tables!RemoveAt(s, x) = Lists!RemoveAt(s, x)
           /\ Tables!RemoveFirst(s, x) = Lists!RemoveFirst(s, x)
<1>1. Tables!ToSet(s) = Lists!ToSet(s)
    BY DEF Tables!ToSet, Lists!ToSet
<1>2. Tables!RemoveAt(s, x) = Lists!RemoveAt(s, x)
    BY DEF Tables!RemoveAt, Lists!RemoveAt
<1>3. Tables!RemoveFirst(s, x) = Lists!RemoveFirst(s, x)
    BY DEF Tables!RemoveFirst, Lists!RemoveFirst, Tables!RemoveAt, Lists!RemoveAt,
        Tables!SelectInSeq, Lists!SelectInSeq, Tables!Min, Lists!Min
<1> QED
    BY <1>1, <1>2, <1>3

LEMMA SameLogin ==
    ASSUME NEW fd \in Fds, NEW name \in Stored, Tables!Login(fd, name)
    PROVE  Lists!Next
<1>1. Lists!Login(fd, name)
    BY DEF Tables!Login, Lists!Login, Tables!Slots, Lists!Slots, Tables!vars, Lists!vars
<1> QED
    BY <1>1 DEF Lists!Next

LEMMA SameLogout ==
    ASSUME NEW fd \in Fds, Tables!Logout(fd)
    PROVE  Lists!Next
<1>1. Lists!Logout(fd)
    BY DEF Tables!Logout, Lists!Logout, Tables!Slots, Lists!Slots,
        Tables!Undefined, Lists!Undefined
<1> QED
    BY <1>1 DEF Lists!Next

LEMMA SameJoinRoom ==
    ASSUME NEW fd \in Fds, NEW r \in AnyRoom, Tables!JoinRoom(fd, r)
    PROVE  Lists!Next
<1>1. Lists!JoinRoom(fd, r)
    BY DEF Tables!JoinRoom, Lists!JoinRoom, Tables!Slots, Lists!Slots, Tables!vars,
        Lists!vars, Tables!Undefined, Lists!Undefined, Tables!FindRoom, Lists!FindRoom,
        Tables!AddUserToRoom, Lists!AddUserToRoom
<1> QED
    BY <1>1 DEF Lists!Next, AnyRoom

LEMMA SameLeaveRoom ==
    ASSUME NEW fd \in Fds, NEW r \in AnyRoom, Tables!LeaveRoom(fd, r)
    PROVE  Lists!Next
<1>1. Lists!LeaveRoom(fd, r)
    BY SameSequences DEF Tables!LeaveRoom, Lists!LeaveRoom, Tables!Slots, Lists!Slots, Tables!vars,
        Lists!vars, Tables!Undefined, Lists!Undefined, Tables!Holds, Lists!Holds,
        Tables!IsFirstOf, Lists!IsFirstOf,
        Tables!DeleteUserFromRoom, Lists!DeleteUserFromRoom
<1> QED
    BY <1>1 DEF Lists!Next, AnyRoom

LEMMA SameRestart ==
    ASSUME Tables!Restart
    PROVE  Lists!Next
<1>1. Lists!Restart
    BY DEF Tables!Restart, Lists!Restart, Tables!Slots, Lists!Slots
<1> QED
    BY <1>1 DEF Lists!Next

LEMMA SameInit == Tables!Init => Lists!Init
BY DEF Tables!Init, Lists!Init, Tables!Slots, Lists!Slots

-----------------------------------------------------------------------------
(* A misread request is still one of the same type, with fields of the     *)
(* same kinds.                                                             *)
LEMMA ParsedRequest ==
    ASSUME NEW m \in Requests, NEW n, NEW cut \in BOOLEAN, NEW p \in Parsed(m, n, cut)
    PROVE  /\ p.type = m.type
           /\ p.type \in {"JOIN", "LOGIN"} =>
                 p.data.name \in UserNames \cup {Mangled} /\ p.data.password \in Stored
           /\ p.type \in {"JOIN_ROOM", "LEAVE_ROOM"} => p.data \in AnyRoom
<1> USE DEF Stored, AnyRoom, NamesUser, NamesRoom
<1>1. m \in RequestSet
    BY DaemonAssumption
<1>2. CASE p = m
    <2>1. RoomNames \subseteq AnyRoom
        BY DaemonAssumption
    <2> QED
        BY <1>1, <1>2, <2>1 DEF RequestSet
<1>3. CASE NamesRoom(m) /\ \E r \in RoomNames \cup {Mangled} : p = [m EXCEPT !.data = r]
    <2>1. m.type \notin {"JOIN", "LOGIN"}
        BY <1>3
    <2>2. p.type = m.type /\ p.data \in RoomNames \cup {Mangled}
        BY <1>1, <1>3 DEF RequestSet
    <2> QED
        BY <2>1, <2>2, DaemonAssumption
<1>4. CASE /\ NamesUser(m)
           /\ \E u \in UserNames \cup {Mangled}, w \in Passwords \cup {Mangled} :
                 p = [m EXCEPT !.data = [name |-> u, password |-> w]]
    BY <1>1, <1>4 DEF RequestSet
<1>5. NamesUser(m) => <1>4!1
    BY <1>1 DEF Parsed, RequestSet
<1>6. ~NamesUser(m) => p = m \/ <1>3!1
    BY DEF Parsed
<1> QED
    BY <1>2, <1>3, <1>4, <1>5, <1>6

(* A quote comes from the request, from a torn read or from too long a     *)
(* field.                                                                  *)
LEMMA ParsedQuotes ==
    ASSUME NEW m \in Requests, m.type = "JOIN",
           NEW n \in Nat \ {0}, NEW cut \in BOOLEAN, NEW p \in Parsed(m, n, cut), Quotes(p.data)
    PROVE  \/ Quotes(m.data)
           \/ Quoted # {} /\ (n > 1 \/ cut \/ TooLong(m))
<1> SUFFICES ASSUME n = 1, ~cut, ~TooLong(m)
             PROVE  Quotes(m.data)
    BY DEF Quotes
<1>1. m \in RequestSet
    BY DaemonAssumption
<1>2. m.data.name \notin Long
    BY DEF TooLong, NamesUser
<1>3. p = [m EXCEPT !.data = [name |-> m.data.name, password |-> m.data.password]]
    BY <1>2 DEF Parsed, NamesUser
<1>4. p.data.name = m.data.name /\ p.data.password = m.data.password
    BY <1>1, <1>3 DEF RequestSet
<1> QED
    BY <1>4 DEF Quotes

(* What a packet can do to the tables.                                     *)
Died ==
    /\ status' \in {"crashed", "corrupt"}
    /\ UNCHANGED <<online, username, joined, members>>

LoggedIn(fd) ==
    /\ UNCHANGED users
    /\ \E password \in Stored :
          /\ Tables!Login(fd, password)
          /\ \/ spliced' = spliced \cup {fd}
             \/ /\ spliced' = spliced \ {fd}
                /\ \E name \in UserNames \cup {Mangled} :
                      users[name] # NoUser /\ users[name] = password

NotLoggedIn(fd) ==
    \/ UNCHANGED tables
    \/ Tables!Logout(fd)
    \/ \E r \in AnyRoom : Tables!JoinRoom(fd, r) \/ Tables!LeaveRoom(fd, r)
    \/ Died

(* What it can do to the accounts.                                         *)
UsersGrow ==
    \/ UNCHANGED users
    \/ \E name \in UserNames \cup {Mangled}, password \in Stored :
          users[name] = NoUser /\ users' = [users EXCEPT ![name] = password]

Splice == users' \in SpliceResults \cup {users} /\ spliced' = Fds

HandledBy(fd) ==
    \/ LoggedIn(fd)
    \/ NotLoggedIn(fd) /\ ((UsersGrow /\ UNCHANGED spliced) \/ Splice)

TablesBy(fd) == NotLoggedIn(fd) \/ \E password \in Stored : Tables!Login(fd, password)

LEMMA HandledTables ==
    ASSUME NEW fd, HandledBy(fd)
    PROVE  TablesBy(fd)
BY DEF HandledBy, LoggedIn, TablesBy

LEMMA UserCreated ==
    ASSUME NEW c, NEW result \in JoinResults(c), c.name \in UserNames \cup {Mangled}, c.password \in Stored,
           CreateUser(c, result)
    PROVE  /\ (UsersGrow /\ UNCHANGED spliced) \/ Splice
           /\ UsersGrow \/ Quotes(c)
<1>1. CASE users' = users /\ UNCHANGED spliced
    BY <1>1 DEF UsersGrow
<1>2. CASE /\ users[c.name] = NoUser /\ users' = [users EXCEPT ![c.name] = c.password]
           /\ UNCHANGED spliced
    BY <1>2 DEF UsersGrow
<1>3. CASE Splice /\ Quotes(c)
    BY <1>3
<1>4. CASE c.name \notin Forbidden /\ Quotes(c)
    BY <1>1, <1>3, <1>4 DEF CreateUser, Splice
<1>5. CASE ~Quotes(c)
    BY <1>1, <1>2, <1>5 DEF CreateUser, KnownUser, Quotes
<1>6. CASE c.name \in Forbidden /\ Quotes(c)
    BY <1>1, <1>6 DEF CreateUser, JoinResults
<1> QED
    BY <1>4, <1>5, <1>6

LEMMA MessageHandled ==
    ASSUME NEW fd \in Fds, NEW m \in Requests, NEW n, NEW cut \in BOOLEAN,
           NEW p \in Parsed(m, n, cut), ProcessMessage(fd, p)
    PROVE  /\ HandledBy(fd)
           /\ UsersGrow \/ (m.type = "JOIN" /\ Quotes(p.data))
<1> USE DEF HandledBy, NotLoggedIn, accounts
<1>1. CASE p.type = "JOIN" /\ HandleJoin(fd, p.data)
    <2>1. PICK result \in JoinResults(p.data) : CreateUser(p.data, result)
        BY <1>1 DEF HandleJoin
    <2>2. p.data.name \in UserNames \cup {Mangled} /\ p.data.password \in Stored
        BY <1>1, ParsedRequest
    <2>3. m.type = "JOIN" /\ UNCHANGED tables
        BY <1>1, ParsedRequest DEF HandleJoin
    <2> QED
        BY <2>1, <2>2, <2>3, UserCreated
<1>2. CASE p.type = "LOGIN" /\ HandleLogin(fd, p.data)
    <2>1. p.data.name \in UserNames \cup {Mangled} /\ p.data.password \in Stored
        BY <1>2, ParsedRequest
    <2>2. CASE /\ CheckUser(p.data) \/ Quotes(p.data)
               /\ Tables!Login(fd, p.data.password)
               /\ spliced' = IF Quotes(p.data) THEN spliced \cup {fd} ELSE spliced \ {fd}
        BY <1>2, <2>1, <2>2 DEF HandleLogin, CheckUser, KnownUser, LoggedIn, UsersGrow
    <2>3. CASE UNCHANGED <<tables, spliced>>
        BY <1>2, <2>3 DEF HandleLogin, UsersGrow
    <2> QED
        BY <1>2, <2>2, <2>3 DEF HandleLogin
<1>3. CASE HandleLogout(fd)
    BY <1>3 DEF HandleLogout, UsersGrow
<1>4. CASE p.type = "JOIN_ROOM" /\ HandleJoinRoom(fd, p.data)
    BY <1>4, ParsedRequest DEF HandleJoinRoom, UsersGrow
<1>5. CASE p.type = "LEAVE_ROOM" /\ HandleLeaveRoom(fd, p.data)
    BY <1>5, ParsedRequest DEF HandleLeaveRoom, UsersGrow
<1>6. CASE HandleListRooms(fd) \/ HandleOther
    BY <1>6 DEF HandleListRooms, HandleOther, UsersGrow
<1>7. CASE HandleEcho(fd) \/ HandleUnknownType
    BY <1>7 DEF HandleEcho, HandleUnknownType, Tables!Undefined, UsersGrow, Died
<1> QED
    BY <1>1, <1>2, <1>3, <1>4, <1>5, <1>6, <1>7 DEF ProcessMessage

LEMMA OverrunHandled ==
    ASSUME NEW fd \in Fds, NEW m \in Requests, NEW n, NEW cut \in BOOLEAN,
           NEW p \in Parsed(m, n, cut), Overrun(p)
    PROVE  /\ HandledBy(fd)
           /\ UsersGrow \/ (m.type = "JOIN" /\ Quotes(p.data))
<1>1. /\ p.data.name \in UserNames \cup {Mangled} /\ p.data.password \in Stored
      /\ m.type = p.type /\ p.type \in {"JOIN", "LOGIN"}
    BY ParsedRequest DEF Overrun, NamesUser
<1>2. Died
    BY DEF Overrun, Died
<1>3. CASE p.type = "JOIN"
    <2>1. PICK result \in JoinResults(p.data) : CreateUser(p.data, result)
        BY <1>3 DEF Overrun
    <2> QED
        BY <1>1, <1>2, <1>3, <2>1, UserCreated DEF HandledBy, NotLoggedIn
<1>4. CASE p.type = "LOGIN"
    BY <1>2, <1>4 DEF Overrun, HandledBy, NotLoggedIn, UsersGrow, accounts
<1> QED
    BY <1>1, <1>3, <1>4

LEMMA PacketHandled ==
    ASSUME SocketsType, NEW fd \in Fds, stream[fd] # <<>>,
           NEW n, NEW cut \in BOOLEAN, ProcessPacket(fd, n, cut)
    PROVE  /\ HandledBy(fd)
           /\ \/ UsersGrow
              \/ /\ Head(stream[fd]) \in Requests /\ Head(stream[fd]).type = "JOIN"
                 /\ \E p \in Parsed(Head(stream[fd]), n, cut) : Quotes(p.data)
<1> DEFINE m == Head(stream[fd])
<1>1. m \in Requests \cup {Fragment}
    BY HeadTailProperties DEF SocketsType
<1>2. ASSUME m # Fragment, NEW p \in Parsed(m, n, cut), ProcessMessage(fd, p) \/ Overrun(p)
      PROVE  /\ HandledBy(fd)
             /\ UsersGrow \/ (m \in Requests /\ m.type = "JOIN" /\ Quotes(p.data))
    BY <1>1, <1>2, MessageHandled, OverrunHandled
<1>3. CASE Crash \/ HandleOther
    BY <1>3 DEF Crash, HandleOther, HandledBy, NotLoggedIn, UsersGrow, Died, accounts
<1> HIDE DEF m
<1>4. CASE m # Fragment /\ \E p \in Parsed(m, n, cut) : ProcessMessage(fd, p) \/ Overrun(p)
    BY <1>2, <1>4 DEF m
<1> QED
    BY <1>3, <1>4 DEF ProcessPacket, m

Streams == Seq(Requests \cup {Fragment})

(* A read that takes more than a request off a stream, or leaves the rest  *)
(* of one there, is torn.                                                  *)
LEMMA Torn ==
    ASSUME SocketsType, NEW n \in Nat \ {0}, NEW cut \in BOOLEAN, current \in Fds,
           n <= Len(stream[current]),
           stream' = [stream EXCEPT ![current] =
                        IF cut THEN <<Fragment>> \o SubSeq(@, n + 1, Len(@))
                               ELSE SubSeq(@, n + 1, Len(@))],
           \/ cut
           \/ Head(stream[current]) = Fragment
           \/ n > 1 /\ Head(stream[current]).type \in {"JOIN", "LOGIN"}
    PROVE  TornRead
<1> DEFINE before == stream[current]
           rest == SubSeq(before, n + 1, Len(before))
<1>1. before \in Streams /\ before # <<>>
    BY DEF SocketsType, Streams
<1>2. rest \in Streams /\ Len(rest) = Len(before) - n
    BY <1>1 DEF Streams
<1>3. stream'[current] = IF cut THEN <<Fragment>> \o rest ELSE rest
    BY DEF SocketsType
<1> HIDE DEF rest
<1>4. CASE cut
    <2>1. stream'[current] # <<>> /\ Head(stream'[current]) = Fragment
        BY <1>2, <1>3, <1>4 DEF Streams
    <2> QED
        BY <2>1 DEF TornRead
<1>5. CASE Head(stream[current]) = Fragment
    BY <1>1, <1>5 DEF TornRead
<1>6. CASE ~cut /\ n > 1 /\ Head(stream[current]).type \in {"JOIN", "LOGIN"}
    <2>1. Len(stream'[current]) < Len(before) - 1
        BY <1>1, <1>2, <1>3, <1>6 DEF Streams
    <2> QED
        BY <1>6, <2>1 DEF TornRead
<1> QED
    BY <1>4, <1>5, <1>6

LEMMA ReadPacketHandled ==
    ASSUME SocketsType, LoopType, ReadPacket
    PROVE  /\ HandledBy(current)
           /\ \/ UsersGrow
              \/ /\ stream[current] # <<>> /\ Head(stream[current]).type = "JOIN"
                 /\ MayQuote(Head(stream[current]))
<1>1. PICK n \in 1 .. MaxPerRead, cut \in {FALSE, SplitReads} :
        /\ n <= Len(stream[current]) /\ ProcessPacket(current, n, cut)
        /\ stream' = [stream EXCEPT ![current] =
                        IF cut THEN <<Fragment>> \o SubSeq(@, n + 1, Len(@))
                               ELSE SubSeq(@, n + 1, Len(@))]
    BY DEF ReadPacket
<1>2. current \in Fds /\ cut \in BOOLEAN
    BY DaemonAssumption DEF ReadPacket, LoopType, Open
<1>3. stream[current] # <<>> /\ n \in Nat \ {0}
    BY <1>1, <1>2, DaemonAssumption DEF SocketsType
<1>4. HandledBy(current)
    BY <1>1, <1>2, <1>3, PacketHandled
<1> DEFINE m == Head(stream[current])
<1>5. ASSUME m \in Requests, m.type = "JOIN", NEW p \in Parsed(m, n, cut), Quotes(p.data)
      PROVE  MayQuote(m)
    <2>1. CASE Quotes(m.data) \/ (Quoted # {} /\ TooLong(m))
        BY <2>1 DEF MayQuote
    <2>2. CASE n > 1 \/ cut
        <3>1. TornRead
            BY <1>1, <1>2, <1>3, <1>5, <2>2, Torn
        <3> QED
            BY <1>5, <3>1 DEF MayQuote, Quotes
    <2> QED
        BY <1>2, <1>3, <1>5, <2>1, <2>2, ParsedQuotes
<1> HIDE DEF m
<1> QED
    BY <1>1, <1>2, <1>3, <1>4, <1>5, PacketHandled DEF m

-----------------------------------------------------------------------------
(* The tables keep their invariant, and the slots of other descriptors     *)
(* what they hold.                                                         *)
LEMMA HandledKeepsTables ==
    ASSUME TablesInv, NEW fd \in Fds, TablesBy(fd)
    PROVE  TablesInv'
<1>1. CASE UNCHANGED tables \/ Died
    <2> USE DEF tables, Died, TablesInv, Tables!TypeOK, Tables!OneListedMember, Tables!WildOnlyLast
    <2> QED
        BY <1>1
<1>2. CASE ~(UNCHANGED tables \/ Died)
    BY <1>2, ListsKeepTables, SameLogin, SameLogout, SameJoinRoom, SameLeaveRoom
    DEF TablesBy, NotLoggedIn
<1> QED
    BY <1>1, <1>2

LEMMA OtherSlots ==
    ASSUME TablesInv, NEW fd \in Fds, TablesBy(fd), NEW f \in Slots \ {fd}
    PROVE  online'[f] = online[f] /\ username'[f] = username[f] /\ joined'[f] = joined[f]
<1> USE DEF TablesInv, Tables!TypeOK, Slots
<1>1. CASE UNCHANGED tables \/ Died
    BY <1>1 DEF tables, Died
<1>2. ASSUME NEW password, Tables!Login(fd, password)
      PROVE  online'[f] = online[f] /\ username'[f] = username[f] /\ joined'[f] = joined[f]
    BY <1>2 DEF Tables!Login, Tables!vars
<1>3. CASE Tables!Logout(fd)
    BY <1>3 DEF Tables!Logout, Tables!Undefined
<1>4. ASSUME NEW r, Tables!JoinRoom(fd, r) \/ Tables!LeaveRoom(fd, r)
      PROVE  online'[f] = online[f] /\ username'[f] = username[f] /\ joined'[f] = joined[f]
    BY <1>4 DEF Tables!JoinRoom, Tables!LeaveRoom, Tables!Undefined, Tables!vars
<1> QED
    BY <1>1, <1>2, <1>3, <1>4 DEF TablesBy, NotLoggedIn

(* The part of a listener's or client's step that concerns the tables and  *)
(* the accounts.                                                           *)
Quiet == UNCHANGED <<tables, accounts>>

LEMMA TablesStep ==
    ASSUME SocketsType, LoopType, Next
    PROVE  \/ Quiet
           \/ ReadPacket /\ HandledBy(current)
           \/ ReadEof /\ Tables!Logout(current) /\ UNCHANGED accounts
           \/ ReadError /\ Died /\ UNCHANGED accounts
           \/ Restart /\ Tables!Restart /\ UNCHANGED users /\ spliced' = {}
<1> USE DEF Quiet
<1>1. CASE Clients
    BY <1>1 DEF Clients, Connect, Write, CloseClient, ResetClient, ClientStep
<1>2. CASE EpollWait \/ BatchDone \/ CloseOnError \/ StartAccept
    BY <1>2 DEF EpollWait, BatchDone, CloseOnError, StartAccept
<1>3. CASE Accept \/ AcceptFails \/ StartRead \/ ReadAgain
    BY <1>3 DEF Accept, AcceptFails, StartRead, ReadAgain
<1>4. CASE ReadPacket
    BY <1>4, ReadPacketHandled
<1>5. CASE ReadEof
    BY <1>5 DEF ReadEof
<1>6. CASE ReadError
    BY <1>6 DEF ReadError, Crash, Died
<1>7. CASE Restart
    BY <1>7 DEF Restart
<1> QED
    BY <1>1, <1>2, <1>3, <1>4, <1>5, <1>6, <1>7 DEF Next, ListenerStep

LEMMA NextTables ==
    ASSUME TablesInv, SocketsType, LoopType, Next
    PROVE  TablesInv'
<1>1. CASE Quiet
    BY <1>1 DEF Quiet, tables, TablesInv, Tables!TypeOK, Tables!OneListedMember, Tables!WildOnlyLast
<1>2. CASE pc = "read" /\ TablesBy(current)
    BY <1>2, HandledKeepsTables DEF LoopType, Open
<1>3. CASE Tables!Restart
    BY <1>3, SameRestart, ListsKeepTables
<1>4. ReadPacket \/ ReadEof \/ ReadError => pc = "read"
    BY DEF ReadPacket, ReadEof, ReadError
<1>5. Tables!Logout(current) \/ Died => TablesBy(current)
    BY DEF TablesBy, NotLoggedIn
<1> QED
    BY <1>1, <1>2, <1>3, <1>4, <1>5, HandledTables, TablesStep

(* Rows are only added to table users, but for texts with a quote in them. *)
LEMMA NextUsers ==
    ASSUME UsersType, SocketsType, LoopType, Next
    PROVE  UsersType'
<1>1. CASE UNCHANGED accounts
    BY <1>1 DEF UsersType, accounts
<1>2. CASE UNCHANGED users /\ spliced' = {}
    BY <1>2 DEF UsersType
<1>3. ASSUME current \in Fds, HandledBy(current)
      PROVE  UsersType'
    <2>1. CASE UsersGrow /\ UNCHANGED spliced
        BY <2>1 DEF UsersGrow, UsersType
    <2>2. CASE Splice
        BY <2>2, DaemonAssumption DEF Splice, UsersType, Stored
    <2>3. CASE LoggedIn(current)
        BY <1>3, <2>3 DEF LoggedIn, UsersType
    <2> QED
        BY <1>3, <2>1, <2>2, <2>3 DEF HandledBy
<1>4. ReadPacket => current \in Fds
    BY DEF ReadPacket, LoopType, Open
<1> QED
    BY <1>1, <1>2, <1>3, <1>4, TablesStep DEF Quiet, accounts

LEMMA UsersStay ==
    ASSUME UsersType, UsersGrow
    PROVE  DOMAIN users' = DOMAIN users
           /\ \A u \in DOMAIN users : users[u] # NoUser => users'[u] = users[u]
BY DEF UsersGrow, UsersType

LEMMA NextStay ==
    ASSUME UsersType, SocketsType, LoopType, Next, NEW u \in DOMAIN users, users[u] # NoUser
    PROVE  \/ users'[u] = users[u]
           \/ /\ pc = "read" /\ stream[current] # <<>>
              /\ Head(stream[current]).type = "JOIN"
              /\ MayQuote(Head(stream[current]))
<1>1. CASE UNCHANGED users
    BY <1>1
<1>2. CASE ReadPacket
    BY <1>2, ReadPacketHandled, UsersStay DEF ReadPacket
<1> QED
    BY <1>1, <1>2, TablesStep DEF Quiet, accounts

(* Who is online after a step was so before with the same name, or has     *)
(* logged in with the password of an account.                              *)
LEMMA NextAccounts ==
    ASSUME TablesInv, UsersType, SocketsType, LoopType, AccountInv, Next
    PROVE  AccountInv'
<1> USE DEF TablesInv, Tables!TypeOK, Slots
<1> SUFFICES ASSUME NEW fd \in Slots, fd \notin spliced', online'[fd]
             PROVE  \E u \in DOMAIN users' : users'[u] # NoUser /\ username'[fd] = users'[u]
    BY DEF AccountInv, Tables!Slots
<1>1. ~Splice
    BY DEF Splice, Tables!Slots
<1> DEFINE Kept == online[fd] /\ username'[fd] = username[fd]
<1>2. ASSUME Kept, UsersGrow, fd \notin spliced
      PROVE  \E u \in DOMAIN users' : users'[u] # NoUser /\ username'[fd] = users'[u]
    BY <1>2, UsersStay DEF AccountInv
<1>3. UNCHANGED tables \/ Died => Kept
    BY DEF tables, Died
<1>4. ASSUME NEW f \in Fds, Tables!Logout(f)
      PROVE  Kept
    BY <1>4 DEF Tables!Logout, Tables!Undefined
<1>5. ASSUME NEW f \in Fds, NEW r, Tables!JoinRoom(f, r) \/ Tables!LeaveRoom(f, r)
      PROVE  Kept
    BY <1>5 DEF Tables!JoinRoom, Tables!LeaveRoom, Tables!Undefined, Tables!vars
<1>6. ASSUME NEW f \in Fds, NEW password, Tables!Login(f, password), f # fd
      PROVE  Kept
    BY <1>6 DEF Tables!Login, Tables!vars
<1>7. ~Tables!Restart
    BY DEF Tables!Restart
<1>8. ReadPacket \/ ReadEof => current \in Fds
    BY DEF ReadPacket, ReadEof, LoopType, Open
<1>9. CASE UNCHANGED accounts /\ Kept
    BY <1>2, <1>9 DEF accounts, UsersGrow
<1>10. ASSUME current \in Fds, LoggedIn(current)
       PROVE  \E u \in DOMAIN users' : users'[u] # NoUser /\ username'[fd] = users'[u]
    <2>1. PICK password \in Stored :
            /\ Tables!Login(current, password)
            /\ \/ spliced' = spliced \cup {current}
               \/ /\ spliced' = spliced \ {current}
                  /\ \E name \in UserNames \cup {Mangled} :
                        users[name] # NoUser /\ users[name] = password
        BY <1>10 DEF LoggedIn
    <2>2. CASE current = fd
        <3>1. username'[fd] = password
            BY <2>1, <2>2 DEF Tables!Login
        <3>2. PICK name \in UserNames \cup {Mangled} : users[name] # NoUser /\ users[name] = password
            BY <2>1, <2>2
        <3> QED
            BY <1>10, <3>1, <3>2 DEF LoggedIn, UsersType
    <2>3. CASE current # fd
        <3>1. fd \notin spliced /\ UsersGrow
            BY <1>10, <2>1, <2>3 DEF LoggedIn, UsersGrow
        <3> QED
            BY <1>2, <1>6, <1>10, <2>1, <2>3, <3>1
    <2> QED
        BY <2>2, <2>3
<1>11. ASSUME current \in Fds, NotLoggedIn(current), UsersGrow, UNCHANGED spliced
       PROVE  \E u \in DOMAIN users' : users'[u] # NoUser /\ username'[fd] = users'[u]
    <2>1. Kept
        BY <1>3, <1>4, <1>5, <1>11 DEF NotLoggedIn
    <2> QED
        BY <1>2, <1>11, <2>1
<1> HIDE DEF Kept
<1> QED
    BY <1>1, <1>3, <1>4, <1>7, <1>8, <1>9, <1>10, <1>11, TablesStep DEF HandledBy, Quiet

-----------------------------------------------------------------------------
(* The kernel's side and the loop.                                         *)
LEMMA ClientsKeepSockets ==
    ASSUME SocketsType, LoopType, Clients
    PROVE  SocketsType'
<1> USE DEF SocketsType, ClientStep, Free, Open
<1>1. CASE Connect
    BY <1>1, DaemonAssumption DEF Connect, LoopType
<1>2. ASSUME NEW fd \in Fds, NEW m \in Requests, Write(fd, m)
      PROVE  SocketsType'
    <2>1. Append(stream[fd], m) \in Streams
        BY AppendProperties DEF Streams
    <2>2. stream' \in [Fds -> Streams]
        BY <1>2, <2>1 DEF Write, Streams
    <2> QED
        BY <1>2, <2>2 DEF Write, Streams
<1>3. ASSUME NEW fd \in Fds, CloseClient(fd) \/ ResetClient(fd)
      PROVE  SocketsType'
    <2>1. peer' \in [Fds -> {"none", "open", "fin", "rst", "finrst"}]
        BY <1>3 DEF CloseClient, ResetClient
    <2>2. peer[fd] # "none" /\ peer'[fd] # "none"
        BY <1>3 DEF CloseClient, ResetClient
    <2>3. Open' = Open
        BY <1>3, <2>2 DEF CloseClient, ResetClient
    <2> QED
        BY <1>3, <2>1, <2>2, <2>3 DEF CloseClient, ResetClient
<1> QED
    BY <1>1, <1>2, <1>3 DEF Clients

LEMMA CloseKeepsSockets ==
    ASSUME SocketsType, NEW fd \in Fds, Close(fd)
    PROVE  SocketsType'
<1>1. peer' \in [Fds -> {"none", "open", "fin", "rst", "finrst"}]
    BY DEF Close, SocketsType
<1>2. stream' \in [Fds -> Streams] /\ stream'[fd] = <<>>
    BY DEF Close, SocketsType, Streams
<1>3. Open' = Open \ {fd} /\ server_fd # fd
    BY DaemonAssumption DEF Close, SocketsType, Open
<1> QED
    BY <1>1, <1>2, <1>3 DEF Close, SocketsType, Free, Streams

LEMMA ListenerKeepsSockets ==
    ASSUME SocketsType, LoopType, ListenerStep \/ Restart
    PROVE  SocketsType'
<1>1. CASE UNCHANGED sockets
    BY <1>1 DEF sockets, SocketsType, Free, Open
<1>2. CASE EpollWait
    BY <1>2 DEF EpollWait, SocketsType, Free, Open
<1>3. CASE CloseOnError \/ ReadEof
    BY <1>3, CloseKeepsSockets DEF CloseOnError, ReadEof, LoopType, Open
<1>4. CASE Accept
    <2>1. peer' \in [Fds -> {"none", "open", "fin", "rst", "finrst"}]
        BY <1>4 DEF Accept, SocketsType
    <2>2. Open \subseteq Open'
        BY <1>4 DEF Accept, SocketsType, Open
    <2>3. backlog' \in 0 .. MaxClientOps
        BY <1>4, DaemonAssumption DEF Accept, SocketsType
    <2> QED
        BY <1>4, <2>1, <2>2, <2>3 DEF Accept, SocketsType, Free
<1>5. CASE ReadPacket
    <2>1. PICK n \in 1 .. MaxPerRead, cut \in {FALSE, SplitReads} :
            /\ n <= Len(stream[current])
            /\ stream' = [stream EXCEPT ![current] =
                           IF cut THEN <<Fragment>> \o SubSeq(@, n + 1, Len(@))
                                  ELSE SubSeq(@, n + 1, Len(@))]
        BY <1>5 DEF ReadPacket
    <2>2. current \in Open /\ current \in Fds
        BY <1>5 DEF ReadPacket, LoopType, Open
    <2> DEFINE rest == SubSeq(stream[current], n + 1, Len(stream[current]))
    <2>3. stream[current] \in Streams /\ n \in Nat
        BY <2>2, DaemonAssumption DEF SocketsType, Streams
    <2>4. rest \in Streams
        BY <2>3 DEF Streams
    <2>5. <<Fragment>> \o rest \in Streams
        BY <2>4 DEF Streams
    <2>6. stream' \in [Fds -> Streams]
        BY <2>1, <2>4, <2>5 DEF SocketsType, Streams
    <2>7. \A fd \in Fds \ {current} : stream'[fd] = stream[fd]
        BY <2>1 DEF SocketsType
    <2> QED
        BY <1>5, <2>2, <2>6, <2>7 DEF ReadPacket, SocketsType, Streams, Free, Open
<1>6. CASE Restart
    BY <1>6, DaemonAssumption DEF Restart, SocketsType, Free, Open
<1>7. BatchDone \/ StartAccept \/ AcceptFails \/ StartRead \/ ReadAgain \/ ReadError
        => UNCHANGED sockets
    BY DEF BatchDone, StartAccept, AcceptFails, StartRead, ReadAgain, ReadError, sockets
<1> QED
    BY <1>1, <1>2, <1>3, <1>4, <1>5, <1>6, <1>7 DEF ListenerStep

(* A client never frees a descriptor of the server.                        *)
LEMMA ClientsKeepPeers ==
    ASSUME SocketsType, Clients
    PROVE  Open' = Open
<1> USE DEF SocketsType, Open
<1>1. CASE UNCHANGED peer
    BY <1>1
<1>2. ASSUME NEW fd \in Fds, CloseClient(fd) \/ ResetClient(fd)
      PROVE  Open' = Open
    <2>1. /\ peer[fd] # "none" /\ peer'[fd] # "none"
          /\ \A f \in Fds \ {fd} : peer'[f] = peer[f]
        BY <1>2 DEF CloseClient, ResetClient
    <2> QED
        BY <2>1
<1> QED
    BY <1>1, <1>2 DEF Clients, Connect, Write

LEMMA NextLoop ==
    ASSUME SocketsType, LoopType, BatchInv, Next
    PROVE  LoopType'
<1> USE DEF LoopType
<1>1. CASE Clients
    <2>1. /\ UNCHANGED <<batch, pc, current, leaked, starved>>
          /\ ops' \in 0 .. MaxClientOps /\ backlog' <= ops'
        BY <1>1, DaemonAssumption
        DEF Clients, Connect, Write, CloseClient, ResetClient, ClientStep, SocketsType
    <2>2. Open \subseteq Open'
        BY <1>1, ClientsKeepPeers
    <2> QED
        BY <2>1, <2>2
<1>2. CASE EpollWait
    <2>1. Events \subseteq (Fds \X {"in", "hup"}) \cup {<<server_fd, "in">>}
        BY DEF Events, Open
    <2> QED
        BY <1>2, <2>1 DEF EpollWait
<1>3. CASE BatchDone \/ StartAccept \/ AcceptFails \/ ReadAgain
    BY <1>3 DEF BatchDone, StartAccept, AcceptFails, ReadAgain, sockets
<1>4. CASE CloseOnError
    BY <1>4 DEF CloseOnError, Close
<1>5. CASE Accept
    BY <1>5, DaemonAssumption DEF Accept, SocketsType
<1>6. CASE StartRead
    <2>1. PICK fd \in Fds : /\ <<fd, "in">> \in batch /\ current' = fd
                            /\ batch' = batch \ {<<fd, "in">>}
        BY <1>6 DEF StartRead
    <2>2. fd \in Open'
        BY <1>6, <2>1, DaemonAssumption
        DEF StartRead, sockets, BatchInv, EventsAreForOpenFds, Open
    <2> QED
        BY <1>6, <2>1, <2>2 DEF StartRead, sockets
<1>7. CASE ReadPacket \/ ReadError
    <2>1. UNCHANGED <<peer, backlog, batch, pc, current, ops, leaked, starved>>
        BY <1>7 DEF ReadPacket, ReadError, sockets
    <2> QED
        BY <2>1 DEF Open
<1>8. CASE ReadEof
    BY <1>8 DEF ReadEof, Close
<1>9. CASE Restart
    <2>1. /\ batch' = {} /\ pc' = "wait" /\ current' = server_fd /\ ops' = ops
          /\ backlog' = 0 /\ leaked' = {} /\ starved' = FALSE
        BY <1>9 DEF Restart
    <2>2. backlog' <= ops'
        BY <2>1
    <2> QED
        BY <2>1, <2>2
<1> QED
    BY <1>1, <1>2, <1>3, <1>4, <1>5, <1>6, <1>7, <1>8, <1>9 DEF Next, ListenerStep

(* Which connections a listener's step leaves open.                        *)
LEMMA CloseFrees ==
    ASSUME SocketsType, NEW fd \in Fds, Close(fd)
    PROVE  Open' = Open \ {fd} /\ Free' = Free \cup {fd}
<1>1. peer'[fd] = "none" /\ \A f \in Fds \ {fd} : peer'[f] = peer[f]
    BY DEF Close, SocketsType
<1> QED
    BY <1>1 DEF Open, Free

LEMMA AcceptOpens ==
    ASSUME SocketsType, Accept
    PROVE  Open \subseteq Open'
BY DEF Accept, SocketsType, Open

LEMMA NextBatch ==
    ASSUME SocketsType, LoopType, BatchInv, Next
    PROVE  BatchInv'
<1> USE DEF BatchInv
<1> DEFINE Known == Open \cup {server_fd}
<1>1. \A event \in batch : event[1] \in Known /\ event[1] \in Fds \cup {server_fd}
    BY DEF LoopType, EventsAreForOpenFds, Open
<1>2. ASSUME batch' \subseteq batch, Open \subseteq Open'
      PROVE  EventsAreForOpenFds'
    BY <1>1, <1>2 DEF EventsAreForOpenFds, Open
<1>3. CASE Clients
    <2>1. UNCHANGED <<batch, pc, current>> /\ Open' = Open
        BY <1>3, ClientsKeepPeers
        DEF Clients, Connect, Write, CloseClient, ResetClient, ClientStep
    <2> QED
        BY <1>2, <2>1
<1>4. CASE EpollWait
    <2>1. batch' = Events /\ UNCHANGED peer /\ pc' = "events"
        BY <1>4 DEF EpollWait
    <2>2. \A event \in Events : event[1] \in Known
        BY DEF Events
    <2>3. \A fd \in Fds : <<fd, "in">> \notin Events \/ <<fd, "hup">> \notin Events
        BY DaemonAssumption DEF Events
    <2> QED
        BY <2>1, <2>2, <2>3 DEF EventsAreForOpenFds, Open
<1>5. CASE BatchDone \/ StartAccept \/ Accept \/ AcceptFails \/ ReadAgain
    <2>1. batch' \subseteq batch /\ pc' # "read"
        BY <1>5 DEF BatchDone, StartAccept, Accept, AcceptFails, ReadAgain
    <2>2. Open \subseteq Open'
        BY <1>5, AcceptOpens DEF BatchDone, StartAccept, AcceptFails, ReadAgain, sockets, Open
    <2> QED
        BY <1>2, <2>1, <2>2
<1>6. CASE CloseOnError
    <2>1. PICK fd \in Fds : /\ <<fd, "hup">> \in batch /\ Close(fd)
                            /\ batch' = batch \ {<<fd, "hup">>}
        BY <1>6 DEF CloseOnError
    <2>2. <<fd, "in">> \notin batch /\ pc' # "read" /\ Open' = Open \ {fd}
        BY <1>6, <2>1, CloseFrees DEF CloseOnError
    <2>3. \A event \in batch' : event[1] # fd
        BY <2>1, <2>2, DaemonAssumption DEF LoopType
    <2> QED
        BY <1>1, <2>1, <2>2, <2>3 DEF EventsAreForOpenFds, Open
<1>7. CASE StartRead
    <2>1. PICK fd \in Fds : /\ <<fd, "in">> \in batch /\ current' = fd
                            /\ batch' = batch \ {<<fd, "in">>}
        BY <1>7 DEF StartRead
    <2>2. <<fd, "hup">> \notin batch /\ Open' = Open
        BY <1>7, <2>1 DEF StartRead, sockets, Open
    <2>3. \A event \in batch' : event[1] # fd
        BY <2>1, <2>2, DaemonAssumption DEF LoopType
    <2> QED
        BY <1>2, <2>1, <2>2, <2>3
<1>8. CASE ReadPacket \/ ReadError
    <2>1. UNCHANGED <<batch, pc, current>> /\ Open' = Open
        BY <1>8 DEF ReadPacket, ReadError, sockets, Open
    <2> QED
        BY <1>2, <2>1
<1>9. CASE ReadEof
    <2>1. current \in Fds /\ pc = "read"
        BY <1>9 DEF ReadEof, LoopType, Open
    <2>2. batch' = batch /\ pc' # "read" /\ Open' = Open \ {current}
        BY <1>9, <2>1, CloseFrees DEF ReadEof
    <2> QED
        BY <1>1, <2>1, <2>2 DEF EventsAreForOpenFds, Open
<1>10. CASE Restart
    BY <1>10 DEF Restart, EventsAreForOpenFds
<1> QED
    BY <1>3, <1>4, <1>5, <1>6, <1>7, <1>8, <1>9, <1>10 DEF Next, ListenerStep

(* The slots of free descriptors: only a logout or an error frees one.     *)
LEMMA NextOrderly ==
    ASSUME TablesInv, SocketsType, LoopType, OrderlyCloseClears, Next
    PROVE  OrderlyCloseClears'
<1> DEFINE Cleared(fd) == ~online[fd] /\ joined[fd] \in FreshHeads
<1> SUFFICES ASSUME status' = "running",
                    NEW fd \in Slots, fd \in Free', fd \notin leaked'
             PROVE  Cleared(fd)'
    BY DEF OrderlyCloseClears, Running, Slots, Tables!Slots
<1>1. Running /\ fd \in Free /\ fd \notin leaked => Cleared(fd)
    BY DEF OrderlyCloseClears, Slots
<1>2. CASE Quiet /\ Running /\ Free' \subseteq Free /\ leaked \subseteq leaked'
    BY <1>1, <1>2 DEF Quiet, tables
<1>3. CASE Clients
    <2>1. Quiet /\ Running /\ leaked' = leaked
        BY <1>3 DEF Clients, Connect, Write, CloseClient, ResetClient, ClientStep, Quiet
    <2> QED
        BY <1>2, <1>3, <2>1, ClientsKeepPeers DEF Free
<1>4. CASE EpollWait \/ BatchDone \/ StartAccept \/ AcceptFails \/ StartRead \/ ReadAgain
    <2>1. Quiet /\ Running /\ leaked' = leaked /\ UNCHANGED peer
        BY <1>4
        DEF EpollWait, BatchDone, StartAccept, AcceptFails, StartRead, ReadAgain, Quiet, sockets
    <2> QED
        BY <1>2, <2>1 DEF Free, Open
<1>5. CASE Accept
    BY <1>2, <1>5, AcceptOpens DEF Accept, Quiet, Free
<1>6. CASE CloseOnError
    <2>1. PICK f \in Fds : Close(f) /\ leaked' = leaked \cup {f}
        BY <1>6 DEF CloseOnError
    <2>2. Quiet /\ Running /\ fd \in Free /\ fd \notin leaked
        BY <1>6, <2>1, CloseFrees DEF CloseOnError, Quiet
    <2> QED
        BY <1>1, <2>2 DEF Quiet, tables
<1>7. CASE ReadPacket
    <2>1. Running /\ current \in Open /\ UNCHANGED <<peer, leaked>>
        BY <1>7 DEF ReadPacket, LoopType
    <2>2. Free' = Free /\ fd # current /\ current \in Fds
        BY <2>1 DEF Free, Open
    <2>3. TablesBy(current)
        BY <1>7, ReadPacketHandled, HandledTables
    <2> QED
        BY <1>1, <2>1, <2>2, <2>3, OtherSlots
<1>8. CASE ReadEof
    <2>1. /\ Running /\ current \in Fds /\ Tables!Logout(current)
          /\ Close(current) /\ leaked' = leaked \ {current}
        BY <1>8 DEF ReadEof, LoopType, Open
    <2>2. CASE fd = current
        <3>1. /\ online'[fd] = FALSE /\ joined' = joined
              /\ status' \in CASE joined[fd] = <<>>     -> {"running"}
                               [] joined[fd] = <<Wild>> -> {"crashed", "corrupt"}
                               [] OTHER                 -> {"crashed"}
            BY <2>1, <2>2 DEF Tables!Logout, TablesInv, Tables!TypeOK, Slots
        <3>2. joined'[fd] = <<>>
            BY <3>1
        <3> QED
            BY <3>1, <3>2, DaemonAssumption
    <2>3. CASE fd # current
        <3>1. fd \in Free /\ fd \notin leaked
            BY <2>1, <2>3, CloseFrees
        <3> QED
            BY <1>1, <2>1, <2>3, <3>1, OtherSlots DEF TablesBy, NotLoggedIn
    <2> QED
        BY <2>2, <2>3
<1>9. ~ReadError
    BY DEF ReadError, Crash
<1>10. CASE Restart
    BY <1>10 DEF Restart, Tables!Restart, Slots
<1> QED
    BY <1>3, <1>4, <1>5, <1>6, <1>7, <1>8, <1>9, <1>10 DEF Next, ListenerStep

-----------------------------------------------------------------------------
LEMMA InitIInv == Init => IInv
<1> SUFFICES ASSUME Init
             PROVE  IInv
    OBVIOUS
<1>1. TablesInv
    BY SameInit, TablesAssumed, SameInvariant, Lists!InitIInv DEF Init
<1>2. UsersType
    BY DaemonAssumption DEF Init, UsersType, Stored
<1>3. SocketsType /\ LoopType
    <2>1. <<>> \in Streams
        BY DEF Streams
    <2>2. stream \in [Fds -> Streams] /\ \A fd \in Fds : stream[fd] = <<>>
        BY <2>1 DEF Init, FreshSockets
    <2>3. peer \in [Fds -> {"none", "open", "fin", "rst", "finrst"}]
          /\ backlog \in 0 .. MaxClientOps /\ edges \subseteq Open \cup {server_fd}
        BY DaemonAssumption DEF Init, FreshSockets
    <2>4. SocketsType
        BY <2>2, <2>3 DEF SocketsType, Streams, Free
    <2>5. /\ batch = {} /\ pc = "wait" /\ current = server_fd /\ ops = 0
          /\ backlog = 0 /\ leaked = {} /\ starved = FALSE
        BY DEF Init, FreshSockets
    <2>6. backlog <= ops /\ ops \in 0 .. MaxClientOps
        BY <2>5, DaemonAssumption
    <2>7. LoopType
        BY <2>5, <2>6 DEF LoopType
    <2> QED
        BY <2>4, <2>7
<1>4. BatchInv
    BY DEF Init, FreshSockets, BatchInv, EventsAreForOpenFds
<1>5. AccountInv /\ OrderlyCloseClears
    BY DEF Init, Tables!Init, AccountInv, OrderlyCloseClears, Slots
<1> QED
    BY <1>1, <1>2, <1>3, <1>4, <1>5 DEF IInv

LEMMA NextIInv == IInv /\ [Next]_vars => IInv'
<1> SUFFICES ASSUME IInv, [Next]_vars
             PROVE  IInv'
    OBVIOUS
<1>1. CASE Next
    <2>1. SocketsType'
        BY <1>1, ClientsKeepSockets, ListenerKeepsSockets DEF IInv, Next
    <2> QED
        BY <1>1, <2>1, NextTables, NextUsers, NextLoop, NextBatch, NextAccounts, NextOrderly
        DEF IInv
<1>2. CASE UNCHANGED vars
    <2> USE <1>2 DEF IInv, vars, tables, accounts, sockets
    <2>1. TablesInv'
        BY DEF TablesInv, Tables!TypeOK, Tables!OneListedMember, Tables!WildOnlyLast
    <2>2. UsersType' /\ SocketsType' /\ LoopType'
        BY DEF UsersType, SocketsType, LoopType, Free, Open
    <2>3. BatchInv' /\ AccountInv' /\ OrderlyCloseClears'
        BY DEF BatchInv, EventsAreForOpenFds, AccountInv, OrderlyCloseClears, Running,
            Free, Open, Slots, Tables!Slots
    <2> QED
        BY <2>1, <2>2, <2>3
<1> QED
    BY <1>1, <1>2

LEMMA Invariance == Spec => []IInv
BY InitIInv, NextIInv, PTL DEF Spec

(* Type correctness.                                                       *)
THEOREM TypeCorrect == Spec => []TypeOK
<1>1. IInv => TypeOK
    BY DEF IInv, TablesInv, UsersType, SocketsType, LoopType, TypeOK
<1> QED
    BY <1>1, Invariance, PTL

(* Although descriptors are closed and handed out again in the middle of a *)
(* batch, no event of the batch is for a connection that is gone.          *)
THEOREM EventsTheorem == Spec => []EventsAreForOpenFds
<1>1. IInv => EventsAreForOpenFds
    BY DEF IInv, BatchInv
<1> QED
    BY <1>1, Invariance, PTL

(* A connection that does not end in an error leaves its slot as it was    *)
(* at the start, for the next one that gets the descriptor.                *)
THEOREM OrderlyTheorem == Spec => []OrderlyCloseClears
<1>1. IInv => OrderlyCloseClears
    BY DEF IInv
<1> QED
    BY <1>1, Invariance, PTL

(* No slot is online but with the password of an account there is, unless  *)
(* a text with a quote in it came in.                                      *)
THEOREM OnlineTheorem == Spec => []OnlineImpliesAccount
<1>1. IInv => OnlineImpliesAccount
    BY DEF IInv, AccountInv, OnlineImpliesAccount, Slots
<1> QED
    BY <1>1, Invariance, PTL

(* No step changes or removes an account, but one that reads a JOIN with a *)
(* quote in what is made of it.                                            *)
THEOREM AccountsTheorem == Spec => AccountsAreForever
<1> DEFINE Kept ==
        \A u \in DOMAIN users :
            users[u] # NoUser =>
                \/ users'[u] = users[u]
                \/ /\ pc = "read" /\ stream[current] # <<>>
                   /\ Head(stream[current]).type = "JOIN"
                   /\ MayQuote(Head(stream[current]))
<1>1. IInv /\ [Next]_vars => [Kept]_vars
    BY NextStay DEF IInv
<1> QED
    BY <1>1, Invariance, PTL DEF Spec, AccountsAreForever

-----------------------------------------------------------------------------
(* What is said to the clients.                                            *)
LEMMA Silence ==
    ASSUME sent' = <<>>
    PROVE  RepliesAreTrue'
BY DEF RepliesAreTrue, Told

LEMMA ReplyIsTrue ==
    ASSUME NEW to, NEW type, sent' = Reply(to, type),
           status' = "running" =>
              /\ IF type \in {"JOIN_SUCCESS", "JOIN_FAILED"}
                 THEN to = NoFd ELSE pc' = "read" /\ to = current'
              /\ to \in Tables!Slots =>
                   /\ type = "LOGIN_SUCCESS" => online'[to]
                   /\ type = "LOGOUT_SUCCESS" => ~online'[to] /\ joined'[to] = <<>>
                   /\ type = "JOIN_ROOM_SUCCESS" =>
                         \E r \in Rooms : (Tables!Holds(to, r) /\ Tables!Listed(to, r))'
    PROVE  RepliesAreTrue'
<1>1. \A i \in DOMAIN sent' : sent'[i].to = to /\ sent'[i].type = type
    BY DEF Reply
<1>2. ASSUME NEW fd, NEW kind, Told(fd, kind)'
      PROVE  fd = to /\ kind = type
    BY <1>2 DEF Told, Reply
<1>3. ASSUME status' = "running", NEW fd \in Tables!Slots
      PROVE  /\ Told(fd, "LOGIN_SUCCESS")' => online'[fd]
             /\ Told(fd, "LOGOUT_SUCCESS")' => ~online'[fd] /\ joined'[fd] = <<>>
             /\ Told(fd, "JOIN_ROOM_SUCCESS")' =>
                   \E r \in Rooms : (Tables!Holds(fd, r) /\ Tables!Listed(fd, r))'
    BY <1>2, <1>3
<1> QED
    BY <1>1, <1>3 DEF RepliesAreTrue, Running, Tables!Slots

(* A session that ends or joins, as the client is told.                    *)
LEMMA LogoutEnds ==
    ASSUME TablesInv, NEW fd \in Slots, Tables!Logout(fd), status' = "running"
    PROVE  ~online'[fd] /\ joined[fd] = <<>> /\ joined'[fd] = <<>>
<1>1. /\ online'[fd] = FALSE /\ joined' = joined
      /\ status' \in CASE joined[fd] = <<>>     -> {"running"}
                       [] joined[fd] = <<Wild>> -> {"crashed", "corrupt"}
                       [] OTHER                 -> {"crashed"}
    BY DEF Tables!Logout, TablesInv, Tables!TypeOK, Slots
<1>2. joined[fd] = <<>>
    BY <1>1
<1> QED
    BY <1>1, <1>2

LEMMA JoinLists ==
    ASSUME TablesInv, NEW fd \in Slots, NEW r \in Rooms, Tables!JoinRoom(fd, r)
    PROVE  (Tables!Holds(fd, r) /\ Tables!Listed(fd, r))'
<1> USE DEF TablesInv, Tables!TypeOK, Slots
<1>1. /\ members' = [members EXCEPT ![r] = Tables!AddUserToRoom(@, fd)]
      /\ joined' = [joined EXCEPT ![fd] = <<r>> \o @]
    BY DEF Tables!JoinRoom, Tables!FindRoom
<1>2. joined'[fd] = <<r>> \o joined[fd] /\ joined[fd] \in Seq(Rooms \cup {Wild})
    BY <1>1
<1>3. 1 \in DOMAIN joined'[fd] /\ joined'[fd][1] = r
    BY <1>2
<1> DEFINE rest == IF members[r] = <<>> THEN <<>> ELSE Tail(members[r])
<1>4. members[r] \in Seq(Slots) /\ rest \in Seq(Slots)
    BY HeadTailProperties
<1>5. members'[r] = <<fd>> \o rest
    BY <1>1 DEF Tables!AddUserToRoom
<1> HIDE DEF rest
<1>6. 1 \in DOMAIN members'[r] /\ members'[r][1] = fd
    BY <1>4, <1>5
<1> QED
    BY <1>3, <1>6 DEF Tables!Holds, Tables!Listed, Tables!ToSet

LEMMA MessageAnswered ==
    ASSUME TablesInv, UsersType, NEW fd \in Fds, fd = current, pc = "read",
           UNCHANGED <<pc, current>>,
           NEW m \in Requests, NEW n, NEW cut \in BOOLEAN, NEW p \in Parsed(m, n, cut),
           ProcessMessage(fd, p)
    PROVE  RepliesAreTrue'
<1>1. CASE HandleJoin(fd, p.data)
    <2>1. PICK result \in {"JOIN_SUCCESS", "JOIN_FAILED"} : sent' = Reply(NoFd, result)
        BY <1>1 DEF HandleJoin, JoinResults
    <2> QED
        BY <2>1, ReplyIsTrue
<1>2. CASE HandleLogin(fd, p.data)
    <2>1. CASE Tables!Login(fd, p.data.password) /\ sent' = Reply(fd, "LOGIN_SUCCESS")
        <3>1. fd \in Slots => online'[fd]
            BY <2>1 DEF Tables!Login, TablesInv, Tables!TypeOK, Slots
        <3> QED
            BY <2>1, <3>1, ReplyIsTrue DEF Slots
    <2>2. CASE sent' = Reply(fd, "LOGIN_FAILED")
        BY <2>2, ReplyIsTrue
    <2> QED
        BY <1>2, <2>1, <2>2 DEF HandleLogin
<1>3. CASE HandleLogout(fd)
    <2>1. CASE status' = "running"
        BY <1>3, <2>1, LogoutEnds, ReplyIsTrue DEF HandleLogout, Slots
    <2>2. CASE status' # "running"
        BY <1>3, <2>2, Silence DEF HandleLogout
    <2> QED
        BY <2>1, <2>2
<1>4. CASE HandleJoinRoom(fd, p.data)
    <2>1. CASE p.data \in Rooms
        <3>1. sent' = Reply(fd, "JOIN_ROOM_SUCCESS") /\ Tables!JoinRoom(fd, p.data)
            BY <1>4, <2>1 DEF HandleJoinRoom, Tables!JoinSucceeds, Tables!FindRoom
        <3> QED
            BY <2>1, <3>1, JoinLists, ReplyIsTrue DEF Slots
    <2>2. CASE p.data \notin Rooms
        <3>1. sent' = Reply(fd, "JOIN_ROOM_FAILED")
            BY <1>4, <2>2 DEF HandleJoinRoom, Tables!JoinSucceeds, Tables!FindRoom
        <3> QED
            BY <3>1, ReplyIsTrue
    <2> QED
        BY <2>1, <2>2
<1>5. CASE HandleLeaveRoom(fd, p.data)
    <2>1. PICK type \in {"LEAVE_ROOM_SUCCESS", "LEAVE_ROOM_FAILED"} : sent' = Reply(fd, type)
        BY <1>5 DEF HandleLeaveRoom
    <2> QED
        BY <2>1, ReplyIsTrue
<1>6. CASE HandleListRooms(fd)
    <2>1. \A i \in DOMAIN sent' : sent'[i] = [to |-> fd, type |-> "LIST_ROOMS_SUCCESS"]
        BY <1>6 DEF HandleListRooms
    <2>2. \A f, kind : Told(f, kind)' => kind = "LIST_ROOMS_SUCCESS"
        BY <2>1 DEF Told
    <2> QED
        BY <2>1, <2>2 DEF RepliesAreTrue
<1>7. CASE HandleEcho(fd)
    BY <1>7, Silence, ReplyIsTrue DEF HandleEcho
<1>8. CASE HandleOther \/ HandleUnknownType
    BY <1>8, Silence DEF HandleOther, HandleUnknownType
<1> QED
    BY <1>1, <1>2, <1>3, <1>4, <1>5, <1>6, <1>7, <1>8 DEF ProcessMessage

LEMMA NextReplies ==
    ASSUME IInv, RepliesAreTrue, [Next]_vars
    PROVE  RepliesAreTrue'
<1> USE DEF IInv
<1>1. CASE UNCHANGED <<tables, pc, current, sent>>
    BY <1>1 DEF tables, RepliesAreTrue, Running, Told, Tables!Slots, Tables!Holds,
        Tables!Listed, Tables!ToSet
<1>2. CASE sent' = <<>>
    BY <1>2, Silence
<1>3. CASE Clients
    BY <1>1, <1>3 DEF Clients, Connect, Write, CloseClient, ResetClient, ClientStep
<1>4. CASE (ListenerStep /\ ~ReadPacket) \/ Restart
    BY <1>2, <1>4 DEF ListenerStep, Restart, EpollWait, BatchDone, CloseOnError, StartAccept,
        Accept, AcceptFails, StartRead, ReadAgain, ReadEof, ReadError, Crash
<1>5. CASE ReadPacket
    <2>1. PICK n \in 1 .. MaxPerRead, cut \in {FALSE, SplitReads} :
            n <= Len(stream[current]) /\ ProcessPacket(current, n, cut)
        BY <1>5 DEF ReadPacket
    <2>2. /\ current \in Fds /\ cut \in BOOLEAN /\ pc = "read"
          /\ UNCHANGED <<pc, current>>
        BY <1>5, DaemonAssumption DEF ReadPacket, LoopType, Open
    <2>3. Head(stream[current]) \in Requests \cup {Fragment}
        BY <2>1, <2>2, HeadTailProperties, DaemonAssumption DEF SocketsType
    <2>4. CASE HandleOther \/ Crash \/ \E p : Overrun(p)
        BY <1>2, <2>4 DEF HandleOther, Crash, Overrun
    <2>5. ASSUME Head(stream[current]) # Fragment,
                 NEW p \in Parsed(Head(stream[current]), n, cut), ProcessMessage(current, p)
          PROVE  RepliesAreTrue'
        BY <2>2, <2>3, <2>5, MessageAnswered
    <2> QED
        BY <2>1, <2>4, <2>5 DEF ProcessPacket
<1> QED
    BY <1>1, <1>3, <1>4, <1>5 DEF Next, vars

(* A reply goes to the connection that was read, and what it says is so.   *)
THEOREM RepliesTheorem == Spec => []RepliesAreTrue
<1>1. Init => RepliesAreTrue
    BY DEF Init, FreshSockets, RepliesAreTrue, Told
<1>2. IInv /\ RepliesAreTrue /\ [Next]_vars => RepliesAreTrue'
    BY NextReplies
<1> QED
    BY <1>1, <1>2, Invariance, PTL DEF Spec

-----------------------------------------------------------------------------
(* What the process dies of.                                               *)
LEMMA LogoutDeath ==
    ASSUME TablesInv, NEW fd \in Fds, Tables!Logout(fd), status' # "running"
    PROVE  fd \notin Slots \/ joined[fd] # <<>>
<1> SUFFICES ASSUME fd \in Slots, joined[fd] = <<>>
             PROVE  FALSE
    OBVIOUS
<1>1. status' \in CASE joined[fd] = <<>>     -> {"running"}
                    [] joined[fd] = <<Wild>> -> {"crashed", "corrupt"}
                    [] OTHER                 -> {"crashed"}
    BY DEF Tables!Logout, Slots
<1> QED
    BY <1>1

LEMMA HandlerDeath ==
    ASSUME TablesInv, NEW fd \in Fds, Running, status' # "running",
           NEW m \in Requests, NEW n, NEW cut \in BOOLEAN, NEW p \in Parsed(m, n, cut),
           ProcessMessage(fd, p)
    PROVE  \/ fd \notin Slots
           \/ Tables!Logout(fd) /\ joined[fd] # <<>>
           \/ Tables!Holds(fd, Wild)
           \/ m.type \in {"ECHO", "UNKNOWN_TYPE"}
<1> USE DEF Running
<1>1. CASE HandleJoin(fd, p.data) \/ HandleListRooms(fd) \/ HandleOther
    BY <1>1 DEF HandleJoin, HandleListRooms, HandleOther, tables
<1>2. CASE HandleLogin(fd, p.data)
    BY <1>2 DEF HandleLogin, Tables!Login, Tables!vars, tables
<1>3. CASE HandleLogout(fd)
    BY <1>3, LogoutDeath DEF HandleLogout
<1>4. CASE HandleJoinRoom(fd, p.data)
    BY <1>4 DEF HandleJoinRoom, Tables!JoinRoom, Tables!vars, Slots
<1>5. CASE HandleLeaveRoom(fd, p.data)
    BY <1>5 DEF HandleLeaveRoom, Tables!LeaveRoom, Tables!vars, Slots
<1>6. CASE p.type \in {"ECHO", "UNKNOWN_TYPE"}
    BY <1>6, ParsedRequest
<1> QED
    BY <1>1, <1>2, <1>3, <1>4, <1>5, <1>6 DEF ProcessMessage

LEMMA NextDeath ==
    ASSUME IInv, Next, Running, status' # "running"
    PROVE  /\ pc = "read"
           /\ \/ current \notin Slots
              \/ Tables!Logout(current) /\ joined[current] # <<>>
              \/ Tables!Holds(current, Wild)
              \/ stream[current] = <<>> /\ peer[current] = "rst"
              \/ /\ stream[current] # <<>>
                 /\ \/ Head(stream[current]).type \in {"ECHO", "UNKNOWN_TYPE"}
                    \/ TooLong(Head(stream[current]))
              \/ TornRead
<1> USE DEF IInv, Running
<1>1. CASE ReadEof
    BY <1>1, LogoutDeath DEF ReadEof, LoopType, Open
<1>2. CASE ReadError
    BY <1>2 DEF ReadError
<1>3. CASE ReadPacket
    <2>1. PICK n \in 1 .. MaxPerRead, cut \in {FALSE, SplitReads} :
            /\ n <= Len(stream[current]) /\ ProcessPacket(current, n, cut)
            /\ stream' = [stream EXCEPT ![current] =
                            IF cut THEN <<Fragment>> \o SubSeq(@, n + 1, Len(@))
                                   ELSE SubSeq(@, n + 1, Len(@))]
        BY <1>3 DEF ReadPacket
    <2>2. current \in Fds /\ cut \in BOOLEAN /\ pc = "read" /\ n \in Nat \ {0}
        <3>1. pc = "read" /\ current \in Fds
            BY <1>3 DEF ReadPacket, LoopType, Open
        <3>2. cut \in BOOLEAN
            BY DaemonAssumption
        <3>3. n \in Nat \ {0}
            BY DaemonAssumption
        <3> QED
            BY <3>1, <3>2, <3>3
    <2> DEFINE m == Head(stream[current])
    <2>3. stream[current] # <<>> /\ m \in Requests \cup {Fragment}
        BY <2>1, <2>2, HeadTailProperties, DaemonAssumption DEF SocketsType
    <2>4. CASE m = Fragment \/ cut
        BY <2>1, <2>2, <2>4, Torn
    <2>5. ASSUME m # Fragment, NEW p \in Parsed(m, n, cut), ProcessMessage(current, p)
          PROVE  \/ current \notin Slots
                 \/ Tables!Logout(current) /\ joined[current] # <<>>
                 \/ Tables!Holds(current, Wild)
                 \/ m.type \in {"ECHO", "UNKNOWN_TYPE"}
        BY <2>2, <2>3, <2>5, HandlerDeath
    <2>6. ASSUME m # Fragment, n > 1, NEW p \in Parsed(m, n, cut), Overrun(p)
          PROVE  TornRead
        <3>1. m.type \in {"JOIN", "LOGIN"}
            BY <2>2, <2>3, <2>6, ParsedRequest DEF Overrun, NamesUser
        <3> QED
            BY <2>1, <2>2, <2>6, <3>1, Torn
    <2> HIDE DEF m
    <2> QED
        BY <2>1, <2>2, <2>3, <2>4, <2>5, <2>6 DEF ProcessPacket, m
<1>4. CASE Quiet \/ Tables!Restart
    BY <1>4 DEF Quiet, tables, Tables!Restart
<1> QED
    BY <1>1, <1>2, <1>3, <1>4, TablesStep

(* Every step in which the server stops running is one of the known.       *)
THEOREM DeathTheorem == Spec => KnownCausesOfDeath
<1>1. IInv /\ [Next]_vars =>
        [Running /\ ~Running' =>
            /\ pc = "read"
            /\ \/ current \notin Tables!Slots
               \/ Tables!Logout(current) /\ joined[current] # <<>>
               \/ Tables!Holds(current, Wild)
               \/ stream[current] = <<>> /\ peer[current] = "rst"
               \/ /\ stream[current] # <<>>
                 /\ \/ Head(stream[current]).type \in {"ECHO", "UNKNOWN_TYPE"}
                    \/ TooLong(Head(stream[current]))
               \/ TornRead]_vars
    BY NextDeath DEF Running, Slots
<1> QED
    BY <1>1, Invariance, PTL DEF Spec, KnownCausesOfDeath
=============================================================================
