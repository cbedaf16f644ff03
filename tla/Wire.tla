---------------------------------- MODULE Wire ----------------------------------
(***************************************************************************)
(* One direction of a connection, byte by byte: message_t.get_packet and   *)
(* packet_send at one end; the read into a fixed buffer, packet_t,         *)
(* message_create_from_packet and get_username_password at the other.      *)
(*                                                                         *)
(* A byte in the stream remembers the message it comes from, its place in  *)
(* it and the write that took it; the code sees its value only.  A         *)
(* client's socket is blocking, so its requests are written whole; a       *)
(* server's is not, and packet_send ignores how much of a reply write()    *)
(* took.                                                                   *)
(***************************************************************************)
EXTENDS Parsing, Integers, SequencesExt

CONSTANTS
    N,          \* MAX_PACKET_SIZE and the size of both receive buffers: 1024
    Requests,   \* messages a client sends, as in module Daemon
    Replies,    \* messages a server sends
    Text,       \* the bytes of each name, password and room
    MaxUsernameSize,    \* of either array of a user_t: 10
    NULL,
    MaxWrites   \* bound: writes that take something

Junk == 255     \* an uninitialized byte that is not NUL

(* Names are printable, and two names are two strings.                     *)
ASSUME WireAssumption ==
    /\ N \in Nat /\ N > 3
    /\ MaxUsernameSize \in Nat
    /\ UserNames \cup Passwords \cup RoomNames \subseteq DOMAIN Text
    /\ \A x \in DOMAIN Text : Text[x] \in Seq(33 .. 254) /\ Text[x] # <<>>
    /\ \A x, y \in DOMAIN Text : Text[x] = Text[y] => x = y
    /\ Long = {x \in DOMAIN Text : Len(Text[x]) >= MaxUsernameSize}
    /\ MaxWrites \in Nat

VARIABLES
    side,    \* "request" or "reply": which direction this is
    stream,  \* bytes written and not yet read,
             \* [of |-> message, at |-> place, nr |-> number of the write]
    buf,     \* the receive buffer
    got,     \* the message made of the last read, [type, data], or NULL
    user,    \* the user_t of the last handler, as it lies on the stack
    writes

vars == <<side, stream, buf, got, user, writes>>

Messages == IF side = "request" THEN Requests ELSE Replies

MutVersion == 1 \* mutant: the number, not the character
Version == 49   \* '1'

Types ==
    <<"INIT", "JOIN", "LOGIN", "LOGOUT", "JOIN_ROOM", "LEAVE_ROOM", "MESSAGE",
      "LIST_ROOMS", "LIST_USERS", "CREATE_ROOM", "DELETE_ROOM", "JOIN_SUCCESS",
      "JOIN_FAILED", "LOGIN_SUCCESS", "LOGIN_FAILED", "LOGOUT_SUCCESS",
      "JOIN_ROOM_SUCCESS", "JOIN_ROOM_FAILED", "LEAVE_ROOM_SUCCESS",
      "LEAVE_ROOM_FAILED", "LIST_ROOMS_SUCCESS", "LIST_USERS_SUCCESS",
      "LIST_ROOMS_FAILED", "LIST_USERS_FAILED", "CREATE_ROOM_SUCCESS",
      "CREATE_ROOM_FAILED", "DELETE_ROOM_SUCCESS", "DELETE_ROOM_FAILED",
      "ECHO", "UNKNOWN_TYPE">>

Code(type) == (CHOOSE i \in DOMAIN Types : Types[i] = type) - 1
Unhandled == {"INIT", "UNKNOWN_TYPE"}   \* what process_message leaves to its default
TypeOf(byte) == IF byte < Len(Types) THEN Types[byte + 1] ELSE "UNKNOWN_TYPE"

(* get_packet: the size counts the data up to its NUL.                     *)
Data(m) ==
    IF NamesUser(m) THEN Text[m.data.name] \o <<32>> \o Text[m.data.password]
    ELSE IF m.data \in DOMAIN Text THEN Text[m.data] ELSE <<>>
Packet(m) == <<Version, Code(m.type)>> \o Data(m)

Byte(b) == Packet(b.of)[b.at]

(* What the programs send: the data that no handler looks at are left out, *)
(* and the limits of the client's input leave two bytes of the buffer free.*)
UserMessages ==
    [type : {"JOIN", "LOGIN"}, data : [name : UserNames, password : Passwords]]
RoomMessages ==
    [type : {"JOIN_ROOM", "LEAVE_ROOM", "JOIN_ROOM_SUCCESS", "LEAVE_ROOM_SUCCESS"},
     data : RoomNames]
PlainMessages == {m \in [type : ToSet(Types) \ {"UNKNOWN_TYPE"}, data : {Mangled}] :
                    ~NamesUser(m) /\ ~NamesRoom(m)}

ASSUME MessageAssumption ==
    /\ Requests \subseteq UserMessages \cup RoomMessages \cup PlainMessages
    /\ Replies \subseteq RoomMessages \cup PlainMessages
    /\ \A m \in Requests \cup Replies : Len(Packet(m)) <= N - 2
    /\ NULL \notin [type : ToSet(Types), data : [1 .. N - 2 -> 0 .. 255]]

Init ==
    /\ side \in {"request", "reply"}
    /\ stream = <<>>
    /\ buf = [i \in 1 .. N |-> 0]
    /\ got = NULL
    /\ user = [name |-> <<Junk>>, password |-> <<Junk>>]
    /\ writes = 0

-----------------------------------------------------------------------------
(* packet_send: write() takes the first k bytes, or fails and takes none.  *)
PacketSend(m, k) ==
    /\ writes < MaxWrites
    /\ writes' = writes + (IF k > 0 THEN 1 ELSE 0)
    /\ stream' = stream \o [i \in 1 .. k |-> [of |-> m, at |-> i, nr |-> writes']]
    /\ UNCHANGED <<side, buf, got, user>>

Send ==
    \E m \in Messages : \E k \in 0 .. Len(Packet(m)) :
        /\ side = "request" => k = Len(Packet(m))
        /\ PacketSend(m, k)

(* Mutants: the buffer is not cleared in each turn; the payload is copied  *)
(* without regard to its NUL, and what follows is left uninitialized; the  *)
(* payload's data are taken from behind the type's place.                  *)
MutFill(bytes) == [i \in 1 .. N |-> IF i <= Len(bytes) THEN bytes[i] ELSE buf[i]]
MutSetPayload(last) ==
    [i \in 1 .. N |-> IF buf'[i] # 0 THEN buf'[i] ELSE last]
MutParsePacket(payload) ==
    [type |-> TypeOf(payload[2]), data |-> SubSeq(payload, 4, N)]

(* The buffer, cleared in each turn of the loop, with what read() returned.*)
Fill(bytes) == [i \in 1 .. N |-> IF i <= Len(bytes) THEN bytes[i] ELSE 0]

(* set_payload: strncpy stops at a NUL, fills the rest with NULs, and      *)
(* leaves the last byte as malloc returned it.                             *)
SetPayload(last) ==
    [i \in 1 .. N |->
        IF i = N THEN last
        ELSE IF \E j \in 1 .. i : buf'[j] = 0 THEN 0 ELSE buf'[i]]

ParsePacket(payload) ==
    [type |-> TypeOf(payload[2]), data |-> SubSeq(payload, 3, N)]

(* A string as the C library sees it; without a NUL it goes on behind.     *)
Before(s, set) ==
    LET ends == {i \in DOMAIN s : s[i] \in set}
    IN  IF ends = {} THEN s ELSE SubSeq(s, 1, Min(ends) - 1)
CString(s) == IF 0 \in ToSet(s) THEN Before(s, {0}) ELSE Append(s, Junk)

(* What "%s" matches: white space is skipped, the word ends before more.   *)
Space == {9, 10, 11, 12, 13, 32}
Skip(s) == SubSeq(s, Len(Before(s, (1 .. 255) \ Space)) + 1, Len(s))
Word(s) == Before(s, Space)

(* A user_t into which sscanf writes the words it found, each whole and    *)
(* the name first: user.password lies behind user.username.  What is       *)
(* written behind both is left out here.                                   *)
InUser(name, password, old) ==
    LET size == MaxUsernameSize
        second == IF password # <<>> THEN password
                  ELSE IF Len(name) >= size THEN SubSeq(name, size + 1, Len(name))
                  ELSE old.password
        first == IF name = <<>> THEN old.name
                 ELSE IF Len(name) >= size THEN SubSeq(name, 1, size) \o second
                 ELSE name
    IN  [name |-> first, password |-> second]

(* get_username_password, into a structure that nobody initializes.        *)
GetUsernamePassword(data) ==
    LET text == Skip(CString(data))
        name == Word(text)
        password == Word(Skip(SubSeq(text, Len(name) + 1, Len(text))))
    IN  \E old \in [name : {user.name, <<Junk>>}, password : {user.password, <<Junk>>}] :
            user' = InUser(name, password, old)

(* One read() or recv() that returns k bytes, and what is made of them.    *)
Receive(k) ==
    /\ k <= Len(stream)
    /\ stream' = SubSeq(stream, k + 1, Len(stream))
    /\ buf' = Fill([i \in 1 .. k |-> Byte(stream[i])])
    /\ IF k < 2 THEN got' = NULL
       ELSE \E last \in {0, Junk} : got' = ParsePacket(SetPayload(last))
    /\ IF side = "request" /\ got' # NULL /\ NamesUser(got')
       THEN GetUsernamePassword(got'.data)
       ELSE UNCHANGED user
    /\ UNCHANGED <<side, writes>>

Next == Send \/ \E k \in 1 .. N : Receive(k)

Spec == Init /\ [][Next]_vars

-----------------------------------------------------------------------------
(* Type invariant.                                                         *)
TypeOK ==
    /\ side \in {"request", "reply"}
    /\ stream \in Seq([of : Messages, at : 1 .. N, nr : 1 .. MaxWrites])
    /\ buf \in [1 .. N -> 0 .. 255]
    /\ got = NULL \/ (/\ got.type \in ToSet(Types)
                      /\ got.data \in [1 .. N - 2 -> 0 .. 255])
    /\ user.name \in Seq(1 .. 255) /\ user.password \in Seq(1 .. 255)
    /\ writes \in 0 .. MaxWrites

IsRead == Len(stream') < Len(stream)

(* The data a handler gets end where the read ended, with a NUL: nothing   *)
(* of an earlier packet, and no byte that nobody wrote, is taken for data, *)
(* unless the read filled the buffer but for one byte.                     *)
DataEndsWithRead ==
    [][IsRead /\ got' # NULL =>
          LET k == Len(stream) - Len(stream')
          IN  k >= N - 1 \/ Len(CString(got'.data)) <= k - 2]_vars

(* A read that begins inside a packet never reaches a handler: neither the *)
(* characters of a name nor the version of the packet behind them is the   *)
(* number of a type.                                                       *)
TornPacketsReachNobody ==
    [][IsRead /\ stream[1].at > 1 =>
          got' = NULL \/ got'.type \in Unhandled]_vars

-----------------------------------------------------------------------------
(* Refinement: the bytes of one write as a message of the queue, whole or  *)
(* not, and the bytes in the fields as names again.                        *)
Part(s, w) == {b \in ToSet(s) : b.nr = s[1].nr + w - 1}

Queue(s) ==
    IF s = <<>> THEN <<>>
    ELSE [w \in 1 .. Last(s).nr - s[1].nr + 1 |->
            [of |-> (CHOOSE b \in Part(s, w) : TRUE).of,
             head |-> \E b \in Part(s, w) : b.at = 1,
             tail |-> \E b \in Part(s, w) : b.at = Len(Packet(b.of))]]

Name(bytes, known) ==
    IF \E x \in known : Text[x] = bytes THEN CHOOSE x \in known : Text[x] = bytes
    ELSE Mangled

Fragment == [type |-> "INIT", data |-> Mangled]

Taken ==
    IF got = NULL THEN NULL
    ELSE IF got.type \in Unhandled THEN Fragment
    ELSE [type |-> got.type,
          data |-> IF NamesUser(got)
                   THEN [name |-> Name(user.name, UserNames),
                         password |-> Name(user.password, Passwords)]
                   ELSE IF NamesRoom(got) THEN Name(CString(got.data), RoomNames)
                   ELSE Mangled]

FramingSpec == INSTANCE Framing WITH
    Messages <- Requests \cup Replies, Shortable <- Replies,
    queue <- Queue(stream), got <- Taken

(* Every read makes of the bytes what Parsing says: what modules Daemon    *)
(* and Client assume of a coalesced, cut or short packet is all there is.  *)
ImplementsFraming == FramingSpec!Spec
=============================================================================
