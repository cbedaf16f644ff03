------------------------------ MODULE Wire_proofs ------------------------------
(***************************************************************************)
(* For every buffer, every size of the arrays of user_t, every set of      *)
(* messages that fit and all names that are printable, not empty and       *)
(* distinct: what a read is taken for has the types of a message, its data *)
(* end where the read ended, and a read that begins inside a packet        *)
(* reaches no handler; and every read of the bytes is a read that module   *)
(* Framing allows.                                                         *)
(***************************************************************************)
EXTENDS Wire, SequenceTheorems, FiniteSetTheorems, TLAPS

Sent == Requests \cup Replies
Bytes == [of : Sent, at : 1 .. N, nr : 1 .. MaxWrites]

(* write() takes a packet's first bytes, so behind a byte of the stream    *)
(* comes the next of its packet, or a new packet.                          *)
Numbered(s) ==
    /\ s \in Seq(Bytes)
    /\ \A i \in 1 .. Len(s) : s[i].at \in 1 .. Len(Packet(s[i].of))
    /\ \A i, j \in 1 .. Len(s) : i < j =>
          /\ s[i].nr <= s[j].nr
          /\ s[i].nr = s[j].nr => s[i].of = s[j].of /\ s[j].at = s[i].at + (j - i)
    /\ \A i \in 1 .. Len(s) - 1 :
          \/ s[i + 1].nr = s[i].nr
          \/ s[i + 1].nr = s[i].nr + 1 /\ s[i + 1].at = 1

(* Every packet that has an end here has it whole.                         *)
Whole(s) ==
    \A i \in 1 .. Len(s) :
        i = Len(s) \/ s[i + 1].nr # s[i].nr => s[i].at = Len(Packet(s[i].of))

StreamInv ==
    /\ Numbered(stream)
    /\ Len(stream) > 0 => stream[Len(stream)].nr = writes
    /\ side = "request" => Whole(stream)

IInv == TypeOK /\ StreamInv

-----------------------------------------------------------------------------
(* Strings.                                                                *)
LEMMA MinOf ==
    ASSUME NEW T, T \subseteq Nat, T # {}
    PROVE  Min(T) \in T /\ \A y \in T : Min(T) <= y
<1> DEFINE R == StrictSubsetOrdering(Nat)
           U == {0 .. x : x \in T}
<1>1. IsWellFoundedOn(R, FiniteSubsetsOf(Nat))
    BY FS_StrictSubsetOrderingWellFounded
<1>2. U \subseteq FiniteSubsetsOf(Nat) /\ U # {}
    <2>1. \A x \in Nat : IsFiniteSet(0 .. x) /\ 0 .. x \subseteq Nat
        BY FS_Interval
    <2> QED
        BY <2>1 DEF FiniteSubsetsOf
<1>3. \A x, y \in Nat : x < y => <<0 .. x, 0 .. y>> \in R
    <2> SUFFICES ASSUME NEW x \in Nat, NEW y \in Nat, x < y
                 PROVE  <<0 .. x, 0 .. y>> \in R
        OBVIOUS
    <2>1. 0 .. x \subseteq 0 .. y /\ 0 .. x \subseteq Nat /\ 0 .. y \subseteq Nat
        OBVIOUS
    <2>2. y \in 0 .. y /\ y \notin 0 .. x
        OBVIOUS
    <2> QED
        BY <2>1, <2>2 DEF StrictSubsetOrdering
<1> HIDE DEF R
<1>4. PICK u \in U : \A v \in U : ~(<<v, u>> \in R)
    BY <1>1, <1>2, WFMin
<1>5. PICK x \in T : u = 0 .. x
    OBVIOUS
<1>6. ASSUME NEW y \in T
      PROVE  x <= y
    <2>1. x \in Nat /\ y \in Nat /\ 0 .. y \in U
        OBVIOUS
    <2>2. ~(<<0 .. y, 0 .. x>> \in R)
        BY <1>4, <1>5, <2>1
    <2>3. ~(y < x)
        BY <1>3, <2>1, <2>2
    <2> QED
        BY <2>1, <2>3
<1> QED
    BY <1>6 DEF Min

(* What is in front of the first byte of a set.                            *)
LEMMA BeforeFirst ==
    ASSUME NEW S, NEW s \in Seq(S), NEW set
    PROVE  \E n \in 0 .. Len(s) :
              /\ Before(s, set) = SubSeq(s, 1, n) /\ Len(Before(s, set)) = n
              /\ \A i \in 1 .. n : s[i] \notin set
              /\ n < Len(s) => s[n + 1] \in set
<1> DEFINE ends == {i \in DOMAIN s : s[i] \in set}
<1>1. Len(s) \in Nat /\ DOMAIN s = 1 .. Len(s)
    OBVIOUS
<1>2. ends \subseteq Nat /\ ends = {i \in 1 .. Len(s) : s[i] \in set}
    BY <1>1
<1>3. ends = {} => Before(s, set) = s
    BY DEF Before
<1>4. ends # {} => Before(s, set) = SubSeq(s, 1, Min(ends) - 1)
    BY DEF Before
<1> HIDE DEF ends
<1>5. CASE ends = {}
    <2>1. Before(s, set) = SubSeq(s, 1, Len(s)) /\ Len(Before(s, set)) = Len(s)
        BY <1>3, <1>5
    <2>2. \A i \in 1 .. Len(s) : s[i] \notin set
        BY <1>2, <1>5
    <2>3. Len(s) \in 0 .. Len(s) /\ ~(Len(s) < Len(s))
        BY <1>1
    <2> QED
        BY <2>1, <2>2, <2>3
<1>6. CASE ends # {}
    <2>1. PICK m \in ends : m = Min(ends) /\ \A j \in ends : m <= j
        BY <1>2, <1>6, MinOf
    <2>2. m \in 1 .. Len(s) /\ s[m] \in set
        BY <1>2
    <2>3. m - 1 \in 0 .. Len(s) /\ (m - 1) + 1 = m
        BY <1>1, <2>2
    <2>4. Before(s, set) = SubSeq(s, 1, m - 1)
        BY <1>4, <1>6, <2>1
    <2>5. Len(SubSeq(s, 1, m - 1)) = m - 1
        BY <1>1, <2>2
    <2>6. ASSUME NEW i \in 1 .. m - 1
          PROVE  s[i] \notin set
        <3>1. i \in 1 .. Len(s) /\ ~(m <= i)
            BY <1>1, <2>2
        <3> QED
            BY <1>2, <2>1, <3>1
    <2> QED
        BY <2>2, <2>3, <2>4, <2>5, <2>6
<1> QED
    BY <1>5, <1>6

LEMMA SeqOfWider ==
    ASSUME NEW S, NEW T, NEW s \in Seq(S), \A i \in 1 .. Len(s) : s[i] \in T
    PROVE  s \in Seq(T)
<1>1. Len(s) \in Nat /\ DOMAIN s = 1 .. Len(s)
    OBVIOUS
<1> QED
    BY <1>1, SeqDef

LEMMA PartOfSeq ==
    ASSUME NEW S, NEW s \in Seq(S), NEW i \in Nat \ {0}, NEW j \in 0 .. Len(s)
    PROVE  SubSeq(s, i, j) \in Seq(S)
<1>1. \A k \in i .. j : s[k] \in S
    OBVIOUS
<1> QED
    BY <1>1, SubSeqProperties

LEMMA CStringType ==
    ASSUME NEW s \in Seq(0 .. 255)
    PROVE  /\ CString(s) \in Seq(1 .. 255)
           /\ \A j \in 1 .. Len(s) : s[j] = 0 => Len(CString(s)) < j
<1>1. Len(s) \in Nat /\ DOMAIN s = 1 .. Len(s) /\ \A i \in 1 .. Len(s) : s[i] \in 0 .. 255
    BY ElementOfSeq
<1>2. CASE 0 \notin ToSet(s)
    <2>1. ASSUME NEW i \in 1 .. Len(s)
          PROVE  s[i] \in 1 .. 255 /\ s[i] # 0
        <3>1. s[i] \in ToSet(s)
            BY <1>1 DEF ToSet
        <3>2. s[i] # 0 /\ s[i] \in 0 .. 255
            BY <1>1, <1>2, <3>1
        <3> QED
            BY <3>2
    <2>2. s \in Seq(1 .. 255)
        BY <1>1, <2>1, SeqDef
    <2>3. Append(s, Junk) \in Seq(1 .. 255)
        BY <2>2 DEF Junk
    <2>4. CString(s) \in Seq(1 .. 255)
        BY <1>2, <2>3 DEF CString
    <2> QED
        BY <2>1, <2>4
<1>3. CASE 0 \in ToSet(s)
    <2>1. PICK n \in 0 .. Len(s) :
              /\ CString(s) = SubSeq(s, 1, n) /\ Len(CString(s)) = n
              /\ \A i \in 1 .. n : s[i] \notin {0}
        BY <1>3, BeforeFirst DEF CString
    <2>2. \A i \in 1 .. n : s[i] \in 1 .. 255
        BY <1>1, <2>1
    <2>3. SubSeq(s, 1, n) \in Seq(1 .. 255)
        BY <1>1, <2>2
    <2>4. ASSUME NEW j \in 1 .. Len(s), s[j] = 0
          PROVE  n < j
        BY <1>1, <2>1, <2>4
    <2> QED
        BY <2>1, <2>3, <2>4
<1> QED
    BY <1>2, <1>3

LEMMA WordType ==
    ASSUME NEW S, NEW s \in Seq(S)
    PROVE  Skip(s) \in Seq(S) /\ Word(s) \in Seq(S) /\ Len(Word(s)) \in 0 .. Len(s)
<1>1. \A set : Before(s, set) \in Seq(S) /\ Len(Before(s, set)) \in 0 .. Len(s)
    <2> SUFFICES ASSUME NEW set
                 PROVE  Before(s, set) \in Seq(S) /\ Len(Before(s, set)) \in 0 .. Len(s)
        OBVIOUS
    <2>1. PICK n \in 0 .. Len(s) : Before(s, set) = SubSeq(s, 1, n) /\ Len(Before(s, set)) = n
        BY BeforeFirst
    <2> QED
        BY <2>1, PartOfSeq
<1>2. Len(s) \in Nat
    OBVIOUS
<1> QED
    BY <1>1, <1>2, PartOfSeq DEF Skip, Word

-----------------------------------------------------------------------------
(* Packets.                                                                *)
LEMMA TypesOfPackets ==
    /\ Len(Types) = 30 /\ DOMAIN Types = 1 .. 30
    /\ Types[1] = "INIT" /\ Types[30] = "UNKNOWN_TYPE"
<1>1. Len(Types) = 30
    BY DEF Types
<1>2. DOMAIN Types = 1 .. 30
    BY DEF Types
<1>3. Types[1] = "INIT"
    BY DEF Types
<1>4. Types[30] = "UNKNOWN_TYPE"
    BY DEF Types
<1> QED
    BY <1>1, <1>2, <1>3, <1>4

LEMMA TypeOfAny ==
    ASSUME NEW byte \in 0 .. 255
    PROVE  /\ TypeOf(byte) \in ToSet(Types)
           /\ byte = 0 \/ byte >= 30 => TypeOf(byte) \in Unhandled
<1> DEFINE unknown == "UNKNOWN_TYPE"
<1>1. unknown \in ToSet(Types) /\ Types[0 + 1] = "INIT"
    BY TypesOfPackets DEF ToSet
<1>2. CASE byte < 30
    <2>1. TypeOf(byte) = Types[byte + 1] /\ byte + 1 \in DOMAIN Types
        BY <1>2, TypesOfPackets DEF TypeOf
    <2>2. TypeOf(byte) \in ToSet(Types)
        BY <2>1 DEF ToSet
    <2> QED
        BY <1>1, <1>2, <2>1, <2>2 DEF Unhandled
<1>3. CASE ~(byte < 30)
    <2>1. TypeOf(byte) = unknown
        BY <1>3, TypesOfPackets DEF TypeOf
    <2> QED
        BY <1>1, <1>3, <2>1 DEF Unhandled
<1> QED
    BY <1>2, <1>3

LEMMA Shapes ==
    ASSUME NEW m \in Sent
    PROVE  /\ m.type \in ToSet(Types) /\ m.type # "UNKNOWN_TYPE"
           /\ Len(Packet(m)) <= N - 2
           /\ m \in UserMessages \/ m \in RoomMessages \/ m \in PlainMessages
           /\ m \in Replies => m \notin UserMessages
           /\ NamesUser(m) <=> m \in UserMessages
           /\ NamesRoom(m) <=> m \in RoomMessages
<1>1. m \in UserMessages \/ m \in RoomMessages \/ m \in PlainMessages
    BY MessageAssumption DEF Sent
<1>2. /\ NamesUser(m) <=> m \in UserMessages
      /\ NamesRoom(m) <=> m \in RoomMessages
    BY <1>1 DEF NamesUser, NamesRoom, UserMessages, RoomMessages, PlainMessages
<1>3. m \in Replies => m \notin UserMessages
    BY MessageAssumption DEF UserMessages, RoomMessages, PlainMessages, NamesUser
<1>4. \A t \in {"JOIN", "LOGIN", "JOIN_ROOM", "LEAVE_ROOM", "JOIN_ROOM_SUCCESS",
                "LEAVE_ROOM_SUCCESS"} : t \in ToSet(Types)
    <2>1. /\ Types[2] = "JOIN" /\ Types[3] = "LOGIN"
          /\ Types[5] = "JOIN_ROOM" /\ Types[6] = "LEAVE_ROOM"
          /\ Types[17] = "JOIN_ROOM_SUCCESS" /\ Types[19] = "LEAVE_ROOM_SUCCESS"
        BY DEF Types
    <2>2. {2, 3, 5, 6, 17, 19} \subseteq DOMAIN Types
        BY TypesOfPackets
    <2> QED
        BY <2>1, <2>2 DEF ToSet
<1>5. m.type \in ToSet(Types) /\ m.type # "UNKNOWN_TYPE"
    BY <1>1, <1>4 DEF UserMessages, RoomMessages, PlainMessages
<1>6. Len(Packet(m)) <= N - 2
    BY MessageAssumption DEF Sent
<1> QED
    BY <1>1, <1>2, <1>3, <1>5, <1>6

LEMMA DataBytes ==
    ASSUME NEW m \in Requests \cup Replies
    PROVE  Data(m) \in Seq(32 .. 254)
<1>1. \A x \in DOMAIN Text : Text[x] \in Seq(32 .. 254)
    <2> SUFFICES ASSUME NEW x \in DOMAIN Text PROVE Text[x] \in Seq(32 .. 254)
        OBVIOUS
    <2>1. Text[x] \in Seq(33 .. 254)
        BY WireAssumption
    <2>2. \A i \in 1 .. Len(Text[x]) : Text[x][i] \in 33 .. 254
        BY <2>1, ElementOfSeq
    <2>3. \A b \in 33 .. 254 : b \in 32 .. 254
        OBVIOUS
    <2>4. \A i \in 1 .. Len(Text[x]) : Text[x][i] \in 32 .. 254
        BY <2>2, <2>3
    <2> QED
        BY <2>1, <2>4, SeqOfWider
<1>2. CASE NamesUser(m)
    <2>1. m.data.name \in DOMAIN Text /\ m.data.password \in DOMAIN Text
        BY <1>2, Shapes, WireAssumption DEF Sent, UserMessages
    <2>2. /\ Text[m.data.name] \in Seq(32 .. 254) /\ Text[m.data.password] \in Seq(32 .. 254)
          /\ <<32>> \in Seq(32 .. 254)
        BY <1>1, <2>1
    <2>3. Data(m) = Text[m.data.name] \o <<32>> \o Text[m.data.password]
        BY <1>2 DEF Data
    <2> QED
        BY <2>2, <2>3, ConcatProperties
<1>3. CASE ~NamesUser(m) /\ m.data \in DOMAIN Text
    BY <1>1, <1>3 DEF Data
<1>4. CASE ~NamesUser(m) /\ m.data \notin DOMAIN Text
    BY <1>4, EmptySeq DEF Data
<1> QED
    BY <1>2, <1>3, <1>4

LEMMA CodeType ==
    ASSUME NEW m \in Requests \cup Replies
    PROVE  Code(m.type) \in 0 .. 29
<1>1. m.type \in ToSet(Types)
    BY Shapes DEF Sent
<1>2. \E i \in DOMAIN Types : Types[i] = m.type
    BY <1>1 DEF ToSet
<1> DEFINE i == CHOOSE j \in DOMAIN Types : Types[j] = m.type
<1>3. i \in DOMAIN Types
    BY <1>2
<1>4. Code(m.type) = i - 1
    BY DEF Code
<1> HIDE DEF i
<1> QED
    BY <1>3, <1>4, TypesOfPackets

LEMMA PacketBytes ==
    ASSUME NEW m \in Requests \cup Replies
    PROVE  /\ Packet(m) \in Seq(0 .. 255) /\ Packet(m)[1] = 49
           /\ \A i \in 1 .. Len(Packet(m)) : i > 2 => Packet(m)[i] >= 32
           /\ Len(Packet(m)) \in 2 .. N - 2
<1> DEFINE head == <<Version, Code(m.type)>>
           data == Data(m)
<1>1. /\ head \in Seq(0 .. 255) /\ Len(head) = 2 /\ head[1] = 49
    BY CodeType DEF Version
<1>2. data \in Seq(32 .. 254)
    BY DataBytes
<1>3. Len(data) \in Nat /\ \A i \in 1 .. Len(data) : data[i] \in 32 .. 254
    BY <1>2, ElementOfSeq
<1>4. data \in Seq(0 .. 255)
    <2>1. \A i \in 1 .. Len(data) : data[i] \in 0 .. 255
        BY <1>3
    <2> QED
        BY <1>2, <2>1, SeqOfWider
<1>5. Packet(m) = head \o data
    BY DEF Packet
<1> HIDE DEF head, data
<1>6. /\ head \o data \in Seq(0 .. 255) /\ Len(head \o data) = 2 + Len(data)
      /\ (head \o data)[1] = head[1]
    <2>1. head \o data \in Seq(0 .. 255) /\ Len(head \o data) = Len(head) + Len(data)
        <3>1. head \in Seq(0 .. 255)
            BY <1>1
        <3> QED
            BY <1>4, <3>1, ConcatProperties
    <2>2. 1 \in 1 .. Len(head) + Len(data) /\ 1 <= Len(head)
        BY <1>1, <1>3
    <2>3. (head \o data)[1] = IF 1 <= Len(head) THEN head[1] ELSE data[1 - Len(head)]
        BY <1>1, <1>4, <2>2, ConcatProperties
    <2> QED
        BY <1>1, <2>1, <2>2, <2>3
<1>7. ASSUME NEW i \in 1 .. Len(head \o data), i > 2
      PROVE  (head \o data)[i] >= 32
    <2> DEFINE n == Len(data)
    <2>0. n \in Nat /\ i \in 1 .. 2 + n
        BY <1>3, <1>6
    <2> HIDE DEF n
    <2>9. i \in Int /\ i - 2 \in 1 .. n
        BY <1>7, <2>0
    <2>1. i \in Int /\ i - 2 \in 1 .. Len(data)
        BY <2>9 DEF n
    <2>2. (head \o data)[i] = data[i - 2]
        BY <1>1, <1>3, <1>4, <1>6, <1>7, <2>1
    <2>3. data[i - 2] \in 32 .. 254
        BY <1>3, <2>1
    <2>5. \A b \in 32 .. 254 : b >= 32
        OBVIOUS
    <2>4. data[i - 2] >= 32
        BY <2>3, <2>5
    <2> QED
        BY <2>2, <2>4
<1>8. Len(Packet(m)) <= N - 2
    BY Shapes DEF Sent
<1>9. Len(head \o data) \in 2 .. N - 2
    BY <1>3, <1>5, <1>6, <1>8, WireAssumption
<1> QED
    BY <1>1, <1>5, <1>6, <1>7, <1>9

-----------------------------------------------------------------------------
(* What is in the stream, in the buffer and in what is made of it.         *)
LEMMA StreamBytes ==
    ASSUME IInv, NEW i \in 1 .. Len(stream)
    PROVE  /\ Byte(stream[i]) \in 0 .. 255
           /\ stream[i].at = 1 => Byte(stream[i]) = 49
           /\ stream[i].at > 2 => Byte(stream[i]) >= 32
           /\ stream[i].at \in Nat
<1> DEFINE b == stream[i]
<1>1. stream \in Seq(Bytes)
    BY DEF IInv, StreamInv, Numbered
<1>2. b \in Bytes
    BY <1>1, ElementOfSeq
<1>3. b.at \in 1 .. Len(Packet(b.of))
    BY DEF IInv, StreamInv, Numbered
<1>4. b.of \in Requests \cup Replies /\ b.at \in Nat
    BY <1>2 DEF Bytes, Sent
<1>5. /\ Packet(b.of)[1] = 49
      /\ \A j \in 1 .. Len(Packet(b.of)) : j > 2 => Packet(b.of)[j] >= 32
    BY <1>4, PacketBytes
<1>6. Packet(b.of)[b.at] \in 0 .. 255
    <2>1. Packet(b.of) \in Seq(0 .. 255)
        BY <1>4, PacketBytes
    <2> QED
        BY <1>3, <2>1, ElementOfSeq
<1>7. Byte(b) = Packet(b.of)[b.at]
    BY DEF Byte
<1>8. b.at = 1 => Byte(b) = 49
    BY <1>5, <1>7
<1>9. b.at > 2 => Byte(b) >= 32
    <2> DEFINE j == b.at
    <2>1. j \in 1 .. Len(Packet(b.of)) /\ Byte(b) = Packet(b.of)[j]
        BY <1>3, <1>7
    <2>2. j > 2 => Packet(b.of)[j] >= 32
        BY <1>5, <2>1
    <2> QED
        BY <2>1, <2>2
<1>10. Byte(b) \in 0 .. 255 /\ b.at \in Nat
    BY <1>4, <1>6, <1>7
<1> QED
    BY <1>8, <1>9, <1>10

LEMMA BufferRead ==
    ASSUME IInv, NEW k \in 1 .. N, Receive(k)
    PROVE  /\ buf' \in [1 .. N -> 0 .. 255]
           /\ \A i \in 1 .. N : buf'[i] = IF i <= k THEN Byte(stream[i]) ELSE 0
           /\ k <= Len(stream)
<1> DEFINE bytes == [i \in 1 .. k |-> Byte(stream[i])]
<1>1. k <= Len(stream) /\ buf' = Fill(bytes)
    BY DEF Receive
<1>2. Len(stream) \in Nat /\ N \in Nat
    BY WireAssumption DEF IInv, TypeOK
<1>3. ASSUME NEW i \in 1 .. k
      PROVE  bytes[i] = Byte(stream[i]) /\ bytes[i] \in 0 .. 255
    <2>1. i \in 1 .. Len(stream)
        BY <1>1, <1>2
    <2>2. Byte(stream[i]) \in 0 .. 255
        BY <2>1, StreamBytes
    <2> QED
        BY <2>2
<1>4. Len(bytes) = k
    BY <1>2
<1> HIDE DEF bytes
<1>5. ASSUME NEW i \in 1 .. N
      PROVE  /\ Fill(bytes)[i] = IF i <= k THEN Byte(stream[i]) ELSE 0
             /\ Fill(bytes)[i] \in 0 .. 255
    <2>1. Fill(bytes)[i] = IF i <= k THEN bytes[i] ELSE 0
        BY <1>4 DEF Fill
    <2>2. CASE i <= k
        BY <1>3, <2>1, <2>2
    <2>3. CASE ~(i <= k)
        BY <2>1, <2>3
    <2> QED
        BY <2>2, <2>3
<1>6. Fill(bytes) = [i \in 1 .. N |-> Fill(bytes)[i]]
    BY DEF Fill
<1>7. Fill(bytes) \in [1 .. N -> 0 .. 255]
    BY <1>5, <1>6
<1> QED
    BY <1>1, <1>5, <1>7

LEMMA PayloadSet ==
    ASSUME buf' \in [1 .. N -> 0 .. 255], NEW last \in {0, Junk}
    PROVE  /\ SetPayload(last) \in [1 .. N -> 0 .. 255]
           /\ \A i \in 1 .. N - 1 :
                 SetPayload(last)[i] = 0 \/ SetPayload(last)[i] = buf'[i]
           /\ \A i \in 1 .. N - 1 : buf'[i] = 0 => SetPayload(last)[i] = 0
           /\ \A i \in 1 .. N - 1 : (\A j \in 1 .. i : buf'[j] # 0)
                                       => SetPayload(last)[i] = buf'[i]
<1>1. N \in Nat /\ last \in 0 .. 255
    BY WireAssumption DEF Junk
<1>2. ASSUME NEW i \in 1 .. N
      PROVE  /\ SetPayload(last)[i] \in 0 .. 255
             /\ i # N => SetPayload(last)[i] = 0 \/ SetPayload(last)[i] = buf'[i]
             /\ i # N /\ buf'[i] = 0 => SetPayload(last)[i] = 0
             /\ i # N /\ (\A j \in 1 .. i : buf'[j] # 0) => SetPayload(last)[i] = buf'[i]
    <2>1. SetPayload(last)[i] =
              IF i = N THEN last ELSE IF \E j \in 1 .. i : buf'[j] = 0 THEN 0 ELSE buf'[i]
        BY DEF SetPayload
    <2>2. buf'[i] \in 0 .. 255
        OBVIOUS
    <2> QED
        BY <1>1, <2>1, <2>2
<1>3. SetPayload(last) = [i \in 1 .. N |-> SetPayload(last)[i]]
    BY DEF SetPayload
<1>4. \A i \in 1 .. N - 1 : i \in 1 .. N /\ i # N
    BY <1>1
<1> QED
    BY <1>2, <1>3, <1>4

LEMMA PacketParsed ==
    ASSUME NEW payload \in [1 .. N -> 0 .. 255]
    PROVE  /\ ParsePacket(payload).type \in ToSet(Types)
           /\ payload[2] = 0 \/ payload[2] >= 30 => ParsePacket(payload).type \in Unhandled
           /\ ParsePacket(payload).data \in Seq(0 .. 255)
           /\ ParsePacket(payload).data \in [1 .. N - 2 -> 0 .. 255]
           /\ Len(ParsePacket(payload).data) = N - 2
           /\ \A i \in 1 .. N - 2 : ParsePacket(payload).data[i] = payload[i + 2]
<1> DEFINE data == SubSeq(payload, 3, N)
<1>1. N \in Nat /\ N > 3 /\ payload[2] \in 0 .. 255
    BY WireAssumption
<1>2. ParsePacket(payload).type = TypeOf(payload[2]) /\ ParsePacket(payload).data = data
    BY DEF ParsePacket
<1>3. \A i \in 3 .. N : payload[i] \in 0 .. 255
    BY <1>1
<1>4. /\ data \in Seq(0 .. 255) /\ Len(data) = N - 3 + 1
      /\ \A i \in 1 .. N - 3 + 1 : data[i] = payload[3 + i - 1]
    BY <1>1, <1>3, SubSeqProperties
<1> HIDE DEF data
<1>5. N - 3 + 1 = N - 2 /\ \A i \in 1 .. N - 2 : 3 + i - 1 = i + 2
    BY <1>1
<1>6. Len(data) = N - 2 /\ \A i \in 1 .. N - 2 : data[i] = payload[i + 2]
    BY <1>4, <1>5
<1>7. data \in [1 .. N - 2 -> 0 .. 255]
    <2>1. data \in Seq(0 .. 255)
        BY <1>4
    <2>2. data = [i \in 1 .. Len(data) |-> data[i]]
        BY <2>1
    <2>3. \A i \in 1 .. Len(data) : data[i] \in 0 .. 255
        BY <2>1, ElementOfSeq
    <2> QED
        BY <1>6, <2>2, <2>3
<1>8. /\ TypeOf(payload[2]) \in ToSet(Types)
      /\ payload[2] = 0 \/ payload[2] >= 30 => TypeOf(payload[2]) \in Unhandled
    BY <1>1, TypeOfAny
<1>9. /\ ParsePacket(payload).type \in ToSet(Types)
      /\ payload[2] = 0 \/ payload[2] >= 30 => ParsePacket(payload).type \in Unhandled
    BY <1>2, <1>8
<1>10. ParsePacket(payload).data \in Seq(0 .. 255)
    BY <1>2, <1>4
<1>11. ParsePacket(payload).data \in [1 .. N - 2 -> 0 .. 255]
    BY <1>2, <1>7
<1>12. /\ Len(ParsePacket(payload).data) = N - 2
       /\ \A i \in 1 .. N - 2 : ParsePacket(payload).data[i] = payload[i + 2]
    BY <1>2, <1>6
<1> QED
    BY <1>9, <1>10, <1>11, <1>12

LEMMA InUserType ==
    ASSUME NEW name \in Seq(1 .. 255), NEW password \in Seq(1 .. 255), NEW old,
           old.name \in Seq(1 .. 255), old.password \in Seq(1 .. 255)
    PROVE  /\ InUser(name, password, old).name \in Seq(1 .. 255)
           /\ InUser(name, password, old).password \in Seq(1 .. 255)
<1> DEFINE size == MaxUsernameSize
           over == SubSeq(name, size + 1, Len(name))
           head == SubSeq(name, 1, size)
           second == IF password # <<>> THEN password
                     ELSE IF Len(name) >= size THEN over ELSE old.password
           first == IF name = <<>> THEN old.name
                    ELSE IF Len(name) >= size THEN head \o second ELSE name
<1>1. InUser(name, password, old) = [name |-> first, password |-> second]
    BY DEF InUser
<1>2. size \in Nat /\ Len(name) \in Nat
    BY WireAssumption
<1> HIDE DEF size
<1>3. over \in Seq(1 .. 255)
    <2>1. size + 1 \in Nat \ {0} /\ Len(name) \in 0 .. Len(name)
        BY <1>2
    <2> QED
        BY <2>1, PartOfSeq
<1>4. Len(name) >= size => head \in Seq(1 .. 255)
    <2> SUFFICES ASSUME Len(name) >= size PROVE head \in Seq(1 .. 255)
        OBVIOUS
    <2>1. 1 \in Nat \ {0} /\ size \in 0 .. Len(name)
        BY <1>2
    <2> QED
        BY <2>1, PartOfSeq
<1> HIDE DEF over, head
<1>5. second \in Seq(1 .. 255)
    BY <1>3
<1> HIDE DEF second
<1>6. Len(name) >= size => head \o second \in Seq(1 .. 255)
    BY <1>4, <1>5, ConcatProperties
<1>7. first \in Seq(1 .. 255)
    BY <1>6
<1> HIDE DEF first
<1> QED
    BY <1>1, <1>5, <1>7

LEMMA InUserKeeps ==
    ASSUME NEW name, NEW password, NEW old, MaxUsernameSize \in Nat, Len(name) \in Nat,
           name # <<>>, password # <<>>
    PROVE  /\ InUser(name, password, old).password = password
           /\ Len(name) < MaxUsernameSize => InUser(name, password, old).name = name
    BY DEF InUser

LEMMA UserType ==
    ASSUME NEW data \in Seq(0 .. 255), GetUsernamePassword(data),
           user.name \in Seq(1 .. 255), user.password \in Seq(1 .. 255)
    PROVE  user'.name \in Seq(1 .. 255) /\ user'.password \in Seq(1 .. 255)
<1> DEFINE text == Skip(CString(data))
           name == Word(text)
           rest == SubSeq(text, Len(name) + 1, Len(text))
           password == Word(Skip(rest))
<1>1. text \in Seq(1 .. 255)
    <2>1. CString(data) \in Seq(1 .. 255)
        BY CStringType
    <2> QED
        BY <2>1, WordType
<1> HIDE DEF text
<1>2. name \in Seq(1 .. 255) /\ Len(name) \in 0 .. Len(text) /\ Len(text) \in Nat
    <2>1. Word(text) \in Seq(1 .. 255) /\ Len(Word(text)) \in 0 .. Len(text)
        BY <1>1, WordType
    <2>2. Len(text) \in Nat
        BY <1>1
    <2> QED
        BY <2>1, <2>2
<1> HIDE DEF name
<1>3. rest \in Seq(1 .. 255)
    <2>1. Len(name) + 1 \in Nat \ {0} /\ Len(text) \in 0 .. Len(text)
        BY <1>2
    <2> QED
        BY <1>1, <2>1, PartOfSeq
<1> HIDE DEF rest
<1>4. password \in Seq(1 .. 255)
    BY <1>3, WordType
<1> HIDE DEF password
<1>5. PICK old \in [name : {user.name, <<Junk>>}, password : {user.password, <<Junk>>}] :
          user' = InUser(name, password, old)
    BY DEF GetUsernamePassword, text, name, rest, password
<1>6. old.name \in Seq(1 .. 255) /\ old.password \in Seq(1 .. 255)
    <2>1. <<Junk>> \in Seq(1 .. 255)
        BY DEF Junk
    <2>2. old.name \in {user.name, <<Junk>>} /\ old.password \in {user.password, <<Junk>>}
        OBVIOUS
    <2> QED
        BY <2>1, <2>2
<1> QED
    BY <1>2, <1>4, <1>5, <1>6, InUserType

(* One read: the payload is the buffer up to a NUL, and what is behind it  *)
(* is the message.                                                         *)
LEMMA MessageRead ==
    ASSUME IInv, NEW k \in 2 .. N, Receive(k)
    PROVE  \E payload \in [1 .. N -> 0 .. 255] :
              /\ got' = ParsePacket(payload)
              /\ \A i \in 1 .. N - 1 : payload[i] = 0 \/ payload[i] = buf'[i]
              /\ \A i \in 1 .. N - 1 : buf'[i] = 0 => payload[i] = 0
              /\ \A i \in 1 .. N - 1 : (\A j \in 1 .. i : buf'[j] # 0) => payload[i] = buf'[i]
<1>1. N \in Nat /\ k \in 1 .. N /\ ~(k < 2)
    BY WireAssumption
<1>2. buf' \in [1 .. N -> 0 .. 255]
    BY <1>1, BufferRead
<1>3. PICK last \in {0, Junk} : got' = ParsePacket(SetPayload(last))
    BY <1>1 DEF Receive
<1> QED
    BY <1>2, <1>3, PayloadSet

-----------------------------------------------------------------------------
(* The invariant.                                                          *)
LEMMA InitIInv == Init => IInv
<1> SUFFICES ASSUME Init PROVE IInv
    OBVIOUS
<1>1. stream = <<>> /\ Len(stream) = 0
    BY DEF Init
<1>2. stream \in Seq(Bytes) /\ stream \in Seq([of : Messages, at : 1 .. N, nr : 1 .. MaxWrites])
    BY <1>1
<1>3. /\ buf \in [1 .. N -> 0 .. 255] /\ side \in {"request", "reply"} /\ got = NULL
      /\ writes \in 0 .. MaxWrites
    BY WireAssumption DEF Init
<1>4. user.name \in Seq(1 .. 255) /\ user.password \in Seq(1 .. 255)
    BY DEF Init, Junk
<1>5. TypeOK
    BY <1>2, <1>3, <1>4 DEF TypeOK
<1>6. StreamInv
    BY <1>1, <1>2 DEF StreamInv, Numbered, Whole
<1> QED
    BY <1>5, <1>6 DEF IInv

Piece(m, k, v) == [i \in 1 .. k |-> [of |-> m, at |-> i, nr |-> v]]

Appended(s, m, k, v, t) ==
    /\ Numbered(t) /\ Len(t) = Len(s) + k
    /\ \A i \in 1 .. Len(s) : t[i] = s[i] /\ s[i].nr < v
    /\ \A i \in Len(s) + 1 .. Len(s) + k :
          t[i].of = m /\ t[i].at = i - Len(s) /\ t[i].nr = v

LEMMA OfBytes ==
    ASSUME NEW s, Numbered(s), NEW i \in 1 .. Len(s)
    PROVE  /\ Len(s) \in Nat /\ s[i] \in Bytes /\ s[i].of \in Sent
           /\ s[i].at \in Nat /\ s[i].nr \in Nat
           /\ s[i].at \in 1 .. Len(Packet(s[i].of))
<1>1. s \in Seq(Bytes) /\ s[i].at \in 1 .. Len(Packet(s[i].of))
    BY DEF Numbered
<1>2. s[i] \in Bytes
    BY <1>1, ElementOfSeq
<1>3. s[i].of \in Sent /\ s[i].at \in 1 .. N /\ s[i].nr \in 1 .. MaxWrites
    BY <1>2 DEF Bytes
<1> QED
    BY <1>1, <1>2, <1>3

LEMMA Neighbours ==
    ASSUME NEW s, Numbered(s), NEW i \in 1 .. Len(s) - 1
    PROVE  s[i + 1].at = 1 \/ s[i + 1].at = s[i].at + 1
<1>1. i \in 1 .. Len(s) /\ i + 1 \in 1 .. Len(s) /\ i < i + 1 /\ (i + 1) - i = 1
    BY DEF Numbered
<1>2. s[i + 1].nr = s[i].nr => s[i + 1].at = s[i].at + ((i + 1) - i)
    BY <1>1 DEF Numbered
<1> QED
    BY <1>1, <1>2 DEF Numbered

(* A write puts the first bytes of a packet behind all the others.         *)
LEMMA Written ==
    ASSUME NEW s, Numbered(s), NEW m \in Sent, NEW k \in 1 .. Len(Packet(m)),
           NEW v \in 1 .. MaxWrites, Len(s) > 0 => s[Len(s)].nr = v - 1
    PROVE  Appended(s, m, k, v, s \o Piece(m, k, v))
<1> DEFINE new == Piece(m, k, v)
           t == s \o Piece(m, k, v)
           L == Len(s)
<1>1. s \in Seq(Bytes) /\ L \in Nat /\ v \in Nat
    BY WireAssumption DEF Numbered
<1>2. Len(Packet(m)) \in 2 .. N - 2 /\ N \in Nat /\ k \in 1 .. N
    BY PacketBytes, WireAssumption DEF Sent
<1>3. /\ new \in Seq(Bytes) /\ Len(new) = k
      /\ \A i \in 1 .. k : new[i].of = m /\ new[i].at = i /\ new[i].nr = v
    <2>1. \A i \in 1 .. k : i \in 1 .. N /\ [of |-> m, at |-> i, nr |-> v] \in Bytes
        BY <1>2 DEF Bytes
    <2>2. \A i \in 1 .. k : new[i] \in Bytes
        BY <2>1 DEF Piece
    <2>3. k \in Nat /\ new = [i \in 1 .. k |-> new[i]]
        BY <1>2 DEF Piece
    <2>4. new \in [1 .. k -> Bytes]
        BY <2>2, <2>3
    <2>5. new \in Seq(Bytes)
        BY <2>3, <2>4, SeqDef
    <2>6. Len(new) = k
        BY <2>3
    <2>7. \A i \in 1 .. k : new[i].of = m /\ new[i].at = i /\ new[i].nr = v
        BY DEF Piece
    <2> QED
        BY <2>5, <2>6, <2>7
<1>4. t = s \o new
    OBVIOUS
<1> HIDE DEF new, t
<1>5. /\ t \in Seq(Bytes) /\ Len(t) = L + k
      /\ \A i \in 1 .. L + k : t[i] = IF i <= L THEN s[i] ELSE new[i - L]
    <2>1. t \in Seq(Bytes) /\ Len(t) = Len(s) + Len(new)
        BY <1>1, <1>3, <1>4, ConcatProperties
    <2>2. \A i \in 1 .. Len(s) + Len(new) :
              t[i] = IF i <= Len(s) THEN s[i] ELSE new[i - Len(s)]
        BY <1>1, <1>3, <1>4, ConcatProperties
    <2> QED
        BY <1>3, <2>1, <2>2
<1>6. ASSUME NEW i \in 1 .. L
      PROVE  t[i] = s[i] /\ s[i].nr < v /\ s[i].nr \in Nat
    <2>1. i \in 1 .. L + k /\ i <= L /\ L \in 1 .. L
        BY <1>1, <1>2
    <2>2. t[i] = s[i]
        BY <1>5, <2>1
    <2>3. s[i].nr \in Nat /\ s[L].nr = v - 1
        BY <1>1, <2>1, OfBytes
    <2>4. i < L => s[i].nr <= s[L].nr
        BY <2>1 DEF Numbered
    <2>5. s[i].nr <= v - 1
        BY <1>1, <2>1, <2>3, <2>4
    <2> QED
        BY <1>1, <2>2, <2>3, <2>5
<1>7. ASSUME NEW i \in L + 1 .. L + k
      PROVE  /\ t[i].of = m /\ t[i].at = i - L /\ t[i].nr = v
             /\ i - L \in 1 .. k /\ i \in Nat
    <2>1. i \in 1 .. L + k /\ ~(i <= L) /\ i - L \in 1 .. k /\ i \in Nat
        BY <1>1, <1>2
    <2>2. t[i] = new[i - L]
        BY <1>5, <2>1
    <2> QED
        BY <1>3, <2>1, <2>2
<1>8. \A i \in 1 .. L + k : i \in 1 .. L \/ i \in L + 1 .. L + k
    BY <1>1, <1>2
<1> HIDE DEF L
<1>9. ASSUME NEW i \in 1 .. L + k
      PROVE  t[i].at \in 1 .. Len(Packet(t[i].of))
    <2>1. CASE i \in 1 .. L
        BY <1>6, <2>1 DEF Numbered, L
    <2>2. CASE i \in L + 1 .. L + k
        <3>1. t[i].of = m /\ t[i].at \in 1 .. k
            BY <1>7, <2>2
        <3>2. \A x \in 1 .. k : x \in 1 .. Len(Packet(m))
            BY <1>2
        <3> QED
            BY <3>1, <3>2
    <2> QED
        BY <1>8, <2>1, <2>2
<1>10. ASSUME NEW i \in 1 .. L + k, NEW j \in 1 .. L + k, i < j
       PROVE  /\ t[i].nr <= t[j].nr
              /\ t[i].nr = t[j].nr => t[i].of = t[j].of /\ t[j].at = t[i].at + (j - i)
    <2>1. CASE i \in 1 .. L /\ j \in 1 .. L
        <3>1. /\ s[i].nr <= s[j].nr
              /\ s[i].nr = s[j].nr => s[i].of = s[j].of /\ s[j].at = s[i].at + (j - i)
            BY <1>10, <2>1 DEF Numbered, L
        <3> QED
            BY <1>6, <2>1, <3>1
    <2>2. CASE i \in 1 .. L /\ j \in L + 1 .. L + k
        <3> DEFINE x == t[i].nr
        <3>1. x < v /\ x \in Nat /\ t[j].nr = v
            BY <1>6, <1>7, <2>2
        <3> HIDE DEF x
        <3>2. x <= v /\ x # v
            BY <1>1, <3>1
        <3> QED
            BY <3>1, <3>2 DEF x
    <2>3. CASE i \in L + 1 .. L + k /\ j \in L + 1 .. L + k
        <3>1. /\ t[i].of = m /\ t[i].at = i - L /\ t[i].nr = v
              /\ t[j].of = m /\ t[j].at = j - L /\ t[j].nr = v
            BY <1>7, <2>3
        <3>2. j - L = (i - L) + (j - i) /\ v <= v
            BY <1>1, <1>7, <2>3 DEF L
        <3> QED
            BY <3>1, <3>2
    <2>4. CASE i \in L + 1 .. L + k /\ j \in 1 .. L
        BY <1>1, <1>2, <1>10, <2>4
    <2> QED
        BY <1>8, <2>1, <2>2, <2>3, <2>4
<1>11. ASSUME NEW i \in 1 .. (L + k) - 1
       PROVE  t[i + 1].nr = t[i].nr \/ (t[i + 1].nr = t[i].nr + 1 /\ t[i + 1].at = 1)
    <2>1. i \in Nat /\ i \in 1 .. L + k /\ i + 1 \in 1 .. L + k
        BY <1>1, <1>2
    <2>2. CASE i + 1 \in 1 .. L
        <3>1. i \in 1 .. L - 1 /\ i \in 1 .. L
            BY <1>1, <2>1, <2>2
        <3>2. s[i + 1].nr = s[i].nr \/ (s[i + 1].nr = s[i].nr + 1 /\ s[i + 1].at = 1)
            BY <3>1 DEF Numbered, L
        <3> QED
            BY <1>6, <2>2, <3>1, <3>2
    <2>3. CASE i + 1 \in L + 1 .. L + k
        <3>1. t[i + 1].nr = v /\ t[i + 1].at = (i + 1) - L
            BY <1>7, <2>3
        <3>2. CASE i = L
            <4>1. i \in 1 .. L /\ s[L].nr = v - 1 /\ L > 0
                BY <1>1, <2>1, <3>2 DEF L
            <4>2. t[i].nr = v - 1
                BY <1>6, <3>2, <4>1
            <4>3. (i + 1) - L = 1 /\ v = (v - 1) + 1
                BY <1>1, <3>2
            <4> QED
                BY <3>1, <4>2, <4>3
        <3>3. CASE i # L
            <4>1. i \in L + 1 .. L + k
                BY <1>1, <2>1, <2>3, <3>3
            <4> QED
                BY <1>7, <3>1, <4>1
        <3> QED
            BY <3>2, <3>3
    <2> QED
        BY <1>8, <2>1, <2>2, <2>3
<1> DEFINE R == L + k
<1>12. Len(t) = R
    BY <1>5
<1>13. /\ \A i \in 1 .. R : t[i].at \in 1 .. Len(Packet(t[i].of))
       /\ \A i, j \in 1 .. R : i < j =>
             /\ t[i].nr <= t[j].nr
             /\ t[i].nr = t[j].nr => t[i].of = t[j].of /\ t[j].at = t[i].at + (j - i)
       /\ \A i \in 1 .. R - 1 :
             t[i + 1].nr = t[i].nr \/ (t[i + 1].nr = t[i].nr + 1 /\ t[i + 1].at = 1)
    BY <1>9, <1>10, <1>11
<1>14. Numbered(t)
    <2> HIDE DEF R
    <2> QED
        BY <1>5, <1>12, <1>13 DEF Numbered
<1>15. \A i \in L + 1 .. L + k : t[i].of = m /\ t[i].at = i - L /\ t[i].nr = v
    BY <1>7
<1>16. \A i \in 1 .. L : t[i] = s[i] /\ s[i].nr < v
    BY <1>6
<1>17. Len(t) = L + k
    BY <1>5
<1>18. Appended(s, m, k, v, t)
    BY <1>14, <1>15, <1>16, <1>17 DEF Appended, L
<1> QED
    BY <1>18 DEF t

(* A read takes the first k bytes.                                         *)
LEMMA Rest ==
    ASSUME NEW s, Numbered(s), NEW k \in 1 .. Len(s), NEW t, t = SubSeq(s, k + 1, Len(s))
    PROVE  /\ Numbered(t) /\ Len(t) = Len(s) - k
           /\ \A i \in 1 .. Len(s) - k : t[i] = s[i + k] /\ i + k \in 1 .. Len(s)
<1> DEFINE L == Len(s)
<1>1. s \in Seq(Bytes) /\ L \in Nat
    BY DEF Numbered
<1>2. k \in Nat /\ k >= 1 /\ k <= L
    BY <1>1
<1>3. t \in Seq(Bytes)
    <2>1. k + 1 \in Nat \ {0} /\ L \in 0 .. Len(s)
        BY <1>1, <1>2
    <2> QED
        BY <1>1, <2>1, PartOfSeq
<1> HIDE DEF L
<1>4. Len(t) = L - k /\ \A i \in 1 .. L - k : t[i] = s[i + k]
    <2>1. ASSUME NEW i \in k + 1 .. L
          PROVE  s[i] \in Bytes
        <3>1. i \in 1 .. Len(s)
            BY <1>1, <1>2 DEF L
        <3> QED
            BY <1>1, <3>1, ElementOfSeq
    <2>2. t = SubSeq(s, k + 1, L)
        BY DEF L
    <2>3. /\ Len(t) = IF k + 1 <= L THEN L - (k + 1) + 1 ELSE 0
          /\ \A i \in 1 .. L - (k + 1) + 1 : t[i] = s[(k + 1) + i - 1]
        BY <1>1, <1>2, <2>1, <2>2, SubSeqProperties
    <2>4. /\ L - (k + 1) + 1 = L - k
          /\ \A i \in 1 .. L - k : (k + 1) + i - 1 = i + k
          /\ (IF k + 1 <= L THEN L - (k + 1) + 1 ELSE 0) = L - k
        BY <1>1, <1>2
    <2> QED
        BY <2>3, <2>4
<1> DEFINE R == L - k
<1>5. R \in Nat /\ \A i \in 1 .. R : i + k \in 1 .. L /\ i \in Nat
    BY <1>1, <1>2
<1>6. \A i \in 1 .. R : t[i] = s[i + k]
    BY <1>4
<1>7. Len(t) = R
    BY <1>4
<1>8. ASSUME NEW i \in 1 .. R
      PROVE  t[i].at \in 1 .. Len(Packet(t[i].of))
    BY <1>5, <1>6 DEF Numbered, L
<1>9. ASSUME NEW i \in 1 .. R, NEW j \in 1 .. R, i < j
      PROVE  /\ t[i].nr <= t[j].nr
             /\ t[i].nr = t[j].nr => t[i].of = t[j].of /\ t[j].at = t[i].at + (j - i)
    <2>1. i + k \in 1 .. L /\ j + k \in 1 .. L /\ i + k < j + k
        BY <1>2, <1>5, <1>9
    <2>2. /\ s[i + k].nr <= s[j + k].nr
          /\ s[i + k].nr = s[j + k].nr =>
                s[i + k].of = s[j + k].of /\ s[j + k].at = s[i + k].at + ((j + k) - (i + k))
        BY <2>1 DEF Numbered, L
    <2>3. (j + k) - (i + k) = j - i
        BY <1>2, <1>5
    <2> QED
        BY <1>6, <2>2, <2>3
<1>10. ASSUME NEW i \in 1 .. R - 1
       PROVE  t[i + 1].nr = t[i].nr \/ (t[i + 1].nr = t[i].nr + 1 /\ t[i + 1].at = 1)
    <2>1. /\ i \in 1 .. R /\ i + 1 \in 1 .. R /\ i + k \in 1 .. L - 1
          /\ (i + 1) + k = (i + k) + 1
        BY <1>1, <1>2, <1>5
    <2>2. \/ s[(i + k) + 1].nr = s[i + k].nr
          \/ s[(i + k) + 1].nr = s[i + k].nr + 1 /\ s[(i + k) + 1].at = 1
        BY <2>1 DEF Numbered, L
    <2> QED
        BY <1>6, <2>1, <2>2
<1> HIDE DEF R
<1>11. Numbered(t)
    BY <1>3, <1>7, <1>8, <1>9, <1>10 DEF Numbered
<1>12. \A i \in 1 .. R : t[i] = s[i + k] /\ i + k \in 1 .. L
    BY <1>5, <1>6
<1> QED
    BY <1>7, <1>11, <1>12 DEF L, R

LEMMA WholeAfter ==
    ASSUME NEW s, Numbered(s), Whole(s)
    PROVE  /\ \A k \in 1 .. Len(s) : Whole(SubSeq(s, k + 1, Len(s)))
           /\ \A m \in Sent : \A v \in 1 .. MaxWrites :
                 (Len(s) > 0 => s[Len(s)].nr = v - 1)
                    => Whole(s \o Piece(m, Len(Packet(m)), v))
<1> DEFINE L == Len(s)
<1>0. L \in Nat
    BY DEF Numbered
<1>1. ASSUME NEW k \in 1 .. L
      PROVE  Whole(SubSeq(s, k + 1, Len(s)))
    <2> DEFINE t == SubSeq(s, k + 1, Len(s))
    <2>1. Len(t) = L - k /\ \A i \in 1 .. L - k : t[i] = s[i + k] /\ i + k \in 1 .. Len(s)
        BY Rest
    <2> HIDE DEF t, L
    <2>2. ASSUME NEW i \in 1 .. L - k, i = L - k \/ t[i + 1].nr # t[i].nr
          PROVE  t[i].at = Len(Packet(t[i].of))
        <3>1. i + k \in 1 .. L /\ t[i] = s[i + k]
            BY <2>1 DEF L
        <3>2. i # L - k => t[i + 1] = s[(i + k) + 1]
            <4>1. i # L - k => i + 1 \in 1 .. L - k /\ (i + 1) + k = (i + k) + 1
                BY <1>0
            <4> QED
                BY <2>1, <4>1
        <3>3. i = L - k => i + k = L
            BY <1>0
        <3>4. i + k = L \/ s[(i + k) + 1].nr # s[i + k].nr
            BY <2>2, <3>1, <3>2, <3>3
        <3> QED
            BY <3>1, <3>4 DEF Whole, L
    <2>3. Whole(t)
        <3> DEFINE R == L - k
        <3>1. Len(t) = R /\ \A i \in 1 .. R : (i = R \/ t[i + 1].nr # t[i].nr)
                                => t[i].at = Len(Packet(t[i].of))
            BY <2>1, <2>2
        <3> HIDE DEF R
        <3> QED
            BY <3>1 DEF Whole
    <2> QED
        BY <2>3 DEF t
<1>2. ASSUME NEW m \in Sent, NEW v \in 1 .. MaxWrites, Len(s) > 0 => s[Len(s)].nr = v - 1
      PROVE  Whole(s \o Piece(m, Len(Packet(m)), v))
    <2> DEFINE K == Len(Packet(m))
               t == s \o Piece(m, K, v)
    <2>1. K \in 2 .. N - 2 /\ N \in Nat
        BY PacketBytes, WireAssumption DEF Sent
    <2>2. K \in 1 .. K /\ K \in Nat
        BY <2>1
    <2>3. /\ Len(t) = L + K
          /\ \A i \in 1 .. L : t[i] = s[i] /\ s[i].nr < v
          /\ \A i \in L + 1 .. L + K : t[i].of = m /\ t[i].at = i - L /\ t[i].nr = v
        <3>1. Appended(s, m, K, v, t)
            BY <1>2, <2>2, Written
        <3> QED
            BY <3>1 DEF Appended
    <2> HIDE DEF t, L
    <2>4. ASSUME NEW i \in 1 .. L + K, i = L + K \/ t[i + 1].nr # t[i].nr
          PROVE  t[i].at = Len(Packet(t[i].of))
        <3>1. CASE i \in 1 .. L
            <4>1. i # L => s[i + 1].nr # s[i].nr
                <5>1. i # L => i + 1 \in 1 .. L /\ i # L + K
                    BY <1>0, <2>2, <3>1
                <5> QED
                    BY <2>3, <2>4, <3>1, <5>1
            <4> QED
                BY <2>3, <3>1, <4>1 DEF Whole, L
        <3>2. CASE i \in L + 1 .. L + K
            <4>1. i # L + K => i + 1 \in L + 1 .. L + K
                BY <1>0, <2>2, <3>2
            <4>2. t[i].of = m /\ t[i].at = i - L /\ t[i].nr = v
                BY <2>3, <3>2
            <4>3. i = L + K
                <5>1. i # L + K => t[i + 1].nr = v
                    BY <2>3, <4>1
                <5> QED
                    BY <2>4, <4>2, <5>1
            <4>4. i - L = K
                BY <1>0, <2>2, <4>3
            <4> QED
                BY <4>2, <4>4
        <3>3. i \in 1 .. L \/ i \in L + 1 .. L + K
            BY <1>0, <2>2
        <3> QED
            BY <3>1, <3>2, <3>3
    <2>5. Whole(t)
        <3> DEFINE R == L + K
        <3>1. Len(t) = R /\ \A i \in 1 .. R : (i = R \/ t[i + 1].nr # t[i].nr)
                                => t[i].at = Len(Packet(t[i].of))
            BY <2>3, <2>4
        <3> HIDE DEF R
        <3> QED
            BY <3>1 DEF Whole
    <2> QED
        BY <2>5 DEF t
<1> QED
    BY <1>1, <1>2

(* What Send does to the stream: nothing, or it appends a part of a packet.*)
LEMMA SendStep ==
    ASSUME IInv, Send
    PROVE  /\ UNCHANGED <<side, buf, got, user>>
           /\ \/ UNCHANGED <<stream, writes>>
              \/ \E m \in Messages : \E k \in 1 .. Len(Packet(m)) :
                    /\ side = "request" => k = Len(Packet(m))
                    /\ writes < MaxWrites /\ writes' = writes + 1
                    /\ stream' = stream \o Piece(m, k, writes + 1)
<1>1. PICK m \in Messages : \E k \in 0 .. Len(Packet(m)) :
          (side = "request" => k = Len(Packet(m))) /\ PacketSend(m, k)
    BY DEF Send
<1>2. PICK k \in 0 .. Len(Packet(m)) :
          (side = "request" => k = Len(Packet(m))) /\ PacketSend(m, k)
    BY <1>1
<1>3. writes \in Nat /\ stream \in Seq(Bytes)
    BY DEF IInv, TypeOK, StreamInv, Numbered
<1>4. m \in Sent
    BY DEF Messages, Sent
<1>5. Len(Packet(m)) \in Nat
    BY <1>4, PacketBytes, WireAssumption DEF Sent
<1>6. CASE k = 0
    <2>1. writes' = writes
        BY <1>2, <1>3, <1>6 DEF PacketSend
    <2>2. [i \in 1 .. k |-> [of |-> m, at |-> i, nr |-> writes']] = <<>>
        BY <1>6
    <2>3. stream' = stream \o <<>>
        BY <1>2, <2>2 DEF PacketSend
    <2>4. stream' = stream
        BY <1>3, <2>3, ConcatEmptySeq
    <2> QED
        BY <1>2, <2>1, <2>4 DEF PacketSend
<1>7. CASE k # 0
    <2>1. k \in 1 .. Len(Packet(m)) /\ k > 0
        BY <1>5, <1>7
    <2>2. writes' = writes + 1 /\ writes < MaxWrites /\ UNCHANGED <<side, buf, got, user>>
        BY <1>2, <2>1 DEF PacketSend
    <2>3. stream' = stream \o Piece(m, k, writes + 1)
        BY <1>2, <2>2 DEF PacketSend, Piece
    <2> QED
        BY <1>2, <2>1, <2>2, <2>3
<1> QED
    BY <1>6, <1>7

LEMMA SendIInv ==
    ASSUME IInv, Send
    PROVE  IInv' /\ Len(stream') >= Len(stream)
<1>0. stream \in Seq(Bytes) /\ Len(stream) \in Nat /\ writes \in Nat
    BY DEF IInv, TypeOK, StreamInv, Numbered
<1>1. CASE UNCHANGED <<side, buf, got, user, stream, writes>>
    <2>1. TypeOK'
        BY <1>1 DEF IInv, TypeOK, Messages
    <2>2. StreamInv'
        BY <1>1 DEF IInv, StreamInv
    <2> QED
        BY <1>0, <1>1, <2>1, <2>2 DEF IInv
<1>2. ASSUME NEW m \in Messages, NEW k \in 1 .. Len(Packet(m)),
             UNCHANGED <<side, buf, got, user>>,
             side = "request" => k = Len(Packet(m)),
             writes < MaxWrites, writes' = writes + 1,
             stream' = stream \o Piece(m, k, writes + 1)
      PROVE  IInv' /\ Len(stream') >= Len(stream)
    <2> DEFINE v == writes + 1
    <2>1. m \in Sent /\ v \in 1 .. MaxWrites /\ v - 1 = writes /\ v = writes'
        BY <1>0, <1>2, WireAssumption DEF Messages, Sent
    <2>2. Len(stream) > 0 => stream[Len(stream)].nr = v - 1
        BY <2>1 DEF IInv, StreamInv
    <2>3. stream' = stream \o Piece(m, k, v)
        BY <1>2
    <2>4. Numbered(stream)
        BY DEF IInv, StreamInv
    <2> HIDE DEF v
    <2>5. /\ Numbered(stream') /\ Len(stream') = Len(stream) + k
          /\ \A i \in 1 .. Len(stream) : stream'[i] = stream[i] /\ stream[i].nr < v
          /\ \A i \in Len(stream) + 1 .. Len(stream) + k :
                stream'[i].of = m /\ stream'[i].at = i - Len(stream) /\ stream'[i].nr = v
        <3>1. Appended(stream, m, k, v, stream')
            BY <1>2, <2>1, <2>2, <2>3, <2>4, Written
        <3> QED
            BY <3>1 DEF Appended
    <2>6. k \in Nat /\ k >= 1 /\ Len(stream') >= Len(stream)
        <3>1. Len(Packet(m)) \in Nat
            BY <2>1, PacketBytes, WireAssumption DEF Sent
        <3> QED
            BY <1>0, <2>5, <3>1
    <2>7. stream'[Len(stream')].nr = writes'
        <3>1. Len(stream) + k \in Len(stream) + 1 .. Len(stream) + k
            BY <1>0, <2>6
        <3>2. stream'[Len(stream) + k].nr = v
            BY <2>5, <3>1
        <3> QED
            BY <2>1, <2>5, <3>2
    <2>8. side = "request" => Whole(stream')
        <3> SUFFICES ASSUME side = "request" PROVE Whole(stream')
            OBVIOUS
        <3>1. k = Len(Packet(m)) /\ Whole(stream)
            BY <1>2 DEF IInv, StreamInv
        <3>2. Whole(stream \o Piece(m, Len(Packet(m)), v))
            BY <2>1, <2>2, <2>4, <3>1, WholeAfter
        <3> QED
            BY <2>3, <3>1, <3>2
    <2>9. StreamInv'
        BY <1>2, <2>5, <2>7, <2>8 DEF StreamInv
    <2>10. stream' \in Seq([of : Messages, at : 1 .. N, nr : 1 .. MaxWrites])
        <3> DEFINE B == [of : Messages, at : 1 .. N, nr : 1 .. MaxWrites]
        <3>1. stream \in Seq(B) /\ stream' \in Seq(Bytes) /\ Len(stream') = Len(stream) + k
            BY <2>5 DEF IInv, TypeOK, Numbered
        <3>2. ASSUME NEW i \in 1 .. Len(stream')
              PROVE  stream'[i] \in B
            <4>1. stream'[i] \in Bytes
                BY <3>1, ElementOfSeq
            <4>2. stream'[i].of \in Messages
                <5>1. CASE i \in 1 .. Len(stream)
                    <6>1. stream[i] \in B
                        BY <3>1, <5>1, ElementOfSeq
                    <6> QED
                        BY <2>5, <5>1, <6>1
                <5>2. CASE i \in Len(stream) + 1 .. Len(stream) + k
                    BY <2>5, <5>2
                <5>3. i \in 1 .. Len(stream) \/ i \in Len(stream) + 1 .. Len(stream) + k
                    BY <1>0, <2>6, <3>1
                <5> QED
                    BY <5>1, <5>2, <5>3
            <4> QED
                BY <4>1, <4>2 DEF Bytes
        <3> HIDE DEF B
        <3>3. stream' \in Seq(B)
            BY <3>1, <3>2, SeqOfWider
        <3> QED
            BY <3>3 DEF B
    <2>11. TypeOK'
        <3>1. Messages' = Messages /\ writes' \in 0 .. MaxWrites
            BY <1>2, <2>1 DEF Messages
        <3> QED
            BY <1>2, <2>10, <3>1 DEF IInv, TypeOK
    <2> QED
        BY <2>6, <2>9, <2>11 DEF IInv
<1> QED
    BY <1>1, <1>2, SendStep

LEMMA ReceiveIInv ==
    ASSUME IInv, NEW k \in 1 .. N, Receive(k)
    PROVE  /\ IInv'
           /\ Len(stream) - Len(stream') = k
<1> DEFINE B == [of : Messages, at : 1 .. N, nr : 1 .. MaxWrites]
           L == Len(stream)
<1>1. stream \in Seq(B) /\ L \in Nat /\ N \in Nat
    BY WireAssumption DEF IInv, TypeOK
<1>2. k \in Nat /\ k >= 1 /\ k <= L /\ k \in 1 .. L
    BY <1>1, BufferRead
<1>3. stream' = SubSeq(stream, k + 1, L) /\ UNCHANGED <<side, writes>>
    BY DEF Receive
<1> HIDE DEF B
<1>4. stream' \in Seq(B)
    <2>1. k + 1 \in Nat \ {0} /\ L \in 0 .. Len(stream)
        BY <1>1, <1>2
    <2> QED
        BY <1>1, <1>3, <2>1, PartOfSeq
<1>5. /\ Numbered(stream') /\ Len(stream') = L - k
      /\ \A i \in 1 .. L - k : stream'[i] = stream[i + k] /\ i + k \in 1 .. L
    BY <1>2, <1>3, Rest DEF IInv, StreamInv
<1> HIDE DEF L
<1>6. StreamInv'
    <2>1. Len(stream') > 0 => stream'[Len(stream')].nr = writes'
        <3> SUFFICES ASSUME Len(stream') > 0
                     PROVE  stream'[Len(stream')].nr = writes'
            OBVIOUS
        <3>1. L - k \in 1 .. L - k /\ (L - k) + k = L /\ L > 0
            BY <1>1, <1>2, <1>5
        <3>2. stream'[L - k] = stream[L]
            BY <1>5, <3>1
        <3> QED
            BY <1>3, <1>5, <3>1, <3>2 DEF IInv, StreamInv, L
    <2>2. side' = "request" => Whole(stream')
        BY <1>2, <1>3, WholeAfter DEF IInv, StreamInv, L
    <2> QED
        BY <1>5, <2>1, <2>2 DEF StreamInv
<1>7. got' = NULL \/ (/\ got'.type \in ToSet(Types)
                      /\ got'.data \in [1 .. N - 2 -> 0 .. 255]
                      /\ got'.data \in Seq(0 .. 255))
    <2>1. CASE k < 2
        BY <2>1 DEF Receive
    <2>2. CASE ~(k < 2)
        <3>1. k \in 2 .. N
            BY <1>1, <1>2, <2>2
        <3>2. PICK payload \in [1 .. N -> 0 .. 255] : got' = ParsePacket(payload)
            BY <3>1, MessageRead
        <3> QED
            BY <3>2, PacketParsed
    <2> QED
        BY <2>1, <2>2
<1>8. user'.name \in Seq(1 .. 255) /\ user'.password \in Seq(1 .. 255)
    <2>1. user.name \in Seq(1 .. 255) /\ user.password \in Seq(1 .. 255)
        BY DEF IInv, TypeOK
    <2>2. CASE user' = user
        BY <2>1, <2>2
    <2>3. CASE got' # NULL /\ GetUsernamePassword(got'.data)
        BY <1>7, <2>1, <2>3, UserType
    <2> QED
        BY <2>2, <2>3 DEF Receive
<1>9. TypeOK'
    <2>1. buf' \in [1 .. N -> 0 .. 255]
        BY BufferRead
    <2>2. stream' \in Seq([of : Messages', at : 1 .. N, nr : 1 .. MaxWrites])
        BY <1>3, <1>4 DEF B, Messages
    <2>3. side' \in {"request", "reply"} /\ writes' \in 0 .. MaxWrites
        BY <1>3 DEF IInv, TypeOK
    <2> QED
        BY <1>7, <1>8, <2>1, <2>2, <2>3 DEF TypeOK
<1>10. L - (L - k) = k
    BY <1>1, <1>2
<1> QED
    BY <1>5, <1>6, <1>9, <1>10 DEF IInv, L

LEMMA NextIInv == IInv /\ [Next]_vars => IInv'
<1> SUFFICES ASSUME IInv, [Next]_vars PROVE IInv'
    OBVIOUS
<1>1. CASE Send
    BY <1>1, SendIInv
<1>2. ASSUME NEW k \in 1 .. N, Receive(k) PROVE IInv'
    BY <1>2, ReceiveIInv
<1>3. CASE UNCHANGED vars
    BY <1>3 DEF vars, IInv, TypeOK, StreamInv, Messages
<1> QED
    BY <1>1, <1>2, <1>3 DEF Next

LEMMA Invariance == Spec => []IInv
    BY InitIInv, NextIInv, PTL DEF Spec

(* Whatever is written and wherever the reads end: the type of a message   *)
(* is one of message_types, its data are the bytes behind it in the        *)
(* payload, and a user_t holds strings (message.c:88-95, 167-175).          *)
THEOREM TypeCorrect == Spec => []TypeOK
    BY Invariance, PTL DEF IInv

(* A read that begins inside a packet reaches no handler: its second byte  *)
(* is printable, the version of the packet behind it, or a NUL, and none   *)
(* of them is the number of a type (message.c:167-175, packet.c:49-55).     *)
THEOREM TornTheorem == Spec => TornPacketsReachNobody
<1> DEFINE A == IsRead /\ stream[1].at > 1 => got' = NULL \/ got'.type \in Unhandled
<1>1. ASSUME IInv, [Next]_vars PROVE [A]_vars
    <2>1. CASE Send
        <3>1. Len(stream') >= Len(stream)
            BY <2>1, <1>1, SendIInv
        <3>2. Len(stream) \in Nat /\ Len(stream') \in Nat
            BY <2>1, <1>1, SendIInv DEF IInv, TypeOK
        <3> QED
            BY <3>1, <3>2 DEF IsRead
    <2>2. ASSUME NEW k \in 1 .. N, Receive(k), stream[1].at > 1
          PROVE  got' = NULL \/ got'.type \in Unhandled
        <3>1. CASE k < 2
            BY <2>2, <3>1 DEF Receive
        <3>2. CASE ~(k < 2)
            <4>1. k \in 2 .. N /\ N \in Nat /\ N > 3
                BY <3>2, WireAssumption
            <4>2. PICK payload \in [1 .. N -> 0 .. 255] :
                      /\ got' = ParsePacket(payload)
                      /\ \A i \in 1 .. N - 1 : payload[i] = 0 \/ payload[i] = buf'[i]
                BY <1>1, <2>2, <4>1, MessageRead
            <4>3. buf'[2] = Byte(stream[2]) /\ k <= Len(stream)
                BY <1>1, <2>2, <4>1, BufferRead
            <4>4. 2 \in 1 .. Len(stream) /\ 1 \in 1 .. Len(stream) - 1
                BY <1>1, <4>1, <4>3 DEF IInv, TypeOK
            <4>5. stream[1 + 1].at = 1 \/ stream[1 + 1].at = stream[1].at + 1
                BY <1>1, <4>4, Neighbours DEF IInv, StreamInv
            <4>6. stream[1].at \in Nat
                BY <1>1, <4>4, StreamBytes
            <4>7. stream[2].at = 1 \/ stream[2].at > 2
                BY <2>2, <4>5, <4>6
            <4>8. Byte(stream[2]) = 49 \/ Byte(stream[2]) >= 32
                BY <1>1, <4>4, <4>7, StreamBytes
            <4>9. payload[2] = 0 \/ payload[2] = Byte(stream[2])
                BY <4>1, <4>2, <4>3
            <4> DEFINE b == Byte(stream[2])
            <4>10. b \in 0 .. 255
                BY <1>1, <4>4, StreamBytes
            <4>11. b >= 30
                <5> HIDE DEF b
                <5>1. b = 49 \/ b >= 32
                    BY <4>8 DEF b
                <5> QED
                    BY <4>10, <5>1
            <4>12. payload[2] = 0 \/ payload[2] >= 30
                BY <4>9, <4>11
            <4> QED
                BY <4>2, <4>12, PacketParsed
        <3> QED
            BY <3>1, <3>2
    <2>3. CASE UNCHANGED vars
        BY <2>3
    <2> QED
        BY <1>1, <2>1, <2>2, <2>3 DEF Next
<1> QED
    BY Invariance, <1>1, PTL DEF Spec, TornPacketsReachNobody

(* What a handler takes for data ends where the read ended: the cleared    *)
(* buffer puts a NUL behind the last byte read, and strncpy stops there    *)
(* (daemon.c:398-401, packet.c:49-55), unless the read filled the buffer    *)
(* but for one byte.                                                       *)
THEOREM DataEndsTheorem == Spec => DataEndsWithRead
<1> DEFINE A == IsRead /\ got' # NULL =>
                   LET k == Len(stream) - Len(stream')
                   IN  k >= N - 1 \/ Len(CString(got'.data)) <= k - 2
<1>1. ASSUME IInv, [Next]_vars PROVE [A]_vars
    <2>1. CASE Send
        <3>1. Len(stream') >= Len(stream)
            BY <2>1, <1>1, SendIInv
        <3>2. Len(stream) \in Nat /\ Len(stream') \in Nat
            BY <2>1, <1>1, SendIInv DEF IInv, TypeOK
        <3> QED
            BY <3>1, <3>2 DEF IsRead
    <2>2. ASSUME NEW k \in 1 .. N, Receive(k), got' # NULL
          PROVE  k >= N - 1 \/ Len(CString(got'.data)) <= k - 2
        <3>1. ~(k < 2)
            BY <2>2 DEF Receive
        <3>2. k \in 2 .. N /\ N \in Nat /\ N > 3 /\ k \in Nat
            BY <3>1, WireAssumption
        <3> SUFFICES ASSUME ~(k >= N - 1)
                     PROVE  Len(CString(got'.data)) <= k - 2
            OBVIOUS
        <3>3. PICK payload \in [1 .. N -> 0 .. 255] :
                  /\ got' = ParsePacket(payload)
                  /\ \A i \in 1 .. N - 1 : buf'[i] = 0 => payload[i] = 0
            BY <1>1, <2>2, <3>2, MessageRead
        <3>4. k + 1 \in 1 .. N - 1 /\ k + 1 \in 1 .. N /\ ~(k + 1 <= k)
            BY <3>2
        <3>5. buf'[k + 1] = 0
            BY <1>1, <2>2, <3>4, BufferRead
        <3>6. payload[k + 1] = 0
            BY <3>3, <3>4, <3>5
        <3>7. k - 1 \in 1 .. N - 2 /\ (k - 1) + 2 = k + 1
            BY <3>2
        <3> DEFINE data == got'.data
        <3>8. data \in Seq(0 .. 255) /\ Len(data) = N - 2
            BY <3>3, PacketParsed
        <3>9. data[k - 1] = payload[(k - 1) + 2]
            BY <3>3, <3>7, PacketParsed
        <3> HIDE DEF data
        <3>10. data[k - 1] = 0 /\ k - 1 \in 1 .. Len(data)
            BY <3>6, <3>7, <3>8, <3>9
        <3>11. Len(CString(data)) < k - 1 /\ CString(data) \in Seq(1 .. 255)
            BY <3>8, <3>10, CStringType
        <3>12. Len(CString(data)) \in Nat
            BY <3>11
        <3>13. Len(CString(data)) <= k - 2
            BY <3>2, <3>11, <3>12
        <3> QED
            BY <3>13 DEF data
    <2>3. CASE UNCHANGED vars
        BY <2>3
    <2>4. ASSUME NEW k \in 1 .. N, Receive(k) PROVE A
        <3>1. Len(stream) - Len(stream') = k
            BY <1>1, <2>4, ReceiveIInv
        <3> QED
            BY <2>2, <2>4, <3>1
    <2> QED
        BY <1>1, <2>1, <2>3, <2>4 DEF Next
<1> QED
    BY Invariance, <1>1, PTL DEF Spec, DataEndsWithRead

-----------------------------------------------------------------------------
(* The queue of messages that the stream stands for.                       *)
Entries == [of : Sent, head : BOOLEAN, tail : BOOLEAN]

(* Byte i's message: whole or not, as far as it is in s.                   *)
Entry(s, i) ==
    [of |-> s[i].of,
     head |-> \E j \in 1 .. Len(s) : s[j].nr = s[i].nr /\ s[j].at = 1,
     tail |-> \E j \in 1 .. Len(s) :
                 s[j].nr = s[i].nr /\ s[j].at = Len(Packet(s[i].of))]

Place(s, i) == s[i].nr - s[1].nr + 1

LEMMA Ascending ==
    ASSUME NEW s, Numbered(s), NEW i \in 1 .. Len(s), NEW j \in 1 .. Len(s), i <= j
    PROVE  s[i].nr <= s[j].nr
<1>1. i < j => s[i].nr <= s[j].nr
    BY DEF Numbered
<1>2. s[i].nr \in Nat /\ i \in Nat /\ j \in Nat
    BY OfBytes
<1>3. i = j => s[i].nr <= s[j].nr
    BY <1>2
<1> QED
    BY <1>1, <1>2, <1>3

LEMMA SameWrite ==
    ASSUME NEW s, Numbered(s), NEW i \in 1 .. Len(s), NEW j \in 1 .. Len(s),
           s[i].nr = s[j].nr
    PROVE  s[i].of = s[j].of /\ s[j].at = s[i].at + (j - i)
<1>1. i \in Nat /\ j \in Nat /\ s[i].at \in Nat /\ s[j].at \in Nat
    BY OfBytes
<1>2. CASE i < j
    BY <1>2 DEF Numbered
<1>3. CASE j < i
    <2>1. s[j].of = s[i].of /\ s[i].at = s[j].at + (i - j)
        BY <1>3 DEF Numbered
    <2> DEFINE x == s[i].at
               y == s[j].at
    <2>2. x = y + (i - j) /\ x \in Nat /\ y \in Nat
        BY <1>1, <2>1
    <2> HIDE DEF x, y
    <2>3. y = x + (j - i)
        BY <1>1, <2>2
    <2> QED
        BY <2>1, <2>3 DEF x, y
<1>4. CASE i = j
    <2> DEFINE x == s[i].at
    <2>1. x \in Nat /\ s[j].at = x
        BY <1>1, <1>4
    <2> HIDE DEF x
    <2>2. x = x + (j - i)
        BY <1>1, <1>4, <2>1
    <2> QED
        BY <1>4, <2>1, <2>2 DEF x
<1> QED
    BY <1>1, <1>2, <1>3, <1>4

(* No number is left out.                                                  *)
LEMMA Reached ==
    ASSUME NEW s, Numbered(s), NEW v \in Nat, Len(s) > 0,
           s[1].nr <= v, v <= s[Len(s)].nr
    PROVE  \E i \in 1 .. Len(s) : s[i].nr = v
<1> DEFINE later == {i \in 1 .. Len(s) : s[i].nr >= v}
<1>1. Len(s) \in Nat /\ 1 \in 1 .. Len(s) /\ Len(s) \in 1 .. Len(s)
    BY DEF Numbered
<1>2. later # {} /\ later \subseteq Nat
    <2>1. s[Len(s)].nr >= v
        <3> DEFINE x == s[Len(s)].nr
        <3>1. x \in Nat /\ v <= x
            BY <1>1, OfBytes
        <3> HIDE DEF x
        <3>2. x >= v
            BY <3>1
        <3> QED
            BY <3>2 DEF x
    <2> QED
        BY <1>1, <2>1
<1>3. PICK i \in later : \A j \in later : i <= j
    <2> HIDE DEF later
    <2> QED
        BY <1>2, MinOf
<1>4. i \in 1 .. Len(s) /\ s[i].nr >= v /\ s[i].nr \in Nat
    BY OfBytes
<1>5. CASE i = 1
    <2> DEFINE x == s[i].nr
    <2>1. x \in Nat /\ x >= v /\ x <= v
        BY <1>4, <1>5
    <2> HIDE DEF x
    <2>2. x = v
        BY <2>1
    <2> QED
        BY <1>4, <2>2 DEF x
<1>6. CASE i # 1
    <2>1. i - 1 \in 1 .. Len(s) - 1 /\ i - 1 \in 1 .. Len(s) /\ (i - 1) + 1 = i /\ ~(i <= i - 1)
        BY <1>1, <1>4, <1>6
    <2>2. ~(s[i - 1].nr >= v)
        BY <1>3, <2>1
    <2>3. s[(i - 1) + 1].nr = s[i - 1].nr \/ s[(i - 1) + 1].nr = s[i - 1].nr + 1
        BY <2>1 DEF Numbered
    <2> DEFINE x == s[i].nr
               y == s[i - 1].nr
    <2>4. y \in Nat
        BY <2>1, OfBytes
    <2>5. x = y \/ x = y + 1
        BY <2>1, <2>3
    <2>6. x \in Nat /\ x >= v /\ ~(y >= v)
        BY <1>4, <2>2
    <2> HIDE DEF x, y
    <2>7. x = v
        BY <2>4, <2>5, <2>6
    <2> QED
        BY <1>4, <2>7 DEF x
<1> QED
    BY <1>5, <1>6

LEMMA PlaceType ==
    ASSUME NEW s, Numbered(s), NEW i \in 1 .. Len(s)
    PROVE  /\ Place(s, i) \in 1 .. Place(s, Len(s))
           /\ Place(s, Len(s)) \in Nat
<1>1. Len(s) \in Nat /\ 1 \in 1 .. Len(s) /\ Len(s) \in 1 .. Len(s) /\ 1 <= i /\ i <= Len(s)
    BY DEF Numbered
<1> DEFINE x == s[1].nr
           y == s[i].nr
           z == s[Len(s)].nr
<1>2. x \in Nat /\ y \in Nat /\ z \in Nat
    BY <1>1, OfBytes
<1>3. x <= y
    BY <1>1, Ascending
<1>4. y <= z
    BY <1>1, Ascending
<1>5. Place(s, i) = y - x + 1 /\ Place(s, Len(s)) = z - x + 1
    BY DEF Place
<1> HIDE DEF x, y, z
<1> QED
    BY <1>2, <1>3, <1>4, <1>5

LEMMA QueueOf ==
    ASSUME NEW s, Numbered(s), Len(s) > 0
    PROVE  /\ Queue(s) \in Seq(Entries) /\ Len(Queue(s)) = Place(s, Len(s))
           /\ \A i \in 1 .. Len(s) : Queue(s)[Place(s, i)] = Entry(s, i)
<1>1. /\ s \in Seq(Bytes) /\ Len(s) \in Nat /\ Len(s) \in 1 .. Len(s) /\ 1 \in 1 .. Len(s)
      /\ DOMAIN s = 1 .. Len(s)
    BY DEF Numbered
<1> DEFINE R == Place(s, Len(s))
           piece(w) == [of |-> (CHOOSE b \in Part(s, w) : TRUE).of,
                        head |-> \E b \in Part(s, w) : b.at = 1,
                        tail |-> \E b \in Part(s, w) : b.at = Len(Packet(b.of))]
<1>2. R \in Nat /\ R >= 1
    BY <1>1, PlaceType
<1>3. Queue(s) = [w \in 1 .. R |-> piece(w)]
    <2>1. s # <<>>
        BY <1>1
    <2> QED
        BY <2>1 DEF Queue, Place, Last
<1>4. ASSUME NEW i \in 1 .. Len(s)
      PROVE  piece(Place(s, i)) = Entry(s, i) /\ Entry(s, i) \in Entries
    <2> DEFINE w == Place(s, i)
               P == Part(s, w)
    <2>1. P = {b \in ToSet(s) : b.nr = s[i].nr}
        <3> DEFINE x == s[1].nr
                   y == s[i].nr
        <3>1. x \in Nat /\ y \in Nat
            BY <1>1, OfBytes
        <3>2. P = {b \in ToSet(s) : b.nr = x + (y - x + 1) - 1}
            BY DEF Part, Place
        <3> HIDE DEF x, y
        <3>3. x + (y - x + 1) - 1 = y
            BY <3>1
        <3> HIDE DEF P
        <3>4. P = {b \in ToSet(s) : b.nr = y}
            BY <3>2, <3>3
        <3> QED
            BY <3>4 DEF y, P
    <2> HIDE DEF P
    <2>2. \A j \in 1 .. Len(s) : s[j].nr = s[i].nr <=> s[j] \in P
        BY <1>1, <2>1 DEF ToSet
    <2>3. \A b \in P : \E j \in 1 .. Len(s) : b = s[j] /\ s[j].nr = s[i].nr
        BY <1>1, <2>1 DEF ToSet
    <2>4. \A b \in P : b.of = s[i].of
        <3> SUFFICES ASSUME NEW b \in P PROVE b.of = s[i].of
            OBVIOUS
        <3>1. PICK j \in 1 .. Len(s) : b = s[j] /\ s[j].nr = s[i].nr
            BY <2>3
        <3> QED
            BY <3>1, SameWrite
    <2>5. (CHOOSE b \in P : TRUE).of = s[i].of
        <3>1. s[i] \in P
            BY <2>2
        <3>2. (CHOOSE b \in P : TRUE) \in P
            BY <3>1
        <3> QED
            BY <2>4, <3>2
    <2>6. (\E b \in P : b.at = 1) <=> \E j \in 1 .. Len(s) : s[j].nr = s[i].nr /\ s[j].at = 1
        BY <2>2, <2>3
    <2>7. (\E b \in P : b.at = Len(Packet(b.of)))
              <=> \E j \in 1 .. Len(s) : s[j].nr = s[i].nr /\ s[j].at = Len(Packet(s[i].of))
        <3>1. (\E b \in P : b.at = Len(Packet(b.of))) <=> \E b \in P : b.at = Len(Packet(s[i].of))
            BY <2>4
        <3>2. (\E b \in P : b.at = Len(Packet(s[i].of)))
                  <=> \E j \in 1 .. Len(s) : s[j].nr = s[i].nr /\ s[j].at = Len(Packet(s[i].of))
            BY <2>2, <2>3
        <3> QED
            BY <3>1, <3>2
    <2>8. piece(w) = [of |-> (CHOOSE b \in P : TRUE).of,
                      head |-> \E b \in P : b.at = 1,
                      tail |-> \E b \in P : b.at = Len(Packet(b.of))]
        BY DEF P
    <2>9. piece(w) = Entry(s, i)
        BY <2>5, <2>6, <2>7, <2>8 DEF Entry
    <2>10. Entry(s, i) \in Entries
        BY OfBytes DEF Entry, Entries
    <2> QED
        BY <2>9, <2>10
<1> HIDE DEF piece
<1>5. ASSUME NEW w \in 1 .. R
      PROVE  piece(w) \in Entries
    <2> DEFINE x == s[1].nr
               z == s[Len(s)].nr
    <2>1. x \in Nat /\ z \in Nat /\ R = z - x + 1
        BY <1>1, OfBytes DEF Place
    <2> HIDE DEF x, z, R
    <2> DEFINE v == x + w - 1
    <2>2. v \in Nat /\ x <= v /\ v <= z /\ v - x + 1 = w
        BY <2>1
    <2> HIDE DEF v
    <2>3. PICK i \in 1 .. Len(s) : s[i].nr = v
        BY <2>2, Reached DEF x, z
    <2>4. Place(s, i) = w
        BY <2>2, <2>3 DEF Place, x
    <2> QED
        BY <1>4, <2>4
<1> HIDE DEF R
<1>6. Queue(s) \in Seq(Entries) /\ Len(Queue(s)) = R
    <2>1. [w \in 1 .. R |-> piece(w)] \in [1 .. R -> Entries]
        BY <1>5
    <2>2. Queue(s) \in [1 .. R -> Entries]
        BY <1>3, <2>1
    <2>3. Queue(s) \in Seq(Entries)
        BY <1>2, <2>2, SeqDef
    <2>4. Len(Queue(s)) = R
        BY <1>2, <2>2, <2>3
    <2> QED
        BY <2>3, <2>4
<1>7. ASSUME NEW i \in 1 .. Len(s)
      PROVE  Queue(s)[Place(s, i)] = Entry(s, i)
    <2>1. Place(s, i) \in 1 .. R
        BY PlaceType DEF R
    <2> QED
        BY <1>3, <1>4, <2>1
<1> QED
    BY <1>6, <1>7 DEF R

(* Nothing but the queue has these entries.                                *)
LEMMA QueueIs ==
    ASSUME NEW s, Numbered(s), Len(s) > 0, NEW q \in Seq(Entries),
           Len(q) = Place(s, Len(s)),
           \A i \in 1 .. Len(s) : q[Place(s, i)] = Entry(s, i)
    PROVE  Queue(s) = q
<1>1. /\ Queue(s) \in Seq(Entries) /\ Len(Queue(s)) = Place(s, Len(s))
      /\ \A i \in 1 .. Len(s) : Queue(s)[Place(s, i)] = Entry(s, i)
    BY QueueOf
<1>2. Len(s) \in Nat /\ 1 \in 1 .. Len(s) /\ Len(s) \in 1 .. Len(s)
    BY DEF Numbered
<1>3. ASSUME NEW w \in 1 .. Len(q)
      PROVE  Queue(s)[w] = q[w]
    <2> DEFINE x == s[1].nr
               z == s[Len(s)].nr
    <2>1. x \in Nat /\ z \in Nat /\ Len(q) = z - x + 1
        BY <1>2, OfBytes DEF Place
    <2> HIDE DEF x, z
    <2> DEFINE v == x + w - 1
    <2>2. v \in Nat /\ x <= v /\ v <= z /\ v - x + 1 = w
        BY <2>1
    <2> HIDE DEF v
    <2>3. PICK i \in 1 .. Len(s) : s[i].nr = v
        BY <1>2, <2>2, Reached DEF x, z
    <2>4. Place(s, i) = w
        BY <2>2, <2>3 DEF Place, x
    <2> QED
        BY <1>1, <2>4
<1> QED
    BY <1>1, <1>3, SeqEqual

(* A write appends a message, whole or short.                              *)
LEMMA QueueWritten ==
    ASSUME NEW s, Numbered(s), NEW m \in Sent, NEW k \in 1 .. Len(Packet(m)),
           NEW v \in 1 .. MaxWrites, Len(s) > 0 => s[Len(s)].nr = v - 1
    PROVE  Queue(s \o Piece(m, k, v)) =
               Append(Queue(s), [of |-> m, head |-> TRUE, tail |-> k = Len(Packet(m))])
<1> DEFINE t == s \o Piece(m, k, v)
           L == Len(s)
           e == [of |-> m, head |-> TRUE, tail |-> k = Len(Packet(m))]
<1>1. Appended(s, m, k, v, t)
    BY Written
<1>2. s \in Seq(Bytes) /\ L \in Nat /\ v \in Nat
    BY WireAssumption DEF Numbered
<1>3. k \in Nat /\ k >= 1 /\ k <= Len(Packet(m)) /\ Len(Packet(m)) \in Nat
    <2>1. Len(Packet(m)) \in 2 .. N - 2 /\ N \in Nat
        BY PacketBytes, WireAssumption DEF Sent
    <2> QED
        BY <2>1
<1> HIDE DEF t
<1>4. Numbered(t) /\ Len(t) = L + k
    BY <1>1 DEF Appended
<1>5. \A i \in 1 .. L : t[i] = s[i] /\ s[i].nr < v /\ s[i].nr \in Nat
    BY <1>1, OfBytes DEF Appended
<1>6. \A i \in L + 1 .. L + k : t[i].of = m /\ t[i].at = i - L /\ t[i].nr = v
    BY <1>1 DEF Appended
<1>7. \A i \in 1 .. Len(t) : i \in 1 .. L \/ i \in L + 1 .. L + k
    BY <1>2, <1>3, <1>4
<1>8. L + 1 \in L + 1 .. L + k /\ L + k \in L + 1 .. L + k
    BY <1>2, <1>3
<1>9. \A i \in L + 1 .. L + k : i \in 1 .. Len(t) /\ i - L \in 1 .. k
    BY <1>2, <1>3, <1>4
<1>10. \A i \in 1 .. L : i \in 1 .. Len(t)
    BY <1>2, <1>3, <1>4
<1>11. ASSUME NEW i \in 1 .. L, NEW j \in 1 .. Len(t), t[j].nr = t[i].nr
       PROVE  j \in 1 .. L
    <2> DEFINE x == t[i].nr
    <2>1. x \in Nat /\ x < v
        BY <1>5
    <2> HIDE DEF x
    <2>2. x # v
        BY <1>2, <2>1
    <2>3. j \notin L + 1 .. L + k
        BY <1>6, <1>11, <2>2 DEF x
    <2> QED
        BY <1>7, <2>3
<1> HIDE DEF L
<1>12. ASSUME NEW i \in 1 .. L
       PROVE  Entry(t, i) = Entry(s, i)
    <2>1. t[i] = s[i]
        BY <1>5
    <2>2. ASSUME NEW a
          PROVE  (\E j \in 1 .. Len(t) : t[j].nr = t[i].nr /\ t[j].at = a)
                     <=> (\E j \in 1 .. L : s[j].nr = s[i].nr /\ s[j].at = a)
        <3>1. ASSUME NEW j \in 1 .. Len(t), t[j].nr = t[i].nr, t[j].at = a
              PROVE  \E h \in 1 .. L : s[h].nr = s[i].nr /\ s[h].at = a
            <4>1. j \in 1 .. L
                BY <1>11, <3>1
            <4>2. t[j] = s[j]
                BY <1>5, <4>1
            <4> QED
                BY <2>1, <3>1, <4>1, <4>2
        <3>2. ASSUME NEW j \in 1 .. L, s[j].nr = s[i].nr, s[j].at = a
              PROVE  \E h \in 1 .. Len(t) : t[h].nr = t[i].nr /\ t[h].at = a
            <4>1. t[j] = s[j] /\ j \in 1 .. Len(t)
                BY <1>5, <1>10
            <4> QED
                BY <2>1, <3>2, <4>1
        <3> QED
            BY <3>1, <3>2
    <2>3. (\E j \in 1 .. Len(t) : t[j].nr = t[i].nr /\ t[j].at = 1)
              <=> (\E j \in 1 .. L : s[j].nr = s[i].nr /\ s[j].at = 1)
        BY <2>2
    <2>4. (\E j \in 1 .. Len(t) : t[j].nr = t[i].nr /\ t[j].at = Len(Packet(t[i].of)))
              <=> (\E j \in 1 .. L : s[j].nr = s[i].nr /\ s[j].at = Len(Packet(s[i].of)))
        <3> DEFINE z == Len(Packet(s[i].of))
        <3>1. Len(Packet(t[i].of)) = z
            BY <2>1
        <3> HIDE DEF z
        <3>2. (\E j \in 1 .. Len(t) : t[j].nr = t[i].nr /\ t[j].at = z)
                  <=> (\E j \in 1 .. L : s[j].nr = s[i].nr /\ s[j].at = z)
            BY <2>2
        <3> QED
            BY <3>1, <3>2 DEF z
    <2> QED
        BY <2>1, <2>3, <2>4 DEF Entry, L
<1>13. ASSUME NEW i \in L + 1 .. L + k
       PROVE  Entry(t, i) = e
    <2>1. t[i].of = m /\ t[i].nr = v
        BY <1>6
    <2>2. \E j \in 1 .. Len(t) : t[j].nr = t[i].nr /\ t[j].at = 1
        <3>1. t[L + 1].nr = v /\ t[L + 1].at = (L + 1) - L
            BY <1>6, <1>8
        <3>2. (L + 1) - L = 1 /\ L + 1 \in 1 .. Len(t)
            BY <1>2, <1>8, <1>9 DEF L
        <3> QED
            BY <2>1, <3>1, <3>2
    <2>3. (\E j \in 1 .. Len(t) : t[j].nr = t[i].nr /\ t[j].at = Len(Packet(m)))
              <=> k = Len(Packet(m))
        <3>1. ASSUME k = Len(Packet(m))
              PROVE  \E j \in 1 .. Len(t) : t[j].nr = t[i].nr /\ t[j].at = Len(Packet(m))
            <4>1. t[L + k].nr = v /\ t[L + k].at = (L + k) - L
                BY <1>6, <1>8
            <4>2. (L + k) - L = k /\ L + k \in 1 .. Len(t)
                BY <1>2, <1>3, <1>8, <1>9 DEF L
            <4> QED
                BY <2>1, <3>1, <4>1, <4>2
        <3>2. ASSUME NEW j \in 1 .. Len(t), t[j].nr = t[i].nr, t[j].at = Len(Packet(m))
              PROVE  k = Len(Packet(m))
            <4>1. j \notin 1 .. L
                <5> SUFFICES ASSUME j \in 1 .. L PROVE FALSE
                    OBVIOUS
                <5> DEFINE x == t[j].nr
                <5>1. x \in Nat /\ x < v /\ x = v
                    BY <1>5, <2>1, <3>2
                <5> HIDE DEF x
                <5> QED
                    BY <1>2, <5>1
            <4>2. j \in L + 1 .. L + k
                BY <1>7, <4>1
            <4>3. t[j].at = j - L /\ j - L \in 1 .. k
                BY <1>6, <1>9, <4>2
            <4> DEFINE x == j - L
                       y == Len(Packet(m))
            <4>4. x \in 1 .. k /\ x = y
                BY <3>2, <4>3
            <4> HIDE DEF x
            <4> QED
                BY <1>3, <4>4
        <3> QED
            BY <3>1, <3>2
    <2> QED
        BY <2>1, <2>2, <2>3 DEF Entry
<1> DEFINE q == Append(Queue(s), e)
<1>14. Queue(s) \in Seq(Entries) /\ e \in Entries
    <2>1. Len(s) = 0 => s = <<>>
        BY <1>2, EmptySeq
    <2>2. s = <<>> => Queue(s) = <<>>
        BY DEF Queue
    <2>3. Len(s) > 0 => Queue(s) \in Seq(Entries)
        BY QueueOf DEF Numbered
    <2>4. Len(s) = 0 \/ Len(s) > 0
        BY <1>2 DEF L
    <2>5. e \in Entries
        BY DEF Entries
    <2> HIDE DEF e
    <2>6. Queue(s) \in Seq(Entries)
        BY <2>1, <2>2, <2>3, <2>4, EmptySeq
    <2> QED
        BY <2>5, <2>6
<1>15. CASE L = 0
    <2>1. s = <<>> /\ Queue(s) = <<>>
        <3>1. s = <<>>
            BY <1>2, <1>15, EmptySeq DEF L
        <3> QED
            BY <3>1 DEF Queue
    <2> HIDE DEF e
    <2>2. Len(q) = 1 /\ q[1] = e
        <3>1. Len(Queue(s)) = 0
            BY <2>1
        <3> QED
            BY <1>14, <3>1, AppendProperties
    <2>3. ASSUME NEW i \in 1 .. Len(t)
          PROVE  Place(t, i) = 1 /\ Entry(t, i) = e
        <3>1. i \in L + 1 .. L + k /\ 1 \in L + 1 .. L + k
            BY <1>3, <1>4, <1>15
        <3>2. t[i].nr = v /\ t[1].nr = v
            BY <1>6, <3>1
        <3>3. v - v + 1 = 1
            BY <1>2
        <3> QED
            BY <1>13, <3>1, <3>2, <3>3 DEF Place
    <2>4. Len(t) > 0 /\ Len(t) \in 1 .. Len(t)
        BY <1>3, <1>4, <1>15
    <2>5. q \in Seq(Entries)
        BY <1>14
    <2> HIDE DEF q
    <2>6. Queue(t) = q
        BY <1>4, <2>2, <2>3, <2>4, <2>5, QueueIs
    <2> QED
        BY <2>6 DEF q, t, e
<1>16. CASE L # 0
    <2>1. L > 0 /\ 1 \in 1 .. L /\ L \in 1 .. L
        BY <1>2, <1>16 DEF L
    <2> DEFINE x == s[1].nr
               R == Place(s, L)
    <2>2. x \in Nat /\ x < v /\ t[1].nr = x /\ s[L].nr = v - 1
        BY <1>5, <2>1 DEF L
    <2>3. R = v - x /\ R \in Nat
        <3>1. R = (v - 1) - x + 1
            BY <2>2 DEF Place
        <3> HIDE DEF R, x
        <3> QED
            BY <1>2, <2>2, <3>1
    <2>4. /\ Queue(s) \in Seq(Entries) /\ Len(Queue(s)) = R
          /\ \A i \in 1 .. L : Queue(s)[Place(s, i)] = Entry(s, i)
        BY <2>1, QueueOf DEF L
    <2> HIDE DEF e, R
    <2>5. /\ q \in Seq(Entries) /\ Len(q) = R + 1 /\ q[R + 1] = e
          /\ \A w \in 1 .. R : q[w] = Queue(s)[w]
        BY <1>14, <2>3, <2>4, AppendProperties
    <2> HIDE DEF q
    <2>6. ASSUME NEW i \in 1 .. L
          PROVE  q[Place(t, i)] = Entry(t, i)
        <3>1. Place(t, i) = Place(s, i)
            BY <1>5, <2>1 DEF Place
        <3>2. Place(s, i) \in 1 .. R
            BY PlaceType DEF R, L
        <3> QED
            BY <1>12, <2>4, <2>5, <3>1, <3>2
    <2>7. ASSUME NEW i \in L + 1 .. L + k
          PROVE  Place(t, i) = R + 1 /\ q[Place(t, i)] = Entry(t, i)
        <3>1. Place(t, i) = v - x + 1
            BY <1>6, <2>2 DEF Place
        <3> QED
            BY <1>13, <2>3, <2>5, <3>1
    <2>8. Len(q) = Place(t, Len(t)) /\ Len(t) > 0
        <3>1. Place(t, L + k) = R + 1
            BY <1>8, <2>7
        <3>2. L + k > 0
            BY <1>2, <1>3 DEF L
        <3> QED
            BY <1>4, <2>5, <3>1, <3>2
    <2>9. \A i \in 1 .. Len(t) : q[Place(t, i)] = Entry(t, i)
        BY <1>7, <2>6, <2>7
    <2>10. Queue(t) = q
        BY <1>4, <2>5, <2>8, <2>9, QueueIs
    <2> QED
        BY <2>10 DEF q, t, e
<1> QED
    BY <1>15, <1>16

(* A read that ends with byte k takes the messages up to that byte's, the  *)
(* last of them in part if the next byte is of the same packet.            *)
Inside(s, k) == k < Len(s) /\ s[k + 1].nr = s[k].nr

LEMMA QueueRead ==
    ASSUME NEW s, Numbered(s), NEW k \in 1 .. Len(s)
    PROVE  Queue(SubSeq(s, k + 1, Len(s))) =
               (IF Inside(s, k) THEN <<[Queue(s)[Place(s, k)] EXCEPT !.head = FALSE]>>
                ELSE <<>>)
                   \o SubSeq(Queue(s), Place(s, k) + 1, Len(Queue(s)))
<1> DEFINE L == Len(s)
           t == SubSeq(s, k + 1, L)
           n == Place(s, k)
           Q == Queue(s)
           first == [Q[n] EXCEPT !.head = FALSE]
           begin == IF Inside(s, k) THEN <<first>> ELSE <<>>
           rest == SubSeq(Q, n + 1, Len(Q))
           q == begin \o rest
<1>1. L \in Nat /\ k \in Nat /\ k >= 1 /\ k <= L /\ L > 0
    BY DEF Numbered
<1>2. /\ Q \in Seq(Entries) /\ Len(Q) = Place(s, L)
      /\ \A i \in 1 .. L : Q[Place(s, i)] = Entry(s, i)
    BY <1>1, QueueOf
<1>3. n \in 1 .. Len(Q) /\ Len(Q) \in Nat
    BY <1>2, PlaceType
<1>4. first \in Entries
    <2>1. Q[n] \in Entries
        BY <1>2, <1>3, ElementOfSeq
    <2> QED
        BY <2>1 DEF Entries
<1>5. /\ rest \in Seq(Entries) /\ Len(rest) = Len(Q) - n
      /\ \A w \in 1 .. Len(Q) - n : rest[w] = Q[n + w]
    <2> DEFINE R == Len(Q)
    <2>0. R \in Nat /\ n \in 1 .. R
        BY <1>3
    <2> HIDE DEF Q, n, R
    <2>1. rest = SubSeq(Q, n + 1, R)
        BY DEF R
    <2> HIDE DEF rest
    <2>2. \A w \in n + 1 .. R : Q[w] \in Entries
        <3>1. \A w \in n + 1 .. R : w \in 1 .. R
            BY <2>0
        <3> QED
            BY <1>2, <3>1, ElementOfSeq DEF R, Q
    <2>3. n + 1 \in Int /\ R \in Int
        BY <2>0
    <2>4. /\ rest \in Seq(Entries)
          /\ Len(rest) = IF n + 1 <= R THEN R - (n + 1) + 1 ELSE 0
          /\ \A w \in 1 .. R - (n + 1) + 1 : rest[w] = Q[n + 1 + w - 1]
        BY <2>1, <2>2, <2>3, SubSeqProperties
    <2>5. /\ (IF n + 1 <= R THEN R - (n + 1) + 1 ELSE 0) = R - n
          /\ R - (n + 1) + 1 = R - n
          /\ \A w \in 1 .. R - n : n + 1 + w - 1 = n + w
        BY <2>0
    <2> QED
        BY <2>4, <2>5 DEF R
<1>6. /\ begin \in Seq(Entries) /\ Len(begin) = (IF Inside(s, k) THEN 1 ELSE 0)
      /\ Inside(s, k) => begin[1] = first
    <2> HIDE DEF first
    <2> QED
        BY <1>4
<1> HIDE DEF first, begin, rest
<1>7. /\ q \in Seq(Entries) /\ Len(q) = Len(begin) + Len(rest)
      /\ \A w \in 1 .. Len(begin) + Len(rest) :
            q[w] = IF w <= Len(begin) THEN begin[w] ELSE rest[w - Len(begin)]
    BY <1>5, <1>6, ConcatProperties
<1> HIDE DEF q, Q, n
<1>8. /\ Numbered(t) /\ Len(t) = L - k
      /\ \A i \in 1 .. L - k : t[i] = s[i + k] /\ i + k \in 1 .. L
    BY Rest
<1> HIDE DEF t
<1>9. Queue(t) = q
    <2>1. CASE k = L
        <3>1. Len(t) = 0 /\ t \in Seq(Bytes)
            BY <1>1, <1>8, <2>1 DEF Numbered
        <3>2. t = <<>>
            BY <3>1, EmptySeq
        <3>3. n = Len(Q) /\ ~Inside(s, k)
            BY <1>1, <1>2, <2>1 DEF n, Inside, L
        <3>4. Len(q) = 0
            BY <1>3, <1>5, <1>6, <1>7, <3>3
        <3>5. q = <<>>
            BY <1>7, <3>4, EmptySeq
        <3> QED
            BY <3>2, <3>5 DEF Queue
    <2>2. CASE k < L
        <3> DEFINE x == s[1].nr
                   y == s[k].nr
                   z == s[L].nr
                   f == s[k + 1].nr
        <3>1. /\ 1 \in 1 .. L /\ L \in 1 .. L /\ k \in 1 .. L - 1 /\ k + 1 \in 1 .. L
              /\ 1 <= k /\ k + 1 <= L
            BY <1>1, <2>2
        <3>2. x \in Nat /\ y \in Nat /\ z \in Nat /\ f \in Nat
            BY <3>1, OfBytes
        <3>3. x <= y /\ f <= z
            BY <3>1, Ascending
        <3>4. f = y \/ f = y + 1
            BY <3>1 DEF Numbered
        <3>5. Inside(s, k) <=> f = y
            BY <2>2 DEF Inside
        <3>6. t[1].nr = f /\ 1 \in 1 .. Len(t) /\ Len(t) \in 1 .. Len(t)
            <4>1. 1 \in 1 .. L - k /\ 1 + k = k + 1 /\ L - k \in 1 .. L - k
                BY <1>1, <2>2
            <4> QED
                BY <1>8, <4>1
        <3>7. t[Len(t)].nr = z
            <4>1. L - k \in 1 .. L - k /\ (L - k) + k = L
                BY <1>1, <2>2
            <4> QED
                BY <1>8, <4>1
        <3>8. n = y - x + 1 /\ Len(Q) = z - x + 1
            BY <1>2 DEF n, Place
        <3>9. Place(t, Len(t)) = z - f + 1
            BY <3>6, <3>7 DEF Place
        <3> DEFINE c == IF Inside(s, k) THEN 1 ELSE 0
        <3>10. c = y + 1 - f /\ c \in {0, 1}
            <4> HIDE DEF x, y, z, f
            <4> QED
                BY <3>2, <3>4, <3>5
        <3>11. Len(q) = c + (Len(Q) - n)
            BY <1>5, <1>6, <1>7
        <3> HIDE DEF x, y, z, f, c
        <3>12. Len(q) = Place(t, Len(t))
            BY <3>2, <3>8, <3>9, <3>10, <3>11
        <3>13. ASSUME NEW i \in 1 .. Len(t)
               PROVE  q[Place(t, i)] = Entry(t, i)
            <4> DEFINE g == s[i + k].nr
            <4>1. /\ i \in Nat /\ i + k \in 1 .. L /\ t[i] = s[i + k] /\ t[i].nr = g
                  /\ k <= i + k /\ k + 1 <= i + k /\ i + k <= L
                BY <1>1, <1>8
            <4>2. g \in Nat /\ f <= g /\ g <= z
                BY <3>1, <4>1, OfBytes, Ascending DEF f, z
            <4>3. Place(t, i) = g - f + 1 /\ Place(s, i + k) = g - x + 1
                BY <3>6, <4>1 DEF Place, x
            <4> HIDE DEF g
            <4>4. CASE g > y
                <5> DEFINE w == g - f + 1
                <5>1. w \in 1 .. c + (Len(Q) - n) /\ ~(w <= c) /\ w - c \in 1 .. Len(Q) - n
                    BY <3>2, <3>3, <3>8, <3>10, <4>2, <4>4
                <5>2. n + (w - c) = g - x + 1
                    BY <3>2, <3>8, <3>10, <4>2
                <5>3. Len(begin) = c /\ Len(rest) = Len(Q) - n
                    BY <1>5, <1>6 DEF c
                <5> HIDE DEF w
                <5>4. q[w] = rest[w - c]
                    BY <1>7, <5>1, <5>3
                <5>5. q[w] = Q[g - x + 1]
                    BY <1>5, <5>1, <5>2, <5>4
                <5>6. q[w] = Entry(s, i + k)
                    BY <1>2, <4>1, <4>3, <5>5
                <5>7. ASSUME NEW a
                      PROVE  (\E j \in 1 .. L : s[j].nr = s[i + k].nr /\ s[j].at = a)
                                 <=> (\E j \in 1 .. L - k : t[j].nr = t[i].nr /\ t[j].at = a)
                    <6>1. ASSUME NEW j \in 1 .. L, s[j].nr = s[i + k].nr
                          PROVE  j - k \in 1 .. L - k /\ (j - k) + k = j
                        <7>1. ~(j <= k)
                            <8> SUFFICES ASSUME j <= k PROVE FALSE
                                OBVIOUS
                            <8>1. s[j].nr <= y
                                BY Ascending DEF y, L
                            <8>2. g <= y
                                BY <6>1, <8>1 DEF g
                            <8> QED
                                BY <3>2, <4>2, <4>4, <8>2
                        <7> QED
                            BY <1>1, <7>1
                    <6>2. \A j \in 1 .. L : s[j].nr = s[i + k].nr =>
                              j - k \in 1 .. L - k /\ t[j - k] = s[j]
                        BY <1>8, <6>1
                    <6>3. \A j \in 1 .. L - k : j + k \in 1 .. L /\ t[j] = s[j + k]
                        BY <1>8
                    <6>4. ASSUME NEW j \in 1 .. L, s[j].nr = s[i + k].nr, s[j].at = a
                          PROVE  \E l \in 1 .. L - k : t[l].nr = t[i].nr /\ t[l].at = a
                        <7>1. j - k \in 1 .. L - k /\ t[j - k] = s[j]
                            BY <6>2, <6>4
                        <7> QED
                            BY <4>1, <6>4, <7>1
                    <6>5. ASSUME NEW j \in 1 .. L - k, t[j].nr = t[i].nr, t[j].at = a
                          PROVE  \E l \in 1 .. L : s[l].nr = s[i + k].nr /\ s[l].at = a
                        <7>1. j + k \in 1 .. L /\ t[j] = s[j + k]
                            BY <6>3
                        <7> QED
                            BY <4>1, <6>5, <7>1
                    <6> QED
                        BY <6>4, <6>5
                <5>8. Entry(t, i) = Entry(s, i + k)
                    <6>1. (\E j \in 1 .. L : s[j].nr = s[i + k].nr /\ s[j].at = 1)
                              <=> (\E j \in 1 .. L - k : t[j].nr = t[i].nr /\ t[j].at = 1)
                        BY <5>7
                    <6>2. (\E j \in 1 .. L : s[j].nr = s[i + k].nr
                                             /\ s[j].at = Len(Packet(s[i + k].of)))
                              <=> (\E j \in 1 .. L - k : t[j].nr = t[i].nr
                                             /\ t[j].at = Len(Packet(s[i + k].of)))
                        BY <5>7
                    <6> QED
                        BY <1>8, <4>1, <6>1, <6>2 DEF Entry, L
                <5> QED
                    BY <4>3, <5>6, <5>8 DEF w
            <4>5. CASE g = y
                <5>1. f = y /\ Inside(s, k) /\ c = 1
                    BY <3>2, <3>4, <3>5, <3>10, <4>2, <4>5
                <5>2. Place(t, i) = 1
                    BY <3>2, <4>3, <4>5, <5>1
                <5>3. q[1] = first
                    <6>1. Len(begin) = 1 /\ Len(rest) = Len(Q) - n /\ begin[1] = first
                        BY <1>5, <1>6, <5>1
                    <6>2. 1 \in 1 .. 1 + (Len(Q) - n) /\ 1 <= 1
                        BY <1>3
                    <6> QED
                        BY <1>7, <6>1, <6>2
                <5>4. Q[n] = Entry(s, k) /\ s[i + k].nr = s[k].nr
                    BY <1>2, <4>5 DEF n, g, y
                <5>5. s[i + k].of = s[k].of
                    BY <4>1, <5>4, SameWrite DEF L
                <5>6. first.of = s[k].of /\ first.head = FALSE /\ first.tail = Entry(s, k).tail
                    BY <5>4 DEF first, Entry
                <5>7. ~ \E j \in 1 .. L - k : t[j].nr = t[i].nr /\ t[j].at = 1
                    <6> SUFFICES ASSUME NEW j \in 1 .. L - k, t[j].nr = t[i].nr, t[j].at = 1
                                 PROVE  FALSE
                        OBVIOUS
                    <6>1. j \in Nat /\ j >= 1 /\ j + k \in 1 .. L /\ t[j] = s[j + k]
                        BY <1>1, <1>8
                    <6>2. s[j + k].at = s[k].at + ((j + k) - k)
                        BY <4>1, <5>4, <6>1, SameWrite DEF L
                    <6> DEFINE a == s[k].at
                    <6>3. a \in 1 .. Len(Packet(s[k].of)) /\ a \in Nat
                        BY OfBytes DEF L
                    <6>4. a + ((j + k) - k) = 1 /\ a >= 1
                        BY <6>1, <6>2, <6>3
                    <6> HIDE DEF a
                    <6> QED
                        BY <1>1, <6>1, <6>3, <6>4
                <5>8. (\E j \in 1 .. L - k : t[j].nr = t[i].nr /\ t[j].at = Len(Packet(t[i].of)))
                          <=> Entry(s, k).tail
                    <6> DEFINE P == Len(Packet(s[k].of))
                    <6>1. Entry(s, k).tail <=> \E j \in 1 .. L : s[j].nr = y /\ s[j].at = P
                        BY DEF Entry, y, L
                    <6>2. ASSUME NEW j \in 1 .. L, s[j].nr = y, s[j].at = P
                          PROVE  j - k \in 1 .. L - k /\ (j - k) + k = j
                        <7>1. ~(j <= k)
                            <8> SUFFICES ASSUME j <= k PROVE FALSE
                                OBVIOUS
                            <8>1. s[k + 1].nr = s[j].nr
                                BY <5>1, <6>2 DEF f
                            <8>2. s[k + 1].of = s[j].of /\ s[k + 1].at = s[j].at + ((k + 1) - j)
                                BY <3>1, <8>1, SameWrite DEF L
                            <8>3. s[k].of = s[j].of
                                BY <6>2, SameWrite DEF y, L
                            <8>4. s[k + 1].at \in 1 .. P /\ s[j].at \in Nat
                                BY <3>1, <8>2, <8>3, OfBytes DEF L
                            <8>5. P + ((k + 1) - j) \in 1 .. P /\ P \in Nat
                                BY <6>2, <8>2, <8>4
                            <8> HIDE DEF P
                            <8> QED
                                BY <1>1, <8>5
                        <7> QED
                            BY <1>1, <7>1
                    <6>3. \A j \in 1 .. L : s[j].nr = y /\ s[j].at = P =>
                              j - k \in 1 .. L - k /\ t[j - k] = s[j]
                        BY <1>8, <6>2
                    <6>4. \A j \in 1 .. L - k : j + k \in 1 .. L /\ t[j] = s[j + k]
                        BY <1>8
                    <6>5. t[i].nr = y /\ Len(Packet(t[i].of)) = P
                        BY <4>1, <4>5, <5>5
                    <6> HIDE DEF P
                    <6>6. ASSUME NEW j \in 1 .. L, s[j].nr = y, s[j].at = P
                          PROVE  \E l \in 1 .. L - k : t[l].nr = y /\ t[l].at = P
                        <7>1. j - k \in 1 .. L - k /\ t[j - k] = s[j]
                            BY <6>3, <6>6
                        <7> QED
                            BY <6>6, <7>1
                    <6>7. ASSUME NEW j \in 1 .. L - k, t[j].nr = y, t[j].at = P
                          PROVE  \E l \in 1 .. L : s[l].nr = y /\ s[l].at = P
                        <7>1. j + k \in 1 .. L /\ t[j] = s[j + k]
                            BY <6>4
                        <7> QED
                            BY <6>7, <7>1
                    <6> QED
                        BY <6>1, <6>5, <6>6, <6>7
                <5>9. Entry(t, i) = first
                    <6>1. Entry(t, i).of = s[k].of /\ Entry(t, i).head = FALSE
                          /\ Entry(t, i).tail = Entry(s, k).tail
                        BY <1>8, <4>1, <5>5, <5>7, <5>8 DEF Entry
                    <6>2. Entry(t, i) \in Entries
                        BY <1>8, OfBytes DEF Entry, Entries
                    <6> QED
                        BY <1>4, <5>6, <6>1, <6>2 DEF Entries
                <5> QED
                    BY <5>2, <5>3, <5>9
            <4>6. g >= y
                BY <3>2, <3>4, <4>2
            <4> QED
                BY <3>2, <4>2, <4>4, <4>5, <4>6
        <3> QED
            <4>1. Len(t) > 0 /\ Numbered(t) /\ q \in Seq(Entries)
                BY <1>1, <1>7, <1>8, <2>2
            <4> QED
                BY <3>12, <3>13, <4>1, QueueIs
    <2> QED
        BY <1>1, <2>1, <2>2
<1> QED
    BY <1>9 DEF q, begin, rest, first, Q, n, t, L

-----------------------------------------------------------------------------
(* What the bytes are read as.                                             *)
LEMMA CodeRead ==
    ASSUME NEW m \in Sent
    PROVE  /\ Code(m.type) \in 0 .. 29 /\ TypeOf(Code(m.type)) = m.type
           /\ Code(m.type) = 0 => m.type = "INIT"
<1> DEFINE i == CHOOSE j \in DOMAIN Types : Types[j] = m.type
           c == Code(m.type)
<1>1. \E j \in DOMAIN Types : Types[j] = m.type
    BY Shapes DEF ToSet
<1>2. i \in DOMAIN Types /\ Types[i] = m.type
    BY <1>1
<1>3. c = i - 1
    BY DEF Code
<1> HIDE DEF i, c
<1>4. i \in 1 .. 30 /\ c \in 0 .. 29 /\ c + 1 = i /\ c < 30
    BY <1>2, <1>3, TypesOfPackets
<1>5. TypeOf(c) = Types[i]
    BY <1>4, TypesOfPackets DEF TypeOf
<1>6. c = 0 => i = 1
    BY <1>4
<1> QED
    BY <1>2, <1>4, <1>5, <1>6, TypesOfPackets DEF c

LEMMA PacketParts ==
    ASSUME NEW m \in Sent
    PROVE  /\ Len(Packet(m)) = 2 + Len(Data(m)) /\ Len(Data(m)) \in Nat
           /\ Packet(m)[1] = 49 /\ Packet(m)[2] = Code(m.type)
           /\ \A i \in 1 .. Len(Data(m)) : Packet(m)[i + 2] = Data(m)[i]
<1> DEFINE head == <<Version, Code(m.type)>>
           data == Data(m)
<1>1. /\ head \in Seq(0 .. 255) /\ Len(head) = 2 /\ head[1] = 49
      /\ head[2] = Code(m.type)
    BY CodeRead DEF Version
<1>2. data \in Seq(0 .. 255)
    <2>1. data \in Seq(32 .. 254)
        BY DataBytes DEF Sent
    <2> HIDE DEF data
    <2>2. \A b \in 32 .. 254 : b \in 0 .. 255
        OBVIOUS
    <2>3. \A i \in 1 .. Len(data) : data[i] \in 0 .. 255
        BY <2>1, <2>2, ElementOfSeq
    <2> QED
        BY <2>1, <2>3, SeqOfWider
<1>3. Packet(m) = head \o data
    BY DEF Packet
<1> DEFINE n == Len(data)
<1>4. n \in Nat
    BY <1>2
<1> HIDE DEF head, data
<1>5. /\ Len(head \o data) = 2 + n
      /\ \A i \in 1 .. 2 + n : (head \o data)[i] = IF i <= 2 THEN head[i] ELSE data[i - 2]
    <2>1. head \in Seq(0 .. 255) /\ data \in Seq(0 .. 255)
        BY <1>1, <1>2
    <2>2. /\ Len(head \o data) = Len(head) + Len(data)
          /\ \A i \in 1 .. Len(head) + Len(data) :
                (head \o data)[i] = IF i <= Len(head) THEN head[i] ELSE data[i - Len(head)]
        BY <2>1, ConcatProperties
    <2> HIDE DEF n
    <2>3. Len(head) = 2 /\ Len(data) = n
        BY <1>1 DEF n
    <2> QED
        BY <2>2, <2>3
<1> HIDE DEF n
<1>6. (head \o data)[1] = head[1] /\ (head \o data)[2] = head[2]
    BY <1>4, <1>5
<1>7. ASSUME NEW i \in 1 .. n
      PROVE  (head \o data)[i + 2] = data[i]
    <2>1. i + 2 \in 1 .. 2 + n /\ ~(i + 2 <= 2) /\ (i + 2) - 2 = i
        BY <1>4
    <2>2. (head \o data)[i + 2] = data[(i + 2) - 2]
        BY <1>5, <2>1
    <2> QED
        BY <2>1, <2>2
<1>8. Len(Packet(m)) = 2 + n /\ n \in Nat
    BY <1>3, <1>4, <1>5
<1>9. Packet(m)[1] = 49 /\ Packet(m)[2] = Code(m.type)
    BY <1>1, <1>3, <1>6 DEF head
<1>10. \A i \in 1 .. n : Packet(m)[i + 2] = data[i]
    BY <1>3, <1>7
<1> QED
    BY <1>8, <1>9, <1>10 DEF data, n

LEMMA CStringParts ==
    ASSUME NEW s \in Seq(0 .. 255), NEW c, c = CString(s)
    PROVE  /\ c \in Seq(1 .. 255) /\ Len(c) \in Nat
           /\ (Len(c) = Len(s) + 1 /\ c[Len(c)] = Junk) \/ Len(c) < Len(s)
           /\ \A i \in 1 .. Len(s) : i <= Len(c) => c[i] = s[i] /\ s[i] # 0
           /\ Len(c) < Len(s) => s[Len(c) + 1] = 0
<1>1. Len(s) \in Nat /\ DOMAIN s = 1 .. Len(s) /\ \A i \in 1 .. Len(s) : s[i] \in 0 .. 255
    BY ElementOfSeq
<1>2. c \in Seq(1 .. 255) /\ \A j \in 1 .. Len(s) : s[j] = 0 => Len(c) < j
    BY CStringType
<1>3. Len(c) \in Nat
    BY <1>2
<1>4. CASE 0 \notin ToSet(s)
    <2>1. \A i \in 1 .. Len(s) : s[i] # 0
        BY <1>1, <1>4 DEF ToSet
    <2>2. c = Append(s, Junk) /\ Junk \in 0 .. 255
        BY <1>4 DEF CString, Junk
    <2>3. /\ Len(c) = Len(s) + 1 /\ c[Len(s) + 1] = Junk
          /\ \A i \in 1 .. Len(s) : c[i] = s[i]
        BY <2>2, AppendProperties
    <2>4. ~(Len(c) < Len(s))
        BY <1>1, <2>3
    <2> QED
        BY <1>2, <1>3, <2>1, <2>3, <2>4
<1>5. CASE 0 \in ToSet(s)
    <2>1. PICK n \in 0 .. Len(s) :
              /\ c = SubSeq(s, 1, n) /\ Len(c) = n
              /\ \A i \in 1 .. n : s[i] \notin {0}
              /\ n < Len(s) => s[n + 1] \in {0}
        BY <1>5, BeforeFirst DEF CString
    <2>2. PICK j \in 1 .. Len(s) : s[j] = 0
        BY <1>1, <1>5 DEF ToSet
    <2>3. n < Len(s)
        BY <1>1, <1>2, <2>1, <2>2
    <2>4. \A i \in 1 .. n : c[i] = s[i] /\ s[i] # 0
        BY <1>1, <2>1
    <2>5. \A i \in 1 .. Len(s) : i <= n => i \in 1 .. n
        BY <1>1
    <2> QED
        BY <1>2, <1>3, <2>1, <2>3, <2>4, <2>5
<1> QED
    BY <1>4, <1>5

(* The string a handler gets, and the buffer.                              *)
LEMMA DataRead ==
    ASSUME IInv, NEW k \in 2 .. N, Receive(k), NEW c, c = CString(got'.data)
    PROVE  /\ c \in Seq(1 .. 255) /\ Len(c) \in Nat
           /\ \/ Len(c) > 0 /\ c[Len(c)] = Junk
              \/ Len(c) <= N - 3 /\ \A i \in 1 .. Len(c) : c[i] = buf'[i + 2]
           /\ \A q \in 2 .. N - 1 : (\A i \in 1 .. q : buf'[i] # 0) =>
                 Len(c) >= q - 2 /\ \A i \in 1 .. q - 2 : c[i] = buf'[i + 2]
           /\ \A q \in 2 .. N - 2 : buf'[q + 1] = 0 => Len(c) <= q - 2
<1>1. N \in Nat /\ N > 3
    BY WireAssumption
<1>2. PICK payload \in [1 .. N -> 0 .. 255] :
          /\ got' = ParsePacket(payload)
          /\ \A i \in 1 .. N - 1 : payload[i] = 0 \/ payload[i] = buf'[i]
          /\ \A i \in 1 .. N - 1 : buf'[i] = 0 => payload[i] = 0
          /\ \A i \in 1 .. N - 1 : (\A j \in 1 .. i : buf'[j] # 0) => payload[i] = buf'[i]
    BY MessageRead
<1> DEFINE data == got'.data
<1>3. /\ data \in Seq(0 .. 255) /\ Len(data) = N - 2
      /\ \A i \in 1 .. N - 2 : data[i] = payload[i + 2]
    BY <1>2, PacketParsed
<1>4. c = CString(data)
    OBVIOUS
<1> HIDE DEF data
<1> DEFINE n == Len(c)
<1>5. /\ c \in Seq(1 .. 255) /\ n \in Nat
      /\ (n = Len(data) + 1 /\ c[n] = Junk) \/ n < Len(data)
      /\ \A i \in 1 .. Len(data) : i <= n => c[i] = data[i] /\ data[i] # 0
      /\ n < Len(data) => data[n + 1] = 0
    BY <1>3, <1>4, CStringParts
<1> HIDE DEF n
<1>6. \A i \in 1 .. N - 2 : i <= n => c[i] = payload[i + 2] /\ payload[i + 2] # 0
    BY <1>3, <1>5
<1>7. n < N - 2 => payload[n + 3] = 0
    <2> SUFFICES ASSUME n < N - 2 PROVE payload[n + 3] = 0
        OBVIOUS
    <2>1. n + 1 \in 1 .. N - 2 /\ (n + 1) + 2 = n + 3
        BY <1>1, <1>5
    <2> QED
        BY <1>3, <1>5, <2>1
<1>8. (n > 0 /\ c[n] = Junk) \/ (n <= N - 3 /\ \A i \in 1 .. n : c[i] = buf'[i + 2])
    <2>1. CASE n = Len(data) + 1 /\ c[n] = Junk
        BY <1>1, <1>3, <2>1
    <2>2. CASE n < Len(data)
        <3>1. n <= N - 3
            BY <1>1, <1>3, <1>5, <2>2
        <3>2. ASSUME NEW i \in 1 .. n
              PROVE  c[i] = buf'[i + 2]
            <4>1. i \in 1 .. N - 2 /\ i <= n /\ i + 2 \in 1 .. N - 1
                BY <1>1, <1>5, <3>1
            <4> QED
                BY <1>2, <1>6, <4>1
        <3> QED
            BY <3>1, <3>2
    <2> QED
        BY <1>5, <2>1, <2>2
<1>9. ASSUME NEW q \in 2 .. N - 1, \A i \in 1 .. q : buf'[i] # 0
      PROVE  n >= q - 2 /\ \A i \in 1 .. q - 2 : c[i] = buf'[i + 2]
    <2>1. ASSUME NEW i \in 1 .. q
          PROVE  payload[i] = buf'[i] /\ payload[i] # 0
        <3>1. i \in 1 .. N - 1 /\ \A j \in 1 .. i : j \in 1 .. q
            BY <1>1
        <3> QED
            BY <1>2, <1>9, <3>1
    <2>2. n >= q - 2
        <3> SUFFICES ASSUME ~(n >= q - 2) PROVE FALSE
            OBVIOUS
        <3>1. n < N - 2 /\ n + 3 \in 1 .. q
            BY <1>1, <1>5
        <3> QED
            BY <1>7, <2>1, <3>1
    <2>3. ASSUME NEW i \in 1 .. q - 2
          PROVE  c[i] = buf'[i + 2]
        <3>1. i \in 1 .. N - 2 /\ i <= n /\ i + 2 \in 1 .. q
            BY <1>1, <1>5, <2>2
        <3> QED
            BY <1>6, <2>1, <3>1
    <2> QED
        BY <2>2, <2>3
<1>10. ASSUME NEW q \in 2 .. N - 2, buf'[q + 1] = 0
       PROVE  n <= q - 2
    <2> SUFFICES ASSUME ~(n <= q - 2) PROVE FALSE
        OBVIOUS
    <2>1. q + 1 \in 1 .. N - 1 /\ q - 1 \in 1 .. N - 2 /\ q - 1 <= n /\ (q - 1) + 2 = q + 1
        BY <1>1, <1>5
    <2>2. payload[q + 1] = 0
        BY <1>2, <1>10, <2>1
    <2>3. payload[(q - 1) + 2] # 0
        BY <1>6, <2>1
    <2> QED
        BY <2>1, <2>2, <2>3
<1> QED
    BY <1>5, <1>8, <1>9, <1>10 DEF n

LEMMA TypeRead ==
    ASSUME IInv, NEW k \in 2 .. N, Receive(k)
    PROVE  /\ got' # NULL /\ got'.type \in ToSet(Types)
           /\ Byte(stream[2]) >= 30 => got'.type \in Unhandled
           /\ Byte(stream[1]) # 0 => got'.type = TypeOf(Byte(stream[2]))
<1>1. N \in Nat /\ N > 3 /\ k \in 1 .. N
    BY WireAssumption
<1>2. PICK payload \in [1 .. N -> 0 .. 255] :
          /\ got' = ParsePacket(payload)
          /\ \A i \in 1 .. N - 1 : payload[i] = 0 \/ payload[i] = buf'[i]
          /\ \A i \in 1 .. N - 1 : (\A j \in 1 .. i : buf'[j] # 0) => payload[i] = buf'[i]
    BY MessageRead
<1>3. buf'[1] = Byte(stream[1]) /\ buf'[2] = Byte(stream[2])
    BY <1>1, BufferRead
<1>4. 2 \in 1 .. N - 1 /\ \A j \in 1 .. 2 : j = 1 \/ j = 2
    BY <1>1
<1>5. payload[2] = 0 \/ payload[2] = Byte(stream[2])
    BY <1>2, <1>3, <1>4
<1>6. /\ got'.type \in ToSet(Types) /\ got'.data \in [1 .. N - 2 -> 0 .. 255]
      /\ payload[2] = 0 \/ payload[2] >= 30 => got'.type \in Unhandled
    BY <1>2, PacketParsed
<1>7. got' = [type |-> got'.type, data |-> got'.data]
    BY <1>2 DEF ParsePacket
<1>8. got' # NULL
    <2>1. [type |-> got'.type, data |-> got'.data]
              \in [type : ToSet(Types), data : [1 .. N - 2 -> 0 .. 255]]
        BY <1>6
    <2>2. got' \in [type : ToSet(Types), data : [1 .. N - 2 -> 0 .. 255]]
        BY <1>7, <2>1
    <2> QED
        BY <2>2, MessageAssumption
<1>9. Byte(stream[1]) # 0 => got'.type = TypeOf(Byte(stream[2]))
    <2> SUFFICES ASSUME Byte(stream[1]) # 0 PROVE got'.type = TypeOf(Byte(stream[2]))
        OBVIOUS
    <2>1. payload[2] = Byte(stream[2])
        <3>1. CASE Byte(stream[2]) = 0
            BY <1>5, <3>1
        <3>2. CASE Byte(stream[2]) # 0
            <4>1. \A j \in 1 .. 2 : buf'[j] # 0
                BY <1>3, <1>4, <3>2
            <4> QED
                BY <1>2, <1>3, <1>4, <4>1
        <3> QED
            BY <3>1, <3>2
    <2>2. got'.type = TypeOf(payload[2])
        BY <1>2 DEF ParsePacket
    <2> QED
        BY <2>1, <2>2
<1> QED
    BY <1>5, <1>6, <1>8, <1>9

-----------------------------------------------------------------------------
(* Names and their bytes.                                                  *)
LEMMA TextType ==
    ASSUME NEW x \in DOMAIN Text
    PROVE  /\ Text[x] \in Seq(33 .. 254) /\ Text[x] \in Seq(1 .. 255)
           /\ Len(Text[x]) \in Nat /\ Len(Text[x]) > 0
           /\ \A i \in 1 .. Len(Text[x]) : Text[x][i] \in 33 .. 254
<1> DEFINE s == Text[x]
<1>1. s \in Seq(33 .. 254) /\ s # <<>>
    BY WireAssumption
<1> HIDE DEF s
<1>2. Len(s) \in Nat /\ Len(s) > 0
    BY <1>1, EmptySeq
<1>3. \A i \in 1 .. Len(s) : s[i] \in 33 .. 254
    BY <1>1, ElementOfSeq
<1>4. \A b \in 33 .. 254 : b \in 1 .. 255
    OBVIOUS
<1>5. s \in Seq(1 .. 255)
    BY <1>1, <1>3, <1>4, SeqOfWider
<1> QED
    BY <1>1, <1>2, <1>3, <1>5 DEF s

LEMMA NameRead ==
    ASSUME NEW known, known \subseteq DOMAIN Text, NEW t
    PROVE  /\ Name(t, known) \in known \cup {Mangled}
           /\ \A x \in known : Text[x] = t => Name(t, known) = x
           /\ (\A x \in known : Text[x] # t) => Name(t, known) = Mangled
<1>1. ASSUME NEW x \in known, Text[x] = t
      PROVE  Name(t, known) = x
    <2> DEFINE y == CHOOSE z \in known : Text[z] = t
    <2>1. y \in known /\ Text[y] = t
        BY <1>1
    <2>2. Name(t, known) = y
        BY <1>1 DEF Name
    <2> HIDE DEF y
    <2>3. x \in DOMAIN Text /\ y \in DOMAIN Text /\ Text[x] = Text[y]
        BY <1>1, <2>1
    <2>4. x = y
        BY <2>3, WireAssumption
    <2> QED
        BY <2>2, <2>4
<1>2. (\A x \in known : Text[x] # t) => Name(t, known) = Mangled
    BY DEF Name
<1> QED
    BY <1>1, <1>2

-----------------------------------------------------------------------------
(* The two words of a JOIN or LOGIN.                                       *)
LEMMA SkipNothing ==
    ASSUME NEW s \in Seq(1 .. 255), Len(s) > 0, s[1] \notin Space
    PROVE  Skip(s) = s
<1> DEFINE set == (1 .. 255) \ Space
<1>1. Len(s) \in Nat /\ 1 \in 1 .. Len(s)
    OBVIOUS
<1>2. s[1] \in set
    <2>1. s[1] \in 1 .. 255
        BY <1>1, ElementOfSeq
    <2> QED
        BY <2>1
<1> HIDE DEF set
<1>3. PICK n \in 0 .. Len(s) :
          Len(Before(s, set)) = n /\ \A i \in 1 .. n : s[i] \notin set
    BY BeforeFirst
<1>4. n = 0
    BY <1>1, <1>2, <1>3
<1>5. Skip(s) = SubSeq(s, 0 + 1, Len(s))
    BY <1>3, <1>4 DEF Skip, set
<1> QED
    BY <1>1, <1>5, SubSeqFull

LEMMA SkipBlank ==
    ASSUME NEW s \in Seq(1 .. 255), Len(s) > 1, s[1] = 32, s[2] \notin Space
    PROVE  Skip(s) = SubSeq(s, 2, Len(s))
<1> DEFINE set == (1 .. 255) \ Space
<1>1. Len(s) \in Nat /\ 2 \in 1 .. Len(s)
    OBVIOUS
<1>2. s[2] \in set /\ s[1] \notin set
    <2>1. s[2] \in 1 .. 255
        BY <1>1, ElementOfSeq
    <2> QED
        BY <2>1 DEF Space
<1> HIDE DEF set
<1>3. PICK n \in 0 .. Len(s) :
          /\ Len(Before(s, set)) = n /\ \A i \in 1 .. n : s[i] \notin set
          /\ n < Len(s) => s[n + 1] \in set
    BY BeforeFirst
<1>4. n # 0
    <2> SUFFICES ASSUME n = 0 PROVE FALSE
        OBVIOUS
    <2>1. n < Len(s) /\ n + 1 = 1
        BY <1>1
    <2> QED
        BY <1>2, <1>3, <2>1
<1>5. ~(2 \in 1 .. n)
    BY <1>2, <1>3
<1>6. n = 1
    BY <1>1, <1>4, <1>5
<1>7. Skip(s) = SubSeq(s, 1 + 1, Len(s))
    BY <1>3, <1>6 DEF Skip, set
<1> QED
    BY <1>7

LEMMA WordRead ==
    ASSUME NEW s \in Seq(1 .. 255), NEW j \in 0 .. Len(s),
           \A i \in 1 .. j : s[i] \notin Space
    PROVE  /\ Len(Word(s)) >= j /\ Len(Word(s)) \in 0 .. Len(s)
           /\ \A i \in 1 .. Len(Word(s)) : Word(s)[i] = s[i]
           /\ j < Len(s) /\ s[j + 1] \in Space => Len(Word(s)) = j
<1>1. Len(s) \in Nat
    OBVIOUS
<1>2. PICK n \in 0 .. Len(s) :
          /\ Before(s, Space) = SubSeq(s, 1, n) /\ Len(Before(s, Space)) = n
          /\ \A i \in 1 .. n : s[i] \notin Space
          /\ n < Len(s) => s[n + 1] \in Space
    BY BeforeFirst
<1>3. Word(s) = SubSeq(s, 1, n) /\ Len(Word(s)) = n
    BY <1>2 DEF Word
<1>4. \A i \in 1 .. n : SubSeq(s, 1, n)[i] = s[i]
    BY <1>1
<1>5. n >= j
    <2> SUFFICES ASSUME ~(n >= j) PROVE FALSE
        OBVIOUS
    <2>1. n < Len(s) /\ n + 1 \in 1 .. j
        BY <1>1
    <2> QED
        BY <1>2, <2>1
<1>6. j < Len(s) /\ s[j + 1] \in Space => n = j
    <2> SUFFICES ASSUME j < Len(s), s[j + 1] \in Space, n # j PROVE FALSE
        OBVIOUS
    <2>1. j + 1 \in 1 .. n
        BY <1>1, <1>5
    <2> QED
        BY <1>2, <2>1
<1> QED
    BY <1>3, <1>4, <1>5, <1>6

(* The second word of a string, as get_username_password scans it.         *)
Second(c) == Word(Skip(SubSeq(Skip(c), Len(Word(Skip(c))) + 1, Len(Skip(c)))))

LEMMA Scanned ==
    ASSUME NEW x \in DOMAIN Text, NEW y \in DOMAIN Text, NEW c \in Seq(1 .. 255),
           Len(c) >= Len(Text[x]) + 1 + Len(Text[y]),
           \A i \in 1 .. Len(Text[x]) : c[i] = Text[x][i],
           c[Len(Text[x]) + 1] = 32,
           \A i \in 1 .. Len(Text[y]) : c[Len(Text[x]) + 1 + i] = Text[y][i]
    PROVE  /\ Word(Skip(c)) = Text[x]
           /\ Len(Second(c)) \in Nat /\ Len(Second(c)) >= Len(Text[y])
           /\ Len(c) = Len(Text[x]) + 1 + Len(Text[y]) => Second(c) = Text[y]
<1> DEFINE a == Len(Text[x])
           b == Len(Text[y])
           L == Len(c)
<1>1. a \in Nat /\ b \in Nat /\ a > 0 /\ b > 0 /\ L \in Nat /\ L >= a + 1 + b
    BY TextType
<1>2. /\ \A i \in 1 .. a : c[i] = Text[x][i] /\ c[i] \notin Space
      /\ c[a + 1] = 32
      /\ \A i \in 1 .. b : c[a + 1 + i] = Text[y][i] /\ Text[y][i] \notin Space
    <2>1. \A z \in 33 .. 254 : z \notin Space
        BY DEF Space
    <2>2. ASSUME NEW i \in 1 .. a PROVE c[i] = Text[x][i] /\ c[i] \notin Space
        <3>1. Text[x][i] \in 33 .. 254
            BY TextType
        <3> QED
            BY <2>1, <3>1
    <2>3. ASSUME NEW i \in 1 .. b
          PROVE  c[a + 1 + i] = Text[y][i] /\ Text[y][i] \notin Space
        <3>1. Text[y][i] \in 33 .. 254
            BY TextType
        <3> QED
            BY <2>1, <3>1
    <2> QED
        BY <2>2, <2>3
<1> HIDE DEF a, b, L
<1>3. Skip(c) = c
    <2>1. 1 \in 1 .. a /\ L > 0
        BY <1>1
    <2> QED
        BY <1>2, <2>1, SkipNothing DEF L
<1> DEFINE name == Word(c)
<1>4. name = Text[x] /\ Len(name) = a
    <2>1. a \in 0 .. L /\ a < L
        BY <1>1
    <2>2. c[a + 1] \in Space
        BY <1>2 DEF Space
    <2>3. /\ Len(name) = a /\ \A i \in 1 .. Len(name) : name[i] = c[i]
        BY <1>2, <2>1, <2>2, WordRead DEF L
    <2>4. name \in Seq(1 .. 255) /\ Text[x] \in Seq(1 .. 255)
        <3>1. Word(c) \in Seq(1 .. 255)
            BY WordType
        <3> QED
            BY <3>1, TextType
    <2>5. Len(name) = Len(Text[x]) /\ \A i \in 1 .. Len(name) : name[i] = Text[x][i]
        BY <1>2, <2>3 DEF a
    <2> HIDE DEF name
    <2>6. name = Text[x]
        BY <2>4, <2>5, SeqEqual
    <2> QED
        BY <2>3, <2>6
<1> DEFINE rest == SubSeq(c, a + 1, L)
           t == Skip(rest)
           password == Word(t)
           R == L - a
<1>5. R \in Nat /\ R >= 1 + b /\ R = L - a
    BY <1>1
<1> HIDE DEF R
<1>6. /\ rest \in Seq(1 .. 255) /\ Len(rest) = R
      /\ \A i \in 1 .. R : rest[i] = c[a + i]
    <2>1. a + 1 \in Nat \ {0} /\ L \in 0 .. Len(c)
        BY <1>1 DEF L
    <2>2. rest \in Seq(1 .. 255)
        BY <2>1, PartOfSeq
    <2>3. \A i \in a + 1 .. L : c[i] \in 1 .. 255
        <3>1. \A i \in a + 1 .. L : i \in 1 .. Len(c)
            BY <1>1 DEF L
        <3> QED
            BY <3>1, ElementOfSeq
    <2>4. /\ Len(rest) = IF a + 1 <= L THEN L - (a + 1) + 1 ELSE 0
          /\ \A i \in 1 .. L - (a + 1) + 1 : rest[i] = c[a + 1 + i - 1]
        BY <1>1, <2>3, SubSeqProperties
    <2>5. /\ (IF a + 1 <= L THEN L - (a + 1) + 1 ELSE 0) = R
          /\ L - (a + 1) + 1 = R
          /\ \A i \in 1 .. R : a + 1 + i - 1 = a + i
        BY <1>1, <1>5
    <2> QED
        BY <2>2, <2>4, <2>5
<1> HIDE DEF rest
<1>7. t = SubSeq(rest, 2, R)
    <2>1. 1 \in 1 .. R /\ 2 \in 1 .. R /\ R > 1 /\ 1 \in 1 .. b /\ a + 2 = a + 1 + 1
        BY <1>1, <1>5
    <2>2. rest[1] = 32 /\ rest[2] = c[a + 1 + 1]
        BY <1>2, <1>6, <2>1
    <2>3. rest[2] \notin Space
        BY <1>2, <2>1, <2>2
    <2> QED
        BY <1>6, <2>1, <2>2, <2>3, SkipBlank
<1> HIDE DEF t
<1>8. /\ t \in Seq(1 .. 255) /\ Len(t) = R - 1
      /\ \A i \in 1 .. R - 1 : t[i] = c[a + 1 + i]
    <2>1. 2 \in Nat \ {0} /\ R \in 0 .. Len(rest)
        BY <1>5, <1>6
    <2>2. t \in Seq(1 .. 255)
        BY <1>6, <1>7, <2>1, PartOfSeq
    <2>3. \A i \in 2 .. R : rest[i] \in 1 .. 255
        <3>1. ASSUME NEW i \in 2 .. R
              PROVE  rest[i] \in 1 .. 255
            <4>1. i \in 1 .. Len(rest)
                BY <1>5, <1>6
            <4> QED
                BY <1>6, <4>1, ElementOfSeq
        <3> QED
            BY <3>1
    <2>4. /\ Len(t) = IF 2 <= R THEN R - 2 + 1 ELSE 0
          /\ \A i \in 1 .. R - 2 + 1 : t[i] = rest[2 + i - 1]
        BY <1>5, <1>7, <2>3, SubSeqProperties
    <2>5. /\ (IF 2 <= R THEN R - 2 + 1 ELSE 0) = R - 1
          /\ R - 2 + 1 = R - 1
          /\ \A i \in 1 .. R - 1 : 2 + i - 1 = i + 1 /\ i + 1 \in 1 .. R /\ a + (i + 1) = a + 1 + i
        BY <1>1, <1>5
    <2> QED
        BY <1>6, <2>2, <2>4, <2>5
<1>9. b \in 0 .. Len(t) /\ \A i \in 1 .. b : t[i] = Text[y][i] /\ t[i] \notin Space
    <2>1. b \in 0 .. R - 1 /\ \A i \in 1 .. b : i \in 1 .. R - 1
        BY <1>1, <1>5
    <2> QED
        BY <1>2, <1>8, <2>1
<1>10. /\ Len(password) >= b /\ Len(password) \in 0 .. Len(t)
       /\ \A i \in 1 .. Len(password) : password[i] = t[i]
    BY <1>8, <1>9, WordRead
<1>11. \A i \in 1 .. b : password[i] = Text[y][i]
    <2>1. \A i \in 1 .. b : i \in 1 .. Len(password)
        BY <1>1, <1>5, <1>8, <1>10
    <2> QED
        BY <1>9, <1>10, <2>1
<1>12. L = a + 1 + b => password = Text[y]
    <2> SUFFICES ASSUME L = a + 1 + b PROVE password = Text[y]
        OBVIOUS
    <2>1. Len(password) = b
        BY <1>1, <1>5, <1>8, <1>10
    <2>2. password \in Seq(1 .. 255) /\ Text[y] \in Seq(1 .. 255)
        <3>1. Word(t) \in Seq(1 .. 255)
            BY <1>8, WordType
        <3> QED
            BY <3>1, TextType
    <2>3. Len(password) = Len(Text[y]) /\ \A i \in 1 .. Len(password) : password[i] = Text[y][i]
        BY <1>11, <2>1 DEF b
    <2> HIDE DEF password
    <2> QED
        BY <2>2, <2>3, SeqEqual
<1>13. Len(password) \in Nat /\ Len(password) >= b
    BY <1>5, <1>8, <1>10
<1>14. Word(Skip(c)) = name /\ Second(c) = password
    BY <1>3, <1>4 DEF rest, t, L, Second
<1> HIDE DEF password, name
<1> QED
    BY <1>3, <1>4, <1>12, <1>13, <1>14 DEF a, b, L

-----------------------------------------------------------------------------
(* The first message of a read and its end.                                *)
LEMMA FirstPart ==
    ASSUME NEW s, Numbered(s), NEW k \in 1 .. Len(s)
    PROVE  \E p \in 1 .. k :
              /\ \A j \in 1 .. p :
                    s[j].nr = s[1].nr /\ s[j].of = s[1].of /\ s[j].at = s[1].at + (j - 1)
              /\ \/ p = k
                 \/ p < k /\ s[p + 1].nr = s[1].nr + 1 /\ s[p + 1].at = 1
<1> DEFINE others == {j \in 1 .. k : s[j].nr # s[1].nr}
<1>1. Len(s) \in Nat /\ k \in Nat /\ k >= 1 /\ 1 \in 1 .. Len(s) /\ \A j \in 1 .. k : j \in 1 .. Len(s)
    BY DEF Numbered
<1>2. ASSUME NEW j \in 1 .. k, s[j].nr = s[1].nr
      PROVE  s[j].of = s[1].of /\ s[j].at = s[1].at + (j - 1)
    BY <1>1, <1>2, SameWrite
<1>3. CASE others = {}
    <2>1. \A j \in 1 .. k : s[j].nr = s[1].nr
        BY <1>3
    <2>2. k \in 1 .. k
        BY <1>1
    <2> QED
        BY <1>2, <2>1, <2>2
<1>4. CASE others # {}
    <2>1. others \subseteq Nat
        BY <1>1
    <2>2. PICK f \in others : \A j \in others : f <= j
        <3> HIDE DEF others
        <3> QED
            BY <1>4, <2>1, MinOf
    <2>3. f \in 1 .. k /\ s[f].nr # s[1].nr /\ f # 1
        OBVIOUS
    <2> DEFINE p == f - 1
    <2>4. p \in 1 .. k /\ p < k /\ p + 1 = f /\ p \in 1 .. Len(s) - 1 /\ f \in 1 .. Len(s)
        BY <1>1, <2>3
    <2>5. ASSUME NEW j \in 1 .. p
          PROVE  j \in 1 .. k /\ s[j].nr = s[1].nr
        <3>1. j \in 1 .. k /\ ~(f <= j)
            BY <1>1, <2>3
        <3> QED
            BY <2>2, <3>1
    <2> HIDE DEF p
    <2>6. p \in 1 .. p
        BY <2>4
    <2>7. s[p].nr = s[1].nr
        BY <2>5, <2>6
    <2>8. s[p + 1].nr = s[1].nr + 1 /\ s[p + 1].at = 1
        <3>1. \/ s[p + 1].nr = s[p].nr
              \/ s[p + 1].nr = s[p].nr + 1 /\ s[p + 1].at = 1
            BY <2>4 DEF Numbered
        <3> QED
            BY <2>3, <2>4, <2>7, <3>1
    <2> QED
        BY <1>2, <2>4, <2>5, <2>8
<1> QED
    BY <1>3, <1>4

LEMMA TailKnown ==
    ASSUME NEW s, Numbered(s), NEW i \in 1 .. Len(s), i = Len(s) \/ s[i + 1].nr # s[i].nr
    PROVE  Entry(s, i).tail <=> s[i].at = Len(Packet(s[i].of))
<1> DEFINE P == Len(Packet(s[i].of))
<1>1. Entry(s, i).tail <=> \E j \in 1 .. Len(s) : s[j].nr = s[i].nr /\ s[j].at = P
    BY DEF Entry
<1>2. ASSUME NEW j \in 1 .. Len(s), s[j].nr = s[i].nr, s[j].at = P
      PROVE  s[i].at = P
    <2>1. Len(s) \in Nat /\ i \in Nat /\ j \in Nat /\ j <= Len(s)
        BY DEF Numbered
    <2>2. ~(j > i)
        <3> SUFFICES ASSUME j > i PROVE FALSE
            OBVIOUS
        <3>1. i # Len(s) /\ i + 1 \in 1 .. Len(s) /\ i <= i + 1 /\ i + 1 <= j
            BY <2>1
        <3> DEFINE x == s[i].nr
                   y == s[i + 1].nr
        <3>2. x <= y /\ y <= x /\ x \in Nat /\ y \in Nat
            <4>1. s[i].nr <= s[i + 1].nr /\ s[i + 1].nr <= s[j].nr
                BY <3>1, Ascending
            <4>2. s[i].nr \in Nat /\ s[i + 1].nr \in Nat
                BY <3>1, OfBytes
            <4> QED
                BY <1>2, <4>1, <4>2
        <3>3. y # x
            BY <3>1
        <3> HIDE DEF x, y
        <3> QED
            BY <3>2, <3>3
    <2>3. s[i].at = s[j].at + (i - j)
        BY <1>2, SameWrite
    <2>4. s[i].at \in 1 .. P /\ s[j].at \in Nat
        BY OfBytes
    <2> DEFINE a == s[i].at
    <2>5. a = P + (i - j) /\ a \in 1 .. P /\ P \in Nat
        BY <1>2, <2>3, <2>4
    <2> HIDE DEF a, P
    <2>6. a = P
        BY <2>1, <2>2, <2>5
    <2> QED
        BY <2>6 DEF a
<1> QED
    BY <1>1, <1>2

(* Damage to the last message of a read is seen at its last byte.          *)
LEMMA Broken ==
    ASSUME NEW s, Numbered(s), NEW k \in 1 .. Len(s)
    PROVE  (Inside(s, k) \/ ~Queue(s)[Place(s, k)].tail)
               <=> s[k].at # Len(Packet(s[k].of))
<1>1. Len(s) \in Nat /\ Len(s) > 0 /\ k \in Nat /\ k <= Len(s)
    BY DEF Numbered
<1>2. Queue(s)[Place(s, k)] = Entry(s, k)
    BY <1>1, QueueOf
<1>3. CASE Inside(s, k)
    <2> DEFINE P == Len(Packet(s[k].of))
               a == s[k].at
               b == s[k + 1].at
    <2>1. k + 1 \in 1 .. Len(s) /\ s[k + 1].nr = s[k].nr
        BY <1>1, <1>3 DEF Inside
    <2>2. s[k + 1].of = s[k].of /\ s[k + 1].at = s[k].at + ((k + 1) - k)
        BY <2>1, SameWrite
    <2>3. a \in Nat /\ b \in 1 .. P /\ b = a + ((k + 1) - k)
        <3>1. a \in Nat
            BY OfBytes
        <3>2. b \in 1 .. P
            BY <2>1, <2>2, OfBytes
        <3> QED
            BY <2>2, <3>1, <3>2
    <2>4. P \in Nat
        <3>1. s[k].of \in Sent
            BY OfBytes
        <3>2. P \in 2 .. N - 2 /\ N \in Nat
            BY <3>1, PacketBytes, WireAssumption DEF Sent
        <3> HIDE DEF P
        <3> QED
            BY <3>2
    <2> HIDE DEF P, a, b
    <2>5. a # P
        BY <1>1, <2>3, <2>4
    <2> QED
        BY <1>3, <2>5 DEF a, P
<1>4. CASE ~Inside(s, k)
    <2>1. k = Len(s) \/ s[k + 1].nr # s[k].nr
        BY <1>1, <1>4 DEF Inside
    <2> QED
        BY <1>2, <1>4, <2>1, TailKnown
<1> QED
    BY <1>3, <1>4

-----------------------------------------------------------------------------
(* The first p of k bytes are of the first message, from its beginning;    *)
(* the others, if any, begin another one.                                  *)
FirstRead(k, p) ==
    /\ p \in 2 .. k
    /\ \A j \in 1 .. p : stream[j].of = stream[1].of /\ stream[j].at = j
    /\ p = k \/ (p < k /\ stream[p + 1].at = 1)

LEMMA FirstBytes ==
    ASSUME IInv, NEW k \in 2 .. N, Receive(k), NEW p, FirstRead(k, p),
           NEW m, m = stream[1].of, NEW c, c = CString(got'.data)
    PROVE  /\ m \in Sent /\ p \in Nat /\ p >= 2 /\ p <= Len(Packet(m)) /\ p <= N - 2
           /\ got' # NULL /\ got'.type = m.type
           /\ c \in Seq(1 .. 255) /\ Len(c) \in Nat
           /\ m.type # "INIT" =>
                 /\ Len(c) >= p - 2
                 /\ \A i \in 1 .. p - 2 : c[i] = Data(m)[i]
                 /\ p = k => Len(c) = p - 2
                 /\ p < k => Len(c) >= p - 1 /\ c[p - 1] = 49
<1>1. N \in Nat /\ N > 3 /\ k \in 1 .. N /\ p \in Nat /\ p >= 2 /\ p <= k
    BY WireAssumption DEF FirstRead
<1>2. /\ \A i \in 1 .. N : buf'[i] = IF i <= k THEN Byte(stream[i]) ELSE 0
      /\ k <= Len(stream) /\ Len(stream) \in Nat
    <2>1. Len(stream) \in Nat
        BY DEF IInv, TypeOK
    <2> QED
        BY <1>1, <2>1, BufferRead
<1>3. m \in Sent /\ p <= Len(Packet(m)) /\ Len(Packet(m)) \in 2 .. N - 2
    <2>1. p \in 1 .. p /\ p \in 1 .. Len(stream)
        BY <1>1, <1>2
    <2>2. /\ stream[p].of \in Sent /\ stream[p].at \in 1 .. Len(Packet(stream[p].of))
        BY <2>1, OfBytes DEF IInv, StreamInv
    <2>3. stream[p].of = m /\ stream[p].at = p
        BY <2>1 DEF FirstRead
    <2>4. m \in Sent /\ p \in 1 .. Len(Packet(m))
        BY <2>2, <2>3
    <2>5. Len(Packet(m)) \in 2 .. N - 2
        BY <2>4, PacketBytes DEF Sent
    <2> QED
        BY <1>1, <2>4, <2>5
<1>4. p <= N - 2
    BY <1>1, <1>3
<1>5. ASSUME NEW i \in 1 .. p
      PROVE  i \in 1 .. N /\ buf'[i] = Packet(m)[i] /\ Byte(stream[i]) = Packet(m)[i]
    <2>1. i \in 1 .. N /\ i <= k
        BY <1>1
    <2>2. Byte(stream[i]) = Packet(m)[i]
        BY DEF FirstRead, Byte
    <2> QED
        BY <1>2, <2>1, <2>2
<1>6. /\ Packet(m)[1] = 49 /\ Packet(m)[2] = Code(m.type)
      /\ Len(Packet(m)) = 2 + Len(Data(m))
      /\ \A i \in 1 .. Len(Data(m)) : Packet(m)[i + 2] = Data(m)[i]
      /\ Len(Data(m)) \in Nat
    BY <1>3, PacketParts
<1>7. /\ Code(m.type) \in 0 .. 29 /\ TypeOf(Code(m.type)) = m.type
      /\ Code(m.type) = 0 => m.type = "INIT"
    BY <1>3, CodeRead
<1>8. got' # NULL /\ got'.type = m.type
    <2>1. 1 \in 1 .. p /\ 2 \in 1 .. p
        BY <1>1
    <2>2. Byte(stream[1]) = 49 /\ Byte(stream[2]) = Code(m.type)
        BY <1>5, <1>6, <2>1
    <2> QED
        BY <1>7, <2>2, TypeRead
<1>9. /\ c \in Seq(1 .. 255) /\ Len(c) \in Nat
      /\ \A q \in 2 .. N - 1 : (\A i \in 1 .. q : buf'[i] # 0) =>
            Len(c) >= q - 2 /\ \A i \in 1 .. q - 2 : c[i] = buf'[i + 2]
      /\ \A q \in 2 .. N - 2 : buf'[q + 1] = 0 => Len(c) <= q - 2
    BY DataRead
<1>10. ASSUME m.type # "INIT"
       PROVE  \A i \in 1 .. p : buf'[i] # 0
    <2> SUFFICES ASSUME NEW i \in 1 .. p PROVE Packet(m)[i] # 0
        BY <1>5
    <2>1. CASE i = 1
        BY <1>6, <2>1
    <2>2. CASE i = 2
        BY <1>6, <1>7, <1>10, <2>2
    <2>3. CASE i > 2
        <3>1. i \in 1 .. Len(Packet(m))
            BY <1>1, <1>3
        <3>2. Packet(m)[i] >= 32
            BY <1>3, <2>3, <3>1, PacketBytes DEF Sent
        <3> QED
            BY <3>2
    <2> QED
        BY <1>1, <2>1, <2>2, <2>3
<1>11. ASSUME m.type # "INIT"
       PROVE  Len(c) >= p - 2 /\ \A i \in 1 .. p - 2 : c[i] = Data(m)[i]
    <2>1. p \in 2 .. N - 1
        BY <1>1, <1>4
    <2>2. Len(c) >= p - 2 /\ \A i \in 1 .. p - 2 : c[i] = buf'[i + 2]
        BY <1>9, <1>10, <1>11, <2>1
    <2>3. ASSUME NEW i \in 1 .. p - 2
          PROVE  c[i] = Data(m)[i]
        <3>1. i + 2 \in 1 .. p /\ i \in 1 .. Len(Data(m))
            BY <1>1, <1>3, <1>6
        <3> QED
            BY <1>5, <1>6, <2>2, <3>1
    <2> QED
        BY <2>2, <2>3
<1>12. ASSUME m.type # "INIT", p = k
       PROVE  Len(c) = p - 2
    <2>1. p \in 2 .. N - 2 /\ p + 1 \in 1 .. N /\ ~(p + 1 <= k)
        BY <1>1, <1>4, <1>12
    <2>2. buf'[p + 1] = 0
        BY <1>2, <2>1
    <2>3. Len(c) <= p - 2 /\ Len(c) >= p - 2
        BY <1>9, <1>11, <1>12, <2>1, <2>2
    <2> QED
        BY <1>1, <1>9, <2>3
<1>13. ASSUME m.type # "INIT", p < k
       PROVE  Len(c) >= p - 1 /\ c[p - 1] = 49
    <2>1. p + 1 \in 2 .. N - 1 /\ p + 1 \in 1 .. N /\ p + 1 <= k /\ p + 1 \in 1 .. Len(stream)
        BY <1>1, <1>2, <1>4, <1>13
    <2>2. Byte(stream[p + 1]) = 49
        BY <1>13, <2>1, StreamBytes DEF FirstRead
    <2>3. buf'[p + 1] = 49
        BY <1>2, <2>1, <2>2
    <2>4. \A i \in 1 .. p + 1 : i \in 1 .. p \/ i = p + 1
        BY <1>1
    <2>5. \A i \in 1 .. p + 1 : buf'[i] # 0
        BY <1>10, <1>13, <2>3, <2>4
    <2>6. Len(c) >= (p + 1) - 2 /\ \A i \in 1 .. (p + 1) - 2 : c[i] = buf'[i + 2]
        BY <1>9, <2>1, <2>5
    <2>7. (p + 1) - 2 = p - 1 /\ p - 1 \in 1 .. p - 1 /\ (p - 1) + 2 = p + 1
        BY <1>1
    <2> QED
        BY <2>3, <2>6, <2>7
<1> QED
    BY <1>1, <1>3, <1>4, <1>8, <1>9, <1>11, <1>12, <1>13

LEMMA UserBytes ==
    ASSUME NEW m \in Sent, m \in UserMessages
    PROVE  /\ m.data.name \in UserNames /\ m.data.password \in Passwords
           /\ m.data.name \in DOMAIN Text /\ m.data.password \in DOMAIN Text
           /\ m.type \in {"JOIN", "LOGIN"}
           /\ m = [type |-> m.type, data |-> [name |-> m.data.name,
                                              password |-> m.data.password]]
           /\ LET a == Len(Text[m.data.name])
                  b == Len(Text[m.data.password])
              IN  /\ Len(Data(m)) = a + 1 + b
                  /\ \A i \in 1 .. a : Data(m)[i] = Text[m.data.name][i]
                  /\ Data(m)[a + 1] = 32
                  /\ \A i \in 1 .. b : Data(m)[a + 1 + i] = Text[m.data.password][i]
<1>1. /\ m.data.name \in UserNames /\ m.data.password \in Passwords
      /\ m.type \in {"JOIN", "LOGIN"}
      /\ m = [type |-> m.type, data |-> [name |-> m.data.name, password |-> m.data.password]]
    BY DEF UserMessages
<1>2. m.data.name \in DOMAIN Text /\ m.data.password \in DOMAIN Text
    BY <1>1, WireAssumption
<1> DEFINE s == Text[m.data.name]
           t == Text[m.data.password]
           a == Len(s)
           b == Len(t)
           u == s \o <<32>>
           d == u \o t
<1>3. s \in Seq(1 .. 255) /\ t \in Seq(1 .. 255) /\ a \in Nat /\ b \in Nat
    BY <1>2, TextType
<1>4. Data(m) = d
    BY <1>1 DEF Data, NamesUser
<1> HIDE DEF s, t
<1>5. /\ u \in Seq(1 .. 255) /\ Len(u) = a + 1 /\ u[a + 1] = 32
      /\ \A i \in 1 .. a : u[i] = s[i]
    <2>1. u = Append(s, 32) /\ 32 \in 1 .. 255
        BY <1>3
    <2> HIDE DEF u
    <2>2. /\ Append(s, 32) \in Seq(1 .. 255)
          /\ Len(Append(s, 32)) = Len(s) + 1
          /\ \A i \in 1 .. Len(s) : Append(s, 32)[i] = s[i]
          /\ Append(s, 32)[Len(s) + 1] = 32
        BY <1>3, <2>1, AppendProperties
    <2> QED
        BY <2>1, <2>2 DEF a
<1> HIDE DEF a, b, u
<1>6. /\ Len(d) = a + 1 + b
      /\ \A i \in 1 .. a + 1 + b : d[i] = IF i <= a + 1 THEN u[i] ELSE t[i - (a + 1)]
    <2>1. /\ Len(d) = Len(u) + Len(t)
          /\ \A i \in 1 .. Len(u) + Len(t) : d[i] = IF i <= Len(u) THEN u[i] ELSE t[i - Len(u)]
        <3>1. u \in Seq(1 .. 255) /\ t \in Seq(1 .. 255)
            BY <1>3, <1>5
        <3> QED
            BY <3>1, ConcatProperties
    <2>2. Len(t) = b
        BY DEF b
    <2> HIDE DEF d
    <2> QED
        BY <1>5, <2>1, <2>2
<1> HIDE DEF d
<1>7. d[a + 1] = 32 /\ \A i \in 1 .. a : d[i] = s[i]
    <2>1. a + 1 \in 1 .. a + 1 + b /\ \A i \in 1 .. a : i \in 1 .. a + 1 + b /\ i <= a + 1
        BY <1>3
    <2> QED
        BY <1>3, <1>5, <1>6, <2>1
<1>8. \A i \in 1 .. b : d[a + 1 + i] = t[i]
    <2>1. \A i \in 1 .. b : /\ a + 1 + i \in 1 .. a + 1 + b /\ ~(a + 1 + i <= a + 1)
                           /\ (a + 1 + i) - (a + 1) = i
        BY <1>3
    <2> QED
        BY <1>6, <2>1
<1>9. Data(m) = d
    BY <1>4
<1> QED
    BY <1>1, <1>2, <1>6, <1>7, <1>8, <1>9 DEF a, b, s, t

LEMMA RoomBytes ==
    ASSUME NEW m \in Sent, m \in RoomMessages
    PROVE  /\ m.data \in RoomNames /\ m.data \in DOMAIN Text /\ Data(m) = Text[m.data]
           /\ m = [type |-> m.type, data |-> m.data]
           /\ m.type \in {"JOIN_ROOM", "LEAVE_ROOM", "JOIN_ROOM_SUCCESS",
                          "LEAVE_ROOM_SUCCESS"}
<1>1. /\ m.data \in RoomNames /\ m = [type |-> m.type, data |-> m.data]
      /\ m.type \in {"JOIN_ROOM", "LEAVE_ROOM", "JOIN_ROOM_SUCCESS", "LEAVE_ROOM_SUCCESS"}
    BY DEF RoomMessages
<1>2. ~NamesUser(m)
    BY <1>1 DEF NamesUser
<1>3. m.data \in DOMAIN Text
    BY <1>1, WireAssumption
<1> QED
    BY <1>1, <1>2, <1>3 DEF Data

(* A message whose data nobody looks at is read whole or not at all.       *)
LEMMA TakenPlain ==
    ASSUME IInv, NEW k \in 2 .. N, Receive(k), NEW p, FirstRead(k, p),
           NEW m, m = stream[1].of, m \in PlainMessages
    PROVE  Taken' = m
<1>1. got' # NULL /\ got'.type = m.type /\ m \in Sent
    BY FirstBytes
<1>2. m.data = Mangled /\ m.type # "UNKNOWN_TYPE" /\ m = [type |-> m.type, data |-> m.data]
    <2>1. m \in [type : ToSet(Types) \ {"UNKNOWN_TYPE"}, data : {Mangled}]
        BY DEF PlainMessages
    <2> QED
        BY <2>1
<1>3. ~NamesUser(got') /\ ~NamesRoom(got')
    BY <1>1 DEF PlainMessages, NamesUser, NamesRoom
<1>4. CASE m.type = "INIT"
    <2>1. Taken' = Fragment
        BY <1>1, <1>4 DEF Taken, Unhandled, Fragment
    <2> QED
        BY <1>2, <1>4, <2>1 DEF Fragment
<1>5. CASE m.type # "INIT"
    <2>1. got'.type \notin Unhandled
        BY <1>1, <1>2, <1>5 DEF Unhandled
    <2>2. Taken' = [type |-> got'.type, data |-> Mangled]
        BY <1>1, <1>3, <2>1 DEF Taken
    <2> QED
        BY <1>1, <1>2, <2>2
<1> QED
    BY <1>4, <1>5

(* A room is read as it was sent if the read ends with it, and may be any  *)
(* if it is cut or the next packet runs into it.                           *)
LEMMA TakenRoom ==
    ASSUME IInv, NEW k \in 2 .. N, Receive(k), NEW p, FirstRead(k, p),
           NEW m, m = stream[1].of, m \in RoomMessages
    PROVE  /\ \E r \in RoomNames \cup {Mangled} : Taken' = [m EXCEPT !.data = r]
           /\ p = k /\ p = Len(Packet(m)) => Taken' = m
<1> DEFINE c == CString(got'.data)
           x == m.data
           P == p - 2
<1>1. /\ m \in Sent /\ p \in Nat /\ p >= 2 /\ p <= Len(Packet(m)) /\ p <= N - 2
      /\ got' # NULL /\ got'.type = m.type
      /\ c \in Seq(1 .. 255) /\ Len(c) \in Nat
      /\ m.type # "INIT" =>
            /\ Len(c) >= p - 2
            /\ \A i \in 1 .. p - 2 : c[i] = Data(m)[i]
            /\ p = k => Len(c) = p - 2
            /\ p < k => Len(c) >= p - 1 /\ c[p - 1] = 49
    BY FirstBytes
<1>2. /\ x \in RoomNames /\ x \in DOMAIN Text /\ Data(m) = Text[x]
      /\ m = [type |-> m.type, data |-> x]
      /\ m.type \in {"JOIN_ROOM", "LEAVE_ROOM", "JOIN_ROOM_SUCCESS", "LEAVE_ROOM_SUCCESS"}
    BY <1>1, RoomBytes
<1>3. Len(Packet(m)) = 2 + Len(Text[x]) /\ Len(Text[x]) \in Nat
    BY <1>1, <1>2, PacketParts
<1>4. Taken' = [type |-> m.type, data |-> Name(c, RoomNames)]
    <2>1. ~NamesUser(got') /\ NamesRoom(got') /\ got'.type \notin Unhandled
        BY <1>1, <1>2 DEF NamesUser, NamesRoom, Unhandled
    <2> QED
        BY <1>1, <2>1 DEF Taken
<1>5. \E r \in RoomNames \cup {Mangled} : Taken' = [m EXCEPT !.data = r]
    <2> DEFINE r == Name(c, RoomNames)
    <2>1. RoomNames \subseteq DOMAIN Text
        BY WireAssumption
    <2> HIDE DEF c
    <2>2. r \in RoomNames \cup {Mangled}
        BY <2>1, NameRead
    <2>3. [m EXCEPT !.data = r] = [type |-> m.type, data |-> r]
        BY <1>2
    <2> QED
        BY <1>4, <2>2, <2>3
<1>6. ASSUME p = k, p = Len(Packet(m))
      PROVE  Taken' = m
    <2> HIDE DEF c, x
    <2>1. P = Len(Text[x])
        BY <1>3, <1>6
    <2>2. Len(c) = Len(Text[x]) /\ \A i \in 1 .. Len(c) : c[i] = Text[x][i]
        BY <1>1, <1>2, <1>6, <2>1
    <2>3. Text[x] \in Seq(1 .. 255)
        BY <1>2, TextType
    <2>4. c = Text[x]
        BY <1>1, <2>2, <2>3, SeqEqual
    <2>5. Name(c, RoomNames) = x
        BY <1>2, <2>4, NameRead, WireAssumption
    <2> QED
        BY <1>2, <1>4, <2>5
<1> QED
    BY <1>5, <1>6

(* Only requests name a user.                                              *)
LEMMA UserIsRequest ==
    ASSUME IInv, Len(stream) > 0, stream[1].of \in UserMessages
    PROVE  side = "request"
<1> DEFINE m == stream[1].of
<1>1. Len(stream) \in Nat /\ stream \in Seq([of : Messages, at : 1 .. N, nr : 1 .. MaxWrites])
    BY DEF IInv, TypeOK
<1>2. 1 \in 1 .. Len(stream)
    BY <1>1
<1>3. m \in Messages
    <2>1. stream[1] \in [of : Messages, at : 1 .. N, nr : 1 .. MaxWrites]
        BY <1>1, <1>2, ElementOfSeq
    <2> QED
        BY <2>1
<1>4. m \in UserMessages
    OBVIOUS
<1> HIDE DEF m
<1>5. ASSUME m \in Replies PROVE FALSE
    <2>1. m \in Sent
        BY <1>5 DEF Sent
    <2> QED
        BY <1>4, <1>5, <2>1, Shapes
<1>6. side \in {"request", "reply"}
    BY DEF IInv, TypeOK
<1> QED
    BY <1>3, <1>5, <1>6 DEF Messages

(* What a JOIN or LOGIN may be taken for.                                  *)
LEMMA ParsedUser ==
    ASSUME NEW m, NEW n, NEW broken, NamesUser(m),
           NEW u \in UserNames \cup {Mangled}, NEW w \in Passwords \cup {Mangled},
           (n = 1 /\ broken) \/ m.data.name \in Long \/ u = m.data.name,
           n = 1 /\ ~broken => w = m.data.password
    PROVE  [m EXCEPT !.data = [name |-> u, password |-> w]] \in Parsed(m, n, broken)
<1> DEFINE F(i, j) == [m EXCEPT !.data = [name |-> i, password |-> j]]
           whole == n = 1 /\ ~broken
           A == IF (n = 1 /\ broken) \/ m.data.name \in Long
                THEN UserNames \cup {Mangled} ELSE {m.data.name}
           B == IF whole THEN {m.data.password} ELSE Passwords \cup {Mangled}
           S == {F(i, j) : i \in A, j \in B}
<1>1. u \in A /\ w \in B
    OBVIOUS
<1>2. F(u, w) \in S
    <2> HIDE DEF F, A, B
    <2> QED
        BY <1>1
<1>3. Parsed(m, n, broken) = S
    BY SMT DEF Parsed
<1> HIDE DEF S, F
<1>4. F(u, w) \in Parsed(m, n, broken)
    BY <1>2, <1>3
<1> QED
    BY <1>4, Zenon DEF F

(* A request is written whole: a name that fits its array is read as it    *)
(* was sent unless the read ends inside the request, and the password      *)
(* unless another packet follows.                                          *)
LEMMA TakenUser ==
    ASSUME IInv, NEW k \in 2 .. N, Receive(k), NEW p, FirstRead(k, p),
           NEW m, m = stream[1].of, m \in UserMessages
    PROVE  \E u \in UserNames \cup {Mangled} : \E w \in Passwords \cup {Mangled} :
              /\ Taken' = [m EXCEPT !.data = [name |-> u, password |-> w]]
              /\ p = Len(Packet(m)) => m.data.name \in Long \/ u = m.data.name
              /\ p = k /\ p = Len(Packet(m)) => w = m.data.password
<1> DEFINE c == CString(got'.data)
           x == m.data.name
           y == m.data.password
           a == Len(Text[x])
           b == Len(Text[y])
           text == Skip(c)
           name == Word(text)
           password == Word(Skip(SubSeq(text, Len(name) + 1, Len(text))))
<1>1. /\ m \in Sent /\ p \in Nat /\ p >= 2 /\ p <= Len(Packet(m)) /\ p <= N - 2
      /\ got' # NULL /\ got'.type = m.type
      /\ c \in Seq(1 .. 255) /\ Len(c) \in Nat
      /\ m.type # "INIT" =>
            /\ Len(c) >= p - 2
            /\ \A i \in 1 .. p - 2 : c[i] = Data(m)[i]
            /\ p = k => Len(c) = p - 2
            /\ p < k => Len(c) >= p - 1 /\ c[p - 1] = 49
    BY FirstBytes
<1>2. /\ x \in UserNames /\ y \in Passwords /\ x \in DOMAIN Text /\ y \in DOMAIN Text
      /\ m.type \in {"JOIN", "LOGIN"}
      /\ m = [type |-> m.type, data |-> [name |-> x, password |-> y]]
      /\ Len(Data(m)) = a + 1 + b
      /\ \A i \in 1 .. a : Data(m)[i] = Text[x][i]
      /\ Data(m)[a + 1] = 32
      /\ \A i \in 1 .. b : Data(m)[a + 1 + i] = Text[y][i]
    BY <1>1, UserBytes
<1>3. side = "request"
    <2>1. Len(stream) \in Nat /\ k <= Len(stream) /\ k \in Nat /\ k >= 2
        BY WireAssumption DEF IInv, TypeOK, Receive
    <2>2. Len(stream) > 0
        BY <2>1
    <2> QED
        BY <2>2, UserIsRequest
<1>4. \E old : user' = InUser(name, password, old)
    <2>1. NamesUser(got')
        BY <1>1, <1>2 DEF NamesUser
    <2>2. GetUsernamePassword(got'.data)
        BY <1>1, <1>3, <2>1 DEF Receive
    <2> QED
        BY <2>2 DEF GetUsernamePassword
<1>5. Taken' = [type |-> m.type, data |-> [name |-> Name(user'.name, UserNames),
                                           password |-> Name(user'.password, Passwords)]]
    <2>1. NamesUser(got') /\ got'.type \notin Unhandled
        BY <1>1, <1>2 DEF NamesUser, Unhandled
    <2> QED
        BY <1>1, <2>1 DEF Taken
<1>6. UserNames \subseteq DOMAIN Text /\ Passwords \subseteq DOMAIN Text
    BY WireAssumption
<1>7. \A u, w : [m EXCEPT !.data = [name |-> u, password |-> w]]
                    = [type |-> m.type, data |-> [name |-> u, password |-> w]]
    BY <1>2
<1>8. /\ Name(user'.name, UserNames) \in UserNames \cup {Mangled}
      /\ Name(user'.password, Passwords) \in Passwords \cup {Mangled}
    BY <1>6, NameRead
<1>9. ASSUME p = Len(Packet(m))
      PROVE  /\ x \in Long \/ user'.name = Text[x]
             /\ p = k => user'.password = Text[y]
    <2> DEFINE P == p - 2
    <2>1. a \in Nat /\ b \in Nat /\ a > 0 /\ b > 0
        BY <1>2, TextType
    <2>2. Len(Packet(m)) = 2 + Len(Data(m)) /\ Len(Data(m)) \in Nat
        BY <1>1, PacketParts
    <2> HIDE DEF c, x, y, a, b
    <2>3. P = a + 1 + b /\ P \in Nat /\ P + 1 = p - 1
        BY <1>1, <1>2, <1>9, <2>1, <2>2
    <2>4. /\ Len(c) >= P /\ \A i \in 1 .. P : c[i] = Data(m)[i]
          /\ p = k => Len(c) = P
        BY <1>1, <1>2, <2>3
    <2> HIDE DEF P
    <2>5. /\ \A i \in 1 .. a : c[i] = Text[x][i]
          /\ c[a + 1] = 32
          /\ \A i \in 1 .. b : c[a + 1 + i] = Text[y][i]
        <3>1. /\ \A i \in 1 .. a : i \in 1 .. P
              /\ a + 1 \in 1 .. P
              /\ \A i \in 1 .. b : a + 1 + i \in 1 .. P
            BY <2>1, <2>3
        <3>2. \A i \in 1 .. a : c[i] = Text[x][i]
            BY <1>2, <2>4, <3>1
        <3>3. c[a + 1] = 32
            BY <1>2, <2>4, <3>1
        <3>4. ASSUME NEW i \in 1 .. b PROVE c[a + 1 + i] = Text[y][i]
            BY <1>2, <2>4, <3>1
        <3> QED
            BY <3>2, <3>3, <3>4
    <2>6. /\ name = Text[x]
          /\ Len(password) \in Nat /\ Len(password) >= b
          /\ Len(c) = P => password = Text[y]
        <3>1. c \in Seq(1 .. 255) /\ Len(c) >= a + 1 + b
            BY <1>1, <2>3, <2>4
        <3>2. P = Len(Text[x]) + 1 + Len(Text[y])
            BY <2>3 DEF a, b
        <3> HIDE DEF text, name, password
        <3>3. /\ Len(c) >= Len(Text[x]) + 1 + Len(Text[y])
              /\ \A i \in 1 .. Len(Text[x]) : c[i] = Text[x][i]
              /\ c[Len(Text[x]) + 1] = 32
              /\ \A i \in 1 .. Len(Text[y]) : c[Len(Text[x]) + 1 + i] = Text[y][i]
            BY <2>5, <3>1 DEF a, b
        <3>4. x \in DOMAIN Text /\ y \in DOMAIN Text /\ c \in Seq(1 .. 255)
            BY <1>2, <3>1
        <3>5. /\ Word(Skip(c)) = Text[x]
              /\ Len(Second(c)) \in Nat /\ Len(Second(c)) >= Len(Text[y])
              /\ Len(c) = Len(Text[x]) + 1 + Len(Text[y]) => Second(c) = Text[y]
            BY <3>3, <3>4, Scanned
        <3>6. name = Word(Skip(c)) /\ password = Second(c)
            BY DEF text, name, password, Second
        <3> QED
            BY <3>2, <3>5, <3>6 DEF b
    <2> HIDE DEF name, password, text
    <2>7. name # <<>> /\ password # <<>>
        <3>1. Len(<<>>) = 0
            OBVIOUS
        <3>2. Len(name) # 0
            BY <2>1, <2>6 DEF a
        <3>3. Len(password) # 0
            BY <2>1, <2>6
        <3> QED
            BY <3>1, <3>2, <3>3
    <2>8. MaxUsernameSize \in Nat /\ Len(name) \in Nat
        BY <2>1, <2>6, WireAssumption DEF a
    <2>9. user'.password = password /\ (Len(name) < MaxUsernameSize => user'.name = name)
        <3>1. PICK old : user' = InUser(name, password, old)
            BY <1>4
        <3> QED
            BY <2>7, <2>8, <3>1, InUserKeeps
    <2>10. x \in Long \/ Len(name) < MaxUsernameSize
        <3>1. x \in Long <=> Len(name) >= MaxUsernameSize
            BY <1>2, <2>6, WireAssumption
        <3> QED
            BY <2>8, <3>1
    <2> QED
        BY <2>4, <2>6, <2>9, <2>10
<1>10. p = Len(Packet(m)) => x \in Long \/ Name(user'.name, UserNames) = x
    <2> HIDE DEF x, y, name, password, text
    <2> QED
        BY <1>2, <1>6, <1>9, NameRead
<1>11. p = k /\ p = Len(Packet(m)) => Name(user'.password, Passwords) = y
    <2> HIDE DEF x, y, name, password, text
    <2> QED
        BY <1>2, <1>6, <1>9, NameRead
<1>12. Taken' = [m EXCEPT !.data = [name |-> Name(user'.name, UserNames),
                                    password |-> Name(user'.password, Passwords)]]
    BY <1>5, <1>7
<1> QED
    BY <1>8, <1>10, <1>11, <1>12

-----------------------------------------------------------------------------
(* Every read takes what Framing lets it take.                             *)
LEMMA TakenForIs ==
    ASSUME NEW first, NEW n, NEW broken
    PROVE  FramingSpec!TakenFor(first, n, broken) =
               (IF first.head THEN Parsed(first.of, n, broken) ELSE {Fragment})
                   \cup (IF n = 1 /\ (broken \/ ~first.head) THEN {NULL} ELSE {})
                   \cup (IF n > 1 /\ ~first.tail THEN {Fragment} ELSE {})
    BY DEF FramingSpec!TakenFor, FramingSpec!Parsed, FramingSpec!NamesUser,
           FramingSpec!NamesRoom, Parsed, NamesUser, NamesRoom

LEMMA ReadTaken ==
    ASSUME IInv, NEW k \in 1 .. N, Receive(k), NEW n, NEW broken, NEW first,
           n = Place(stream, k), first = Queue(stream)[1],
           broken <=> Inside(stream, k) \/ ~Queue(stream)[n].tail
    PROVE  Taken' \in FramingSpec!TakenFor(first, n, broken)
<1> DEFINE m == stream[1].of
           P == Len(Packet(m))
<1>1. /\ Numbered(stream) /\ Len(stream) \in Nat /\ k \in Nat /\ k >= 1 /\ k <= Len(stream)
      /\ 1 \in 1 .. Len(stream) /\ k \in 1 .. Len(stream) /\ Len(stream) > 0
    <2>1. Numbered(stream) /\ Len(stream) \in Nat
        BY DEF IInv, StreamInv, TypeOK
    <2>2. k \in Nat /\ k >= 1
        BY WireAssumption
    <2>3. k <= Len(stream)
        BY BufferRead
    <2> QED
        BY <2>1, <2>2, <2>3
<1>2. PICK p \in 1 .. k :
          /\ \A j \in 1 .. p : /\ stream[j].nr = stream[1].nr /\ stream[j].of = stream[1].of
                               /\ stream[j].at = stream[1].at + (j - 1)
          /\ \/ p = k
             \/ p < k /\ stream[p + 1].nr = stream[1].nr + 1 /\ stream[p + 1].at = 1
    BY <1>1, FirstPart
<1>3. p \in Nat /\ p >= 1 /\ p <= k /\ p \in 1 .. Len(stream) /\ p \in 1 .. p
    BY <1>1
<1>4. first = Entry(stream, 1)
    <2> DEFINE x == stream[1].nr
    <2>1. x \in Nat
        BY <1>1, OfBytes
    <2>2. Place(stream, 1) = x - x + 1
        BY DEF Place
    <2> HIDE DEF x
    <2>3. Place(stream, 1) = 1
        BY <2>1, <2>2
    <2> QED
        BY <1>1, <2>3, QueueOf
<1>5. first.of = m /\ (first.head <=> stream[1].at = 1)
    <2>1. first.of = m
        BY <1>4 DEF Entry
    <2>2. first.head <=> \E j \in 1 .. Len(stream) :
                            stream[j].nr = stream[1].nr /\ stream[j].at = 1
        BY <1>4 DEF Entry
    <2>3. ASSUME NEW j \in 1 .. Len(stream), stream[j].nr = stream[1].nr, stream[j].at = 1
          PROVE  stream[1].at = 1
        <3> DEFINE a == stream[1].at
        <3>1. stream[j].at = a + (j - 1)
            BY <1>1, <2>3, SameWrite
        <3>2. a \in Nat /\ a >= 1 /\ j >= 1 /\ j \in Nat
            <4>1. a \in Nat /\ a \in 1 .. Len(Packet(stream[1].of))
                BY <1>1, OfBytes
            <4> QED
                BY <1>1, <4>1
        <3>3. a + (j - 1) = 1
            BY <2>3, <3>1
        <3> HIDE DEF a
        <3>4. a = 1
            BY <3>2, <3>3
        <3> QED
            BY <3>4 DEF a
    <2> QED
        BY <1>1, <2>1, <2>2, <2>3
<1>6. broken <=> stream[k].at # Len(Packet(stream[k].of))
    BY <1>1, Broken
<1>7. m \in Sent /\ P \in 2 .. N - 2 /\ P \in Nat /\ P >= 2
    <2>1. m \in Sent
        BY <1>1, OfBytes
    <2>2. P \in 2 .. N - 2 /\ N \in Nat
        BY <2>1, PacketBytes, WireAssumption DEF Sent
    <2> HIDE DEF P
    <2> QED
        BY <2>1, <2>2
<1>8. n \in Nat /\ n >= 1 /\ (n = 1 <=> p = k)
    <2> DEFINE x == stream[1].nr
               y == stream[k].nr
    <2>1. x \in Nat /\ y \in Nat /\ n = y - x + 1
        BY <1>1, OfBytes DEF Place
    <2>2. x <= y
        BY <1>1, Ascending
    <2>3. p = k => y = x
        BY <1>2, <1>3
    <2>4. p < k => x + 1 <= y
        <3> SUFFICES ASSUME p < k PROVE x + 1 <= y
            OBVIOUS
        <3>1. stream[p + 1].nr = x + 1
            BY <1>2, <1>3
        <3>2. p + 1 \in 1 .. Len(stream) /\ p + 1 <= k
            BY <1>1, <1>3
        <3>3. stream[p + 1].nr <= y
            BY <1>1, <3>2, Ascending
        <3> QED
            BY <3>1, <3>3
    <2> HIDE DEF x, y
    <2> QED
        BY <1>1, <1>3, <2>1, <2>2, <2>3, <2>4
<1>9. p < k => (first.tail <=> stream[p].at = P)
    <2> SUFFICES ASSUME p < k PROVE first.tail <=> stream[p].at = P
        OBVIOUS
    <2>1. stream[p].nr = stream[1].nr /\ stream[p].of = m
        BY <1>2, <1>3
    <2>2. stream[p + 1].nr # stream[p].nr
        <3> DEFINE x == stream[1].nr
        <3>1. x \in Nat /\ stream[p + 1].nr = x + 1
            BY <1>1, <1>2, <1>3, OfBytes
        <3> HIDE DEF x
        <3>2. x + 1 # x
            BY <3>1
        <3> QED
            BY <2>1, <3>1, <3>2 DEF x
    <2>3. Entry(stream, p).tail <=> stream[p].at = P
        BY <1>1, <1>3, <2>1, <2>2, TailKnown
    <2>4. Entry(stream, p) = Entry(stream, 1)
        BY <2>1 DEF Entry
    <2> QED
        BY <1>4, <2>3, <2>4
<1> HIDE DEF m, P
<1>10. ASSUME NEW t, t \in (IF first.head THEN Parsed(m, n, broken) ELSE {Fragment})
                  \/ (t = NULL /\ n = 1 /\ (broken \/ ~first.head))
                  \/ (t = Fragment /\ n > 1 /\ ~first.tail)
       PROVE  t \in FramingSpec!TakenFor(first, n, broken)
    BY <1>5, <1>10, TakenForIs
<1>11. CASE k = 1
    <2>1. Taken' = NULL
        <3>1. got' = NULL
            BY <1>11 DEF Receive
        <3> QED
            BY <3>1 DEF Taken
    <2>2. p = 1 /\ n = 1
        BY <1>1, <1>3, <1>8, <1>11
    <2>3. broken \/ ~first.head
        <3> SUFFICES ASSUME first.head PROVE broken
            OBVIOUS
        <3>1. stream[k].at = 1 /\ stream[k].of = m
            BY <1>5, <1>11 DEF m
        <3>2. 1 # P
            BY <1>7
        <3> QED
            BY <1>6, <3>1, <3>2 DEF P
    <2> QED
        BY <1>10, <2>1, <2>2, <2>3
<1>12. ASSUME k # 1, stream[2].at > 2 \/ stream[2].at = 1
       PROVE  Taken' = Fragment
    <2>1. k \in 2 .. N /\ 2 \in 1 .. Len(stream) /\ N \in Nat
        BY <1>1, <1>12, WireAssumption
    <2>2. /\ Byte(stream[2]) \in 0 .. 255
          /\ stream[2].at = 1 => Byte(stream[2]) = 49
          /\ stream[2].at > 2 => Byte(stream[2]) >= 32
        BY <2>1, StreamBytes
    <2> DEFINE b == Byte(stream[2])
    <2>3. b \in 0 .. 255 /\ (b = 49 \/ b >= 32)
        BY <1>12, <2>2
    <2> HIDE DEF b
    <2>4. b >= 30
        BY <2>3
    <2>5. got' # NULL /\ got'.type \in Unhandled
        BY <2>1, <2>4, TypeRead DEF b
    <2> QED
        BY <2>5 DEF Taken
<1>13. CASE k # 1 /\ stream[1].at # 1
    <2>1. 1 \in 1 .. Len(stream) - 1
        BY <1>1, <1>13
    <2>2. stream[1 + 1].at = 1 \/ stream[1 + 1].at = stream[1].at + 1
        BY <1>1, <2>1, Neighbours
    <2>3. stream[2].at > 2 \/ stream[2].at = 1
        <3> DEFINE a == stream[1].at
        <3>1. a \in Nat /\ a >= 1 /\ a # 1
            <4>1. a \in Nat /\ a \in 1 .. Len(Packet(stream[1].of))
                BY <1>1, OfBytes
            <4> QED
                BY <1>7, <1>13, <4>1
        <3>2. stream[2].at = 1 \/ stream[2].at = a + 1
            BY <2>2
        <3> HIDE DEF a
        <3> QED
            BY <3>1, <3>2
    <2>4. Taken' = Fragment
        BY <1>12, <1>13, <2>3
    <2> QED
        BY <1>5, <1>10, <1>13, <2>4
<1>14. CASE k # 1 /\ stream[1].at = 1 /\ p = 1
    <2>1. p < k /\ n > 1
        BY <1>1, <1>8, <1>14
    <2>2. stream[2].at = 1
        BY <1>2, <1>14, <2>1
    <2>3. Taken' = Fragment
        BY <1>12, <1>14, <2>2
    <2>4. ~first.tail
        <3>1. 1 # P
            BY <1>7
        <3> QED
            BY <1>9, <1>14, <2>1, <3>1
    <2> QED
        BY <1>10, <2>1, <2>3, <2>4
<1>15. CASE k # 1 /\ stream[1].at = 1 /\ p # 1
    <2>1. k \in 2 .. N /\ p \in 2 .. k /\ first.head
        BY <1>1, <1>3, <1>5, <1>15, WireAssumption
    <2>2. \A j \in 1 .. p : stream[j].of = m /\ stream[j].at = j
        <3> SUFFICES ASSUME NEW j \in 1 .. p PROVE stream[j].of = m /\ stream[j].at = j
            OBVIOUS
        <3>1. stream[j].of = m /\ stream[j].at = 1 + (j - 1)
            BY <1>2, <1>15 DEF m
        <3>2. 1 + (j - 1) = j
            BY <1>3
        <3> QED
            BY <3>1, <3>2
    <2>3. FirstRead(k, p)
        BY <1>2, <2>1, <2>2 DEF FirstRead, m
    <2>4. p = k => (broken <=> p # P)
        <3> SUFFICES ASSUME p = k PROVE broken <=> p # P
            OBVIOUS
        <3>1. stream[k].of = m /\ stream[k].at = p
            BY <1>3, <2>2
        <3> QED
            BY <1>6, <3>1 DEF P
    <2>5. p < k => (first.tail <=> p = P)
        BY <1>3, <1>9, <2>2
    <2>6. p = k \/ p < k
        BY <1>1, <1>3
    <2>7. m \in UserMessages \/ m \in RoomMessages \/ m \in PlainMessages
        BY <1>7, Shapes
    <2>8. m = stream[1].of
        BY DEF m
    <2>9. Taken' \in Parsed(m, n, broken)
        <3>1. CASE m \in PlainMessages
            <4>1. Taken' = m
                BY <2>1, <2>3, <2>8, <3>1, TakenPlain
            <4>2. ~NamesUser(m) /\ ~NamesRoom(m)
                BY <3>1 DEF PlainMessages
            <4> QED
                BY <4>1, <4>2 DEF Parsed
        <3>2. CASE m \in RoomMessages
            <4>1. /\ \E r \in RoomNames \cup {Mangled} : Taken' = [m EXCEPT !.data = r]
                  /\ p = k /\ p = P => Taken' = m
                BY <2>1, <2>3, <2>8, <3>2, TakenRoom DEF P
            <4>2. NamesRoom(m) /\ ~NamesUser(m)
                BY <3>2 DEF RoomMessages, NamesRoom, NamesUser
            <4>3. CASE p = k /\ p = P
                <5>1. n = 1 /\ ~broken /\ Taken' = m
                    BY <1>8, <2>4, <4>1, <4>3
                <5> QED
                    BY <4>2, <5>1 DEF Parsed
            <4>4. CASE ~(p = k /\ p = P)
                <5>1. ~(n = 1 /\ ~broken)
                    BY <1>8, <2>4, <4>4
                <5> QED
                    BY <4>1, <4>2, <5>1 DEF Parsed
            <4> QED
                BY <4>3, <4>4
        <3>3. CASE m \in UserMessages
            <4>1. p < k => p = P
                <5> SUFFICES ASSUME p < k PROVE p = P
                    OBVIOUS
                <5>1. Whole(stream)
                    <6>1. side = "request"
                        BY <1>1, <3>3, UserIsRequest DEF m
                    <6> QED
                        BY <6>1 DEF IInv, StreamInv
                <5>2. stream[p + 1].nr # stream[p].nr
                    <6> DEFINE x == stream[1].nr
                    <6>1. x \in Nat /\ stream[p + 1].nr = x + 1 /\ stream[p].nr = x
                        <7>1. x \in Nat
                            BY <1>1, OfBytes
                        <7>2. stream[p].nr = x
                            BY <1>2, <1>3
                        <7>3. p # k
                            BY <1>1, <1>3
                        <7>4. stream[p + 1].nr = x + 1
                            BY <1>2, <7>3
                        <7> QED
                            BY <7>1, <7>2, <7>4
                    <6> HIDE DEF x
                    <6>2. x + 1 # x
                        BY <6>1
                    <6> QED
                        BY <6>1, <6>2
                <5>3. stream[p].at = Len(Packet(stream[p].of))
                    BY <1>3, <5>1, <5>2 DEF Whole
                <5> QED
                    BY <1>3, <2>2, <5>3 DEF P
            <4>2. PICK u \in UserNames \cup {Mangled} :
                      \E w \in Passwords \cup {Mangled} :
                          /\ Taken' = [m EXCEPT !.data = [name |-> u, password |-> w]]
                          /\ p = P => m.data.name \in Long \/ u = m.data.name
                          /\ p = k /\ p = P => w = m.data.password
                BY <2>1, <2>3, <2>8, <3>3, TakenUser DEF P
            <4>3. PICK w \in Passwords \cup {Mangled} :
                      /\ Taken' = [m EXCEPT !.data = [name |-> u, password |-> w]]
                      /\ p = P => m.data.name \in Long \/ u = m.data.name
                      /\ p = k /\ p = P => w = m.data.password
                BY <4>2
            <4>4. NamesUser(m)
                BY <3>3 DEF UserMessages, NamesUser
            <4>5. (n = 1 /\ broken) \/ m.data.name \in Long \/ u = m.data.name
                BY <1>8, <2>4, <2>6, <4>1, <4>3
            <4>6. n = 1 /\ ~broken => w = m.data.password
                BY <1>8, <2>4, <4>3
            <4> QED
                BY <4>3, <4>4, <4>5, <4>6, ParsedUser
        <3> QED
            BY <2>7, <3>1, <3>2, <3>3
    <2> QED
        BY <1>10, <2>1, <2>9
<1> QED
    BY <1>11, <1>13, <1>14, <1>15

LEMMA ReadStep ==
    ASSUME IInv, NEW k \in 1 .. N, Receive(k)
    PROVE  FramingSpec!Read
<1> DEFINE n == Place(stream, k)
           Q == Queue(stream)
           cut == Inside(stream, k)
<1>1. /\ Numbered(stream) /\ Len(stream) > 0 /\ k \in 1 .. Len(stream)
    <2>1. Numbered(stream) /\ Len(stream) \in Nat
        BY DEF IInv, StreamInv, TypeOK
    <2>2. k \in Nat /\ k >= 1
        BY WireAssumption
    <2>3. k <= Len(stream)
        BY BufferRead
    <2> QED
        BY <2>1, <2>2, <2>3
<1>2. n \in DOMAIN Q
    <2>1. Q \in Seq(Entries) /\ Len(Q) = Place(stream, Len(stream))
        BY <1>1, QueueOf
    <2>2. n \in 1 .. Len(Q)
        BY <1>1, <2>1, PlaceType
    <2> HIDE DEF n, Q
    <2> QED
        BY <2>1, <2>2
<1>3. Queue(stream)' = (IF cut THEN <<[Q[n] EXCEPT !.head = FALSE]>> ELSE <<>>)
                           \o SubSeq(Q, n + 1, Len(Q))
    <2>1. stream' = SubSeq(stream, k + 1, Len(stream))
        BY DEF Receive
    <2>2. Queue(stream') = (IF cut THEN <<[Q[n] EXCEPT !.head = FALSE]>> ELSE <<>>)
                               \o SubSeq(Q, n + 1, Len(Q))
        BY <1>1, <2>1, QueueRead
    <2>3. Queue(stream)' = Queue(stream')
        BY DEF Queue, Part
    <2> QED
        BY <2>2, <2>3
<1>4. Taken' \in FramingSpec!TakenFor(Q[1], n, cut \/ ~Q[n].tail)
    BY ReadTaken
<1>5. cut \in BOOLEAN
    BY DEF Inside
<1> HIDE DEF cut, n
<1> QED
    BY <1>2, <1>3, <1>4, <1>5 DEF FramingSpec!Read

LEMMA WriteStep ==
    ASSUME IInv, Send
    PROVE  FramingSpec!Write \/ UNCHANGED FramingSpec!vars
<1>1. UNCHANGED Taken
    <2>1. UNCHANGED <<side, buf, got, user>>
        BY SendStep
    <2> QED
        BY <2>1 DEF Taken
<1>2. CASE UNCHANGED <<stream, writes>>
    <2>1. Queue(stream)' = Queue(stream)
        BY <1>2 DEF Queue, Part
    <2> QED
        BY <1>1, <2>1 DEF FramingSpec!vars
<1>3. ASSUME NEW m \in Messages, NEW k \in 1 .. Len(Packet(m)),
             side = "request" => k = Len(Packet(m)),
             writes < MaxWrites, writes' = writes + 1,
             stream' = stream \o Piece(m, k, writes + 1)
      PROVE  FramingSpec!Write
    <2> DEFINE v == writes + 1
               whole == k = Len(Packet(m))
    <2>1. /\ m \in Requests \cup Replies /\ m \in Sent /\ v \in 1 .. MaxWrites
          /\ v - 1 = writes
        BY <1>3, WireAssumption DEF Messages, Sent, IInv, TypeOK
    <2>2. Numbered(stream) /\ (Len(stream) > 0 => stream[Len(stream)].nr = v - 1)
        BY <2>1 DEF IInv, StreamInv
    <2>3. stream' = stream \o Piece(m, k, v)
        BY <1>3
    <2> HIDE DEF v
    <2>4. Queue(stream') = Append(Queue(stream), [of |-> m, head |-> TRUE, tail |-> whole])
        BY <2>1, <2>2, <2>3, QueueWritten
    <2>5. Queue(stream)' = Queue(stream')
        BY DEF Queue, Part
    <2>6. whole \in BOOLEAN /\ (whole \/ m \in Replies)
        <3>1. whole \/ side # "request"
            BY <1>3
        <3> QED
            BY <3>1 DEF Messages
    <2> HIDE DEF whole
    <2> QED
        BY <1>1, <2>1, <2>4, <2>5, <2>6 DEF FramingSpec!Write
<1> QED
    BY <1>2, <1>3, SendStep

(* However the writes and the reads cut the bytes, a read makes of them    *)
(* what Parsing says, also where a name runs out of its array, and damage  *)
(* stays with the messages it happened to                                  *)
(* (message.c:167-175, packet.c:38-55, daemon.c:398-401).                   *)
THEOREM FramingTheorem == Spec => ImplementsFraming
<1>1. Init => FramingSpec!Init
    BY DEF Init, FramingSpec!Init, Queue, Taken
<1>2. IInv /\ [Next]_vars => [FramingSpec!Write \/ FramingSpec!Read]_(FramingSpec!vars)
    <2> SUFFICES ASSUME IInv, [Next]_vars
                 PROVE  [FramingSpec!Write \/ FramingSpec!Read]_(FramingSpec!vars)
        OBVIOUS
    <2>1. CASE Send
        BY <2>1, WriteStep
    <2>2. ASSUME NEW k \in 1 .. N, Receive(k) PROVE FramingSpec!Read
        BY <2>2, ReadStep
    <2>3. CASE UNCHANGED vars
        <3>1. Queue(stream)' = Queue(stream)
            BY <2>3 DEF vars, Queue, Part
        <3>2. Taken' = Taken
            BY <2>3 DEF vars, Taken
        <3> QED
            BY <3>1, <3>2 DEF FramingSpec!vars
    <2> QED
        BY <2>1, <2>2, <2>3 DEF Next
<1> QED
    BY Invariance, <1>1, <1>2, PTL DEF Spec, ImplementsFraming, FramingSpec!Spec
=============================================================================
