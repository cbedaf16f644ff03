---------------------------- MODULE Session_proofs ----------------------------
(***************************************************************************)
(* For all rooms, any number of lines typed and any number of replies a    *)
(* recv() may return: what the client and the server's side of its         *)
(* connection believe of the session, and what the client's threads find.  *)
(***************************************************************************)
EXTENDS Session, SequenceTheorems, TLAPS

(* What is in the queue, on the way to the server and on the way back.     *)
RequestSet == Commands \cup [type : {"MESSAGE"}, data : AnyName]

NetType ==
    /\ msgList \in Seq(RequestSet)
    /\ requests \in Seq(RequestSet)
    /\ replies \in Seq(ReplySet \cup {Fragment})
    /\ ~torn => replies \in Seq(ReplySet)
    /\ torn \in BOOLEAN
    /\ online \in [{fd} -> BOOLEAN]

(* The list of rooms is the current room or nothing, but between the two   *)
(* halves of room_join; a room that is not in the list is not alive.       *)
RoomInv ==
    /\ pcRecv = "cur" => use_room_list = <<Len(heap)>>
    /\ pcRecv # "cur" =>
          /\ use_room_list # <<>> => use_room_list = <<cur_room>>
          /\ Live(cur_room) => use_room_list = <<cur_room>>

(* Which replies of a sequence are of these types, and the last of them.   *)
Among(s, types) == {i \in DOMAIN s : s[i].type \in types}
LastAmong(s, types, i) == i \in Among(s, types) /\ \A j \in Among(s, types) : j <= i

SessionTypes == {"LOGIN_SUCCESS", "LOGOUT_SUCCESS"}
JoinTypes == {"JOIN_ROOM_SUCCESS"}

Reliable == ~torn /\ conn = "up"

(* What the client will show once it has received what is on its way.      *)
StatusInv ==
    Reliable =>
        /\ Among(replies, SessionTypes) = {} => (status = "ONLINE" <=> online[fd])
        /\ \A i \in DOMAIN replies : LastAmong(replies, SessionTypes, i) =>
              (replies[i].type = "LOGIN_SUCCESS" <=> online[fd])

JoinInv ==
    Reliable =>
        /\ Among(replies, JoinTypes) = {} =>
              /\ pcRecv = "cur" => RoomOf(Len(heap)) = lastJoin
              /\ pcRecv # "cur" /\ Live(cur_room) => RoomOf(cur_room) = lastJoin
        /\ \A i \in DOMAIN replies : LastAmong(replies, JoinTypes, i) => replies[i].data = lastJoin

IInv ==
    /\ TypeOK /\ NetType /\ RoomInv
    /\ StatusInv /\ JoinInv
    /\ NullIsNeverFollowed

-----------------------------------------------------------------------------
(* Taking a reply off the front, and adding one at the end.                *)
LEMMA TailAmong ==
    ASSUME NEW S, NEW s \in Seq(S), s # <<>>, NEW types
    PROVE  /\ Tail(s) \in Seq(S) /\ Len(Tail(s)) = Len(s) - 1
           /\ \A i \in DOMAIN Tail(s) : LastAmong(Tail(s), types, i) =>
                 i + 1 \in DOMAIN s /\ Tail(s)[i] = s[i + 1] /\ LastAmong(s, types, i + 1)
           /\ Among(Tail(s), types) = {} =>
                 IF Head(s).type \in types THEN LastAmong(s, types, 1) ELSE Among(s, types) = {}
<1>1. /\ Tail(s) \in Seq(S) /\ Len(Tail(s)) = Len(s) - 1
      /\ \A i \in 1 .. Len(s) - 1 : Tail(s)[i] = s[i + 1]
      /\ Len(s) \in Nat \ {0} /\ Head(s) = s[1]
    BY HeadTailProperties
<1>2. DOMAIN Tail(s) = 1 .. Len(s) - 1 /\ DOMAIN s = 1 .. Len(s)
    BY <1>1
<1>3. \A j \in DOMAIN s : j = 1 \/ (j - 1 \in DOMAIN Tail(s) /\ Tail(s)[j - 1] = s[j])
    BY <1>1, <1>2
<1>4. ASSUME NEW i \in DOMAIN Tail(s), LastAmong(Tail(s), types, i)
      PROVE  i + 1 \in DOMAIN s /\ Tail(s)[i] = s[i + 1] /\ LastAmong(s, types, i + 1)
    <2>1. i \in Nat /\ i + 1 \in DOMAIN s /\ Tail(s)[i] = s[i + 1] /\ s[i + 1].type \in types
        BY <1>1, <1>2, <1>4 DEF LastAmong, Among
    <2>2. ASSUME NEW j \in DOMAIN s, s[j].type \in types
          PROVE  j <= i + 1
        <3>1. CASE j = 1
            BY <2>1, <3>1
        <3>2. CASE j # 1
            <4>1. j - 1 \in DOMAIN Tail(s) /\ Tail(s)[j - 1].type \in types
                BY <1>3, <2>2, <3>2
            <4>2. j - 1 <= i
                BY <1>4, <4>1 DEF LastAmong, Among
            <4> QED
                BY <1>2, <2>1, <4>2
        <3> QED
            BY <3>1, <3>2
    <2> QED
        BY <2>1, <2>2 DEF LastAmong, Among
<1>5. ASSUME Among(Tail(s), types) = {}
      PROVE  IF Head(s).type \in types THEN LastAmong(s, types, 1) ELSE Among(s, types) = {}
    <2>1. \A j \in DOMAIN s : s[j].type \in types => j = 1
        BY <1>3, <1>5 DEF Among
    <2>2. 1 \in DOMAIN s /\ Head(s) = s[1]
        BY <1>1, <1>2
    <2> QED
        BY <2>1, <2>2 DEF LastAmong, Among
<1> QED
    BY <1>1, <1>4, <1>5

LEMMA Appended ==
    ASSUME NEW S, NEW s \in Seq(S), NEW x
    PROVE  /\ DOMAIN Append(s, x) = 1 .. Len(s) + 1 /\ DOMAIN s = 1 .. Len(s)
           /\ Len(s) \in Nat /\ Append(s, x)[Len(s) + 1] = x
           /\ \A i \in 1 .. Len(s) : Append(s, x)[i] = s[i]
OBVIOUS

LEMMA AppendCounted ==
    ASSUME NEW S, NEW s \in Seq(S), NEW x, NEW types, x.type \in types
    PROVE  /\ Among(Append(s, x), types) # {}
           /\ \A i : LastAmong(Append(s, x), types, i) => Append(s, x)[i] = x
<1> DEFINE t == Append(s, x)
<1>1. /\ DOMAIN t = 1 .. Len(s) + 1 /\ Len(s) \in Nat /\ t[Len(s) + 1] = x
    BY Appended
<1> HIDE DEF t
<1>2. Len(s) + 1 \in Among(t, types)
    BY <1>1 DEF Among
<1>3. ASSUME NEW i, LastAmong(t, types, i)
      PROVE  i = Len(s) + 1
    BY <1>1, <1>2, <1>3 DEF LastAmong, Among
<1>4. Among(t, types) # {} /\ \A i : LastAmong(t, types, i) => t[i] = x
    BY <1>1, <1>2, <1>3
<1> QED
    BY <1>4 DEF t

LEMMA AppendUncounted ==
    ASSUME NEW S, NEW s \in Seq(S), NEW x, NEW types, x.type \notin types
    PROVE  /\ Among(Append(s, x), types) = Among(s, types)
           /\ \A i : LastAmong(Append(s, x), types, i) =>
                 /\ i \in DOMAIN s /\ LastAmong(s, types, i)
                 /\ Append(s, x)[i] = s[i]
<1> DEFINE t == Append(s, x)
<1>1. /\ DOMAIN t = 1 .. Len(s) + 1 /\ DOMAIN s = 1 .. Len(s) /\ Len(s) \in Nat
      /\ t[Len(s) + 1] = x
      /\ \A i \in 1 .. Len(s) : t[i] = s[i]
    BY Appended
<1> HIDE DEF t
<1>2. Among(t, types) = Among(s, types)
    BY <1>1 DEF Among
<1>3. \A i : LastAmong(t, types, i) =>
          i \in DOMAIN s /\ LastAmong(s, types, i) /\ t[i] = s[i]
    BY <1>1, <1>2 DEF LastAmong, Among
<1> QED
    BY <1>2, <1>3 DEF t

-----------------------------------------------------------------------------
(* The client's other threads: nothing the receive thread owns changes.    *)
ClientQuiet ==
    /\ UNCHANGED <<roomVars, replies, conn, tables, history>>
    /\ \/ pcRecv' = pcRecv
       \/ pcRecv = "recv" /\ pcRecv' = "ended"

LEMMA Enqueued ==
    ASSUME NetType, NEW m \in RequestSet, Enqueue(m)
    PROVE  msgList' \in Seq(RequestSet)
<1>1. CASE msgList = <<>>
    BY <1>1 DEF Enqueue
<1>2. CASE msgList # <<>>
    <2>1. Head(msgList) \in RequestSet /\ Tail(msgList) \in Seq(RequestSet)
        BY <1>2, HeadTailProperties DEF NetType
    <2>2. <<Head(msgList), m>> \in Seq(RequestSet)
        BY <2>1
    <2> QED
        BY <1>2, <2>1, <2>2, ConcatProperties DEF Enqueue
<1> QED
    BY <1>1, <1>2

LEMMA OthersAreQuiet ==
    ASSUME UserStep \/ MainStep \/ Send \/ RecvError, UNCHANGED <<tables, history>>
    PROVE  ClientQuiet
<1> USE DEF roomVars, netVars, Main
<1>1. CASE UserStep
    BY <1>1 DEF UserStep, TypeCommand, TypeExit, TypeText, ClientQuiet
<1>2. CASE MainStep
    BY <1>2 DEF MainStep, CheckStatus, CheckRoom, FillMessage, ClientQuiet
<1>3. CASE Send
    BY <1>3 DEF Send, ClientQuiet
<1>4. CASE RecvError
    BY <1>4 DEF RecvError, Recv, ClientQuiet
<1> QED
    BY <1>1, <1>2, <1>3, <1>4

LEMMA OthersKeepTypes ==
    ASSUME TypeOK, UserStep \/ MainStep \/ Send \/ RecvError, UNCHANGED <<tables, history>>
    PROVE  TypeOK'
<1> USE DEF TypeOK, Main
<1>1. ClientQuiet
    BY OthersAreQuiet
<1>2. CASE UserStep
    <2>1. client' \in {"running", "exited"} /\ pcMain' \in {"input", "status"} /\ pcRecv' = pcRecv
        BY <1>2 DEF UserStep, TypeCommand, TypeExit, TypeText, Running
    <2>2. lines' \in 0 .. MaxLines
        BY <1>2, ClientAssumption DEF UserStep, TypeCommand, TypeExit, TypeText, NewLine
    <2> QED
        BY <1>1, <2>1, <2>2 DEF ClientQuiet, roomVars
<1>3. CASE MainStep
    <2>1. UNCHANGED <<client, lines, pcRecv>> /\ pcMain' \in {"input", "room", "fill"}
        BY <1>3 DEF MainStep, CheckStatus, CheckRoom, FillMessage
    <2> QED
        BY <1>1, <2>1 DEF ClientQuiet, roomVars
<1>4. CASE Send \/ RecvError
    <2>1. UNCHANGED <<lines, pcMain>> /\ client' \in {"running", "exited", "killed"}
        BY <1>4 DEF Send, RecvError
    <2> QED
        BY <1>1, <2>1 DEF ClientQuiet, roomVars
<1> QED
    BY <1>2, <1>3, <1>4

LEMMA LiveRoom ==
    ASSUME TypeOK, Live(cur_room)
    PROVE  RoomOf(cur_room) \in AnyName
<1> DEFINE Nodes == [room : AnyName, live : BOOLEAN]
<1>1. cur_room \in DOMAIN heap /\ heap \in Seq(Nodes)
    BY DEF Live, TypeOK
<1> HIDE DEF Nodes
<1>2. heap[cur_room] \in Nodes
    BY <1>1
<1> USE DEF Nodes
<1> QED
    BY <1>2 DEF RoomOf

LEMMA OthersKeepNet ==
    ASSUME TypeOK, NetType,
           UserStep \/ MainStep \/ Send \/ RecvError, UNCHANGED <<tables, history>>
    PROVE  NetType'
<1>1. UNCHANGED <<replies, torn, online>>
    BY OthersAreQuiet DEF ClientQuiet, tables, history
<1> SUFFICES msgList' \in Seq(RequestSet) /\ requests' \in Seq(RequestSet)
    BY <1>1 DEF NetType
<1>2. CASE TypeCommand
    <2>1. PICK m \in Commands : Enqueue(m)
        BY <1>2 DEF TypeCommand
    <2>2. msgList' \in Seq(RequestSet)
        BY <2>1, Enqueued DEF RequestSet
    <2> QED
        BY <1>2, <2>2 DEF TypeCommand, netVars, NetType
<1>3. CASE FillMessage
    <2>1. PICK r \in IF Live(cur_room) THEN {RoomOf(cur_room)} ELSE AnyName :
            Enqueue([type |-> "MESSAGE", data |-> r])
        BY <1>3 DEF FillMessage
    <2>2. r \in AnyName
        <3>1. CASE Live(cur_room)
            BY <2>1, <3>1, LiveRoom
        <3>2. CASE ~Live(cur_room)
            BY <3>2
        <3> QED
            BY <3>1, <3>2
    <2>3. [type |-> "MESSAGE", data |-> r] \in RequestSet
        BY <2>2 DEF RequestSet
    <2>4. msgList' \in Seq(RequestSet)
        BY <2>1, <2>3, Enqueued
    <2> QED
        BY <1>3, <2>4 DEF FillMessage, netVars, NetType
<1>4. CASE Send
    <2>1. Head(msgList) \in RequestSet /\ Tail(msgList) \in Seq(RequestSet)
        BY <1>4, HeadTailProperties DEF Send, NetType
    <2>2. Append(requests, Head(msgList)) \in Seq(RequestSet)
        BY <2>1, AppendProperties DEF NetType
    <2> QED
        BY <1>4, <2>1, <2>2 DEF Send, NetType
<1>5. CASE TypeExit \/ TypeText \/ CheckStatus \/ CheckRoom \/ RecvError
    BY <1>5 DEF TypeExit, TypeText, CheckStatus, CheckRoom, RecvError, netVars, NetType
<1> QED
    BY <1>2, <1>3, <1>4, <1>5 DEF UserStep, MainStep

LEMMA QuietKeeps ==
    ASSUME IInv, ClientQuiet
    PROVE  RoomInv' /\ StatusInv' /\ JoinInv'
<1> USE DEF IInv, ClientQuiet, roomVars, tables, history
<1>1. RoomInv'
    BY DEF RoomInv, Live
<1>2. StatusInv'
    BY DEF StatusInv, Reliable, Among, LastAmong
<1>3. JoinInv'
    BY DEF JoinInv, Reliable, Among, LastAmong, Live, RoomOf
<1> QED
    BY <1>1, <1>2, <1>3

-----------------------------------------------------------------------------
(* The receive thread.                                                     *)
ReceivedOne ==
    /\ replies # <<>> /\ replies' = Tail(replies)
    /\ ProcessMessage(Head(replies))

LEMMA ParsedReply ==
    ASSUME NEW m \in ReplySet, NEW n, NEW cut, NEW p \in Boundaries!Parsed(m, n, cut)
    PROVE  /\ p.type = m.type
           /\ p.type = "JOIN_ROOM_SUCCESS" => p.data \in AnyName
           /\ n = 1 /\ ~cut => p = m
<1> USE DEF ReplySet, AnyName, Names
<1>1. ~Boundaries!NamesUser(m)
    BY DEF Boundaries!NamesUser
<1>2. \/ p = m
      \/ ~(n = 1 /\ ~cut) /\ \E r \in Names \cup {Mangled} : p = [m EXCEPT !.data = r]
    BY <1>1 DEF Boundaries!Parsed
<1>3. CASE p = m
    BY <1>3
<1>4. CASE ~(n = 1 /\ ~cut) /\ \E r \in Names \cup {Mangled} : p = [m EXCEPT !.data = r]
    <2>1. PICK r \in Names \cup {Mangled} : p = [m EXCEPT !.data = r]
        BY <1>4
    <2>2. p.type = m.type /\ (p.type = "JOIN_ROOM_SUCCESS" => p.data = r)
        BY <2>1
    <2> QED
        BY <1>4, <2>1, <2>2
<1> QED
    BY <1>2, <1>3, <1>4

(* As long as no recv() was torn, what it returned is the next reply.      *)
LEMMA OneReply ==
    ASSUME NetType, RecvReplies, torn' = (torn \/ (replies' # replies /\ replies' # Tail(replies))),
           ~torn'
    PROVE  ReceivedOne
<1>1. PICK n \in 1 .. MaxPerRead, cut \in {FALSE, SplitReads} :
        /\ n <= Len(replies)
        /\ ProcessRecvBuf(n, cut)
        /\ replies' = (IF cut THEN <<Fragment>> ELSE <<>>) \o SubSeq(replies, n + 1, Len(replies))
    BY DEF RecvReplies
<1>2. n \in Nat \ {0}
    BY ClientAssumption
<1>3. replies \in Seq(ReplySet) /\ Fragment \notin ReplySet /\ ~torn
    BY ClientAssumption DEF NetType
<1>4. /\ replies # <<>> /\ Tail(replies) \in Seq(ReplySet) /\ Len(Tail(replies)) = Len(replies) - 1
      /\ \A i \in 1 .. Len(replies) - 1 : Tail(replies)[i] = replies[i + 1]
    BY <1>1, <1>2, <1>3, HeadTailProperties
<1> DEFINE rest == SubSeq(replies, n + 1, Len(replies))
<1>5. /\ rest \in Seq(ReplySet) /\ Len(rest) = Len(replies) - n
      /\ \A i \in 1 .. Len(replies) - n : rest[i] = replies[n + i]
    BY <1>1, <1>2, <1>3
<1>6. ~cut
    <2> SUFFICES ASSUME cut
                 PROVE  FALSE
        OBVIOUS
    <2>1. replies' = <<Fragment>> \o rest
        BY <1>1
    <2> HIDE DEF rest
    <2>2. 1 \in DOMAIN replies' /\ replies'[1] = Fragment
        BY <1>5, <2>1
    <2>3. replies' \notin Seq(ReplySet)
        BY <1>3, <2>2
    <2> QED
        BY <1>3, <1>4, <2>3
<1>7. replies' = rest
    BY <1>1, <1>5, <1>6
<1> HIDE DEF rest
<1>8. n = 1
    <2>1. replies' = replies \/ replies' = Tail(replies)
        OBVIOUS
    <2>2. Len(replies') = Len(replies) \/ Len(replies') = Len(replies) - 1
        BY <1>4, <2>1
    <2>3. Len(replies') = Len(replies) - n /\ Len(replies) \in Nat
        BY <1>3, <1>5, <1>7
    <2> QED
        BY <1>2, <2>2, <2>3
<1>9. replies' = Tail(replies)
    BY <1>2, <1>3, <1>4, <1>5, <1>7, <1>8
<1>10. Head(replies) \in ReplySet
    BY <1>3, <1>4, HeadTailProperties
<1>11. PICK p \in Boundaries!Parsed(Head(replies), n, cut) : ProcessMessage(p)
    BY <1>1, <1>3, <1>6, <1>10 DEF ProcessRecvBuf
<1>12. p = Head(replies)
    BY <1>6, <1>8, <1>10, ParsedReply
<1> QED
    BY <1>4, <1>9, <1>11, <1>12 DEF ReceivedOne

LEMMA RepliesTyped ==
    ASSUME NetType, RecvReplies
    PROVE  replies' \in Seq(ReplySet \cup {Fragment})
<1>1. PICK n \in 1 .. MaxPerRead, cut \in {FALSE, SplitReads} :
        /\ n <= Len(replies)
        /\ replies' = (IF cut THEN <<Fragment>> ELSE <<>>) \o SubSeq(replies, n + 1, Len(replies))
    BY DEF RecvReplies
<1>2. n \in Nat
    BY ClientAssumption
<1> DEFINE All == ReplySet \cup {Fragment}
           rest == SubSeq(replies, n + 1, Len(replies))
<1>3. rest \in Seq(All)
    BY <1>2 DEF NetType
<1>4. <<Fragment>> \in Seq(All) /\ <<>> \in Seq(All)
    OBVIOUS
<1> HIDE DEF rest, All
<1>5. <<Fragment>> \o rest \in Seq(All) /\ <<>> \o rest \in Seq(All)
    BY <1>3, <1>4, ConcatProperties
<1> QED
    BY <1>1, <1>5 DEF All, rest

(* What a reply, however it was taken, does to the client.                 *)
Acted ==
    \/ Recv("recv", "recv") /\ client' \in {"running", "killed"} /\ UNCHANGED roomVars
    \/ LoginSuccess
    \/ LogoutSuccess
    \/ \E r \in AnyName : RoomJoin(r)

LEMMA ActedOn ==
    ASSUME NetType, RecvReplies
    PROVE  Acted
<1>1. PICK n \in 1 .. MaxPerRead, cut \in {FALSE, SplitReads} :
        n <= Len(replies) /\ ProcessRecvBuf(n, cut)
    BY DEF RecvReplies
<1>2. Head(replies) \in ReplySet \cup {Fragment}
    <2>1. n \in Nat \ {0}
        BY ClientAssumption
    <2>2. replies # <<>>
        BY <1>1, <2>1 DEF NetType
    <2> QED
        BY <2>2, HeadTailProperties DEF NetType
<1>3. ASSUME Head(replies) # Fragment,
             NEW p \in Boundaries!Parsed(Head(replies), n, cut), ProcessMessage(p)
      PROVE  Acted
    <2>1. p.type = "JOIN_ROOM_SUCCESS" => p.data \in AnyName
        BY <1>2, <1>3, ParsedReply
    <2> QED
        BY <1>3, <2>1 DEF ProcessMessage, Acted, Recv, Running
<1>4. CASE Runt
    BY <1>4 DEF Runt, Acted
<1>5. CASE /\ Head(replies) # Fragment
           /\ \E p \in Boundaries!Parsed(Head(replies), n, cut) : ProcessMessage(p)
    <2>1. PICK p \in Boundaries!Parsed(Head(replies), n, cut) : ProcessMessage(p)
        BY <1>5
    <2> QED
        BY <1>3, <1>5, <2>1
<1>6. CASE Recv("recv", "recv") /\ UNCHANGED <<client, roomVars>>
    BY <1>6 DEF Acted, Recv, Running
<1> QED
    BY <1>1, <1>4, <1>5, <1>6 DEF ProcessRecvBuf

(* room_join makes a node, and a list of just that node.                   *)
LEMMA Linked ==
    ASSUME TypeOK, RoomInv, pcRecv = "recv"
    PROVE  Link(Len(heap) + 1) = <<Len(heap) + 1>>
<1>1. CASE use_room_list = <<>>
    BY <1>1 DEF Link
<1>2. CASE use_room_list = <<cur_room>>
    <2>1. use_room_list \in Seq(DOMAIN heap) /\ Len(use_room_list) = 1 /\ use_room_list # <<>>
        BY <1>2 DEF TypeOK
    <2>2. Tail(use_room_list) \in Seq(DOMAIN heap) /\ Len(Tail(use_room_list)) = 0
        BY <2>1, HeadTailProperties
    <2>3. Tail(use_room_list) = <<>>
        BY <2>2, EmptySeq
    <2>4. Link(Len(heap) + 1) = <<Len(heap) + 1>> \o <<>>
        BY <2>1, <2>3 DEF Link
    <2>5. <<Len(heap) + 1>> \in Seq({Len(heap) + 1})
        OBVIOUS
    <2> QED
        BY <2>4, <2>5, ConcatEmptySeq
<1> QED
    BY <1>1, <1>2 DEF RoomInv

Nodes == [room : AnyName, live : BOOLEAN]

LEMMA NewNode ==
    ASSUME TypeOK, NEW r \in AnyName, heap' = Append(heap, [room |-> r, live |-> TRUE])
    PROVE  /\ heap' \in Seq(Nodes) /\ Len(heap') = Len(heap) + 1 /\ Len(heap) \in Nat
           /\ DOMAIN heap' = 1 .. Len(heap) + 1 /\ DOMAIN heap = 1 .. Len(heap)
           /\ heap'[Len(heap) + 1] = [room |-> r, live |-> TRUE]
           /\ \A n \in DOMAIN heap : heap'[n] = heap[n]
<1>1. heap \in Seq(Nodes) /\ [room |-> r, live |-> TRUE] \in Nodes
    BY DEF TypeOK, Nodes
<1> HIDE DEF Nodes
<1> QED
    BY <1>1

LEMMA ActedKeeps ==
    ASSUME TypeOK, RoomInv, Acted, UNCHANGED <<pcMain, lines, conn>>
    PROVE  TypeOK' /\ RoomInv'
<1> USE DEF Recv
<1>1. CASE Recv("recv", "recv") /\ client' \in {"running", "killed"} /\ UNCHANGED roomVars
    BY <1>1 DEF roomVars, TypeOK, RoomInv, Live
<1>2. CASE LoginSuccess \/ LogoutSuccess
    <2>1. /\ UNCHANGED <<client, use_room_list, cur_room, heap>>
          /\ status' \in {"OFFLINE", "ONLINE"}
          /\ pcRecv = "recv" /\ pcRecv' \in {"recv", "free"}
        BY <1>2 DEF LoginSuccess, LogoutSuccess
    <2>2. TypeOK'
        BY <2>1 DEF TypeOK
    <2> QED
        BY <2>1, <2>2 DEF RoomInv, Live
<1>3. ASSUME NEW r \in AnyName, RoomJoin(r), AlreadyJoined(r)
      PROVE  TypeOK' /\ RoomInv'
    BY <1>3 DEF RoomJoin, roomVars, TypeOK, RoomInv, Live
<1>4. ASSUME NEW r \in AnyName, RoomJoin(r), ~AlreadyJoined(r)
      PROVE  TypeOK' /\ RoomInv'
    <2>1. /\ pcRecv = "recv" /\ pcRecv' = "cur"
          /\ heap' = Append(heap, [room |-> r, live |-> TRUE])
          /\ use_room_list' = Link(Len(heap) + 1)
          /\ client' \in {"running", "killed"}
          /\ UNCHANGED <<status, cur_room>>
        BY <1>4 DEF RoomJoin
    <2>2. use_room_list' = <<Len(heap')>> /\ Len(heap') \in DOMAIN heap'
        BY <2>1, Linked, NewNode
    <2>3. use_room_list' \in Seq(DOMAIN heap')
        BY <2>2
    <2>4. cur_room' \in DOMAIN heap' \cup {NULL}
        BY <2>1, NewNode DEF TypeOK
    <2>5. TypeOK'
        BY <2>1, <2>3, <2>4, NewNode DEF TypeOK, Nodes
    <2> QED
        BY <2>1, <2>2, <2>5 DEF RoomInv
<1> QED
    BY <1>1, <1>2, <1>3, <1>4 DEF Acted

(* The second half of room_join, and room_destory.                         *)
LEMMA SecondHalf ==
    ASSUME TypeOK, RoomInv, SetCurRoom
    PROVE  /\ TypeOK' /\ RoomInv'
           /\ cur_room' \in Nat
           /\ pcRecv = "cur" /\ pcRecv' = "recv" /\ cur_room' = Len(heap) /\ heap' = heap
           /\ UNCHANGED <<status, pcMain, conn, replies, msgList, requests>>
<1>1. /\ pcRecv = "cur" /\ pcRecv' = "recv" /\ cur_room' = Len(heap)
      /\ UNCHANGED <<client, status, use_room_list, heap, pcMain, msgList, lines>>
      /\ UNCHANGED <<conn, requests, replies>>
    BY DEF SetCurRoom, Recv, netVars
<1>2. use_room_list = <<Len(heap)>>
    BY <1>1 DEF RoomInv
<1>3. Len(heap) \in DOMAIN heap /\ Len(heap) \in Nat
    BY <1>2 DEF TypeOK
<1>4. TypeOK'
    BY <1>1, <1>3 DEF TypeOK
<1>5. RoomInv'
    BY <1>1, <1>2 DEF RoomInv
<1> QED
    BY <1>1, <1>3, <1>4, <1>5

LEMMA Destroyed ==
    ASSUME TypeOK, RoomInv, RoomDestory
    PROVE  /\ TypeOK' /\ RoomInv'
           /\ pcRecv = "free" /\ pcRecv' = "recv" /\ ~Live(cur_room)'
           /\ UNCHANGED <<status, cur_room, pcMain, conn, replies, msgList, requests>>
<1>1. /\ pcRecv = "free" /\ pcRecv' = "recv" /\ use_room_list' = <<>>
      /\ UNCHANGED <<client, status, cur_room, pcMain, msgList, lines>>
      /\ UNCHANGED <<conn, requests, replies>>
      /\ heap' = [n \in DOMAIN heap |->
                    [heap[n] EXCEPT !.live = @ /\ n \notin ToSet(use_room_list)]]
    BY DEF RoomDestory, Recv, netVars
<1>2. heap \in Seq(Nodes) /\ DOMAIN heap = 1 .. Len(heap) /\ Len(heap) \in Nat
    BY DEF TypeOK, Nodes
<1>3. \A n \in DOMAIN heap : heap[n] \in Nodes
    <2> HIDE DEF Nodes
    <2> QED
        BY <1>2
<1>4. \A n \in DOMAIN heap :
        [heap[n] EXCEPT !.live = @ /\ n \notin ToSet(use_room_list)] \in Nodes
    BY <1>3 DEF Nodes
<1>5. heap' \in [1 .. Len(heap) -> Nodes]
    <2> HIDE DEF Nodes
    <2> QED
        BY <1>1, <1>2, <1>4
<1>6. heap' \in Seq(Nodes) /\ DOMAIN heap' = DOMAIN heap
    <2> HIDE DEF Nodes
    <2> QED
        BY <1>2, <1>5
<1>7. TypeOK'
    BY <1>1, <1>6 DEF TypeOK, Nodes
<1>8. ~Live(cur_room)'
    <2> SUFFICES ASSUME cur_room \in DOMAIN heap
                 PROVE  ~heap'[cur_room].live
        BY <1>1 DEF Live, TypeOK
    <2>1. heap'[cur_room] =
            [heap[cur_room] EXCEPT !.live = @ /\ cur_room \notin ToSet(use_room_list)]
        BY <1>1
    <2>2. heap'[cur_room].live = (heap[cur_room].live /\ cur_room \notin ToSet(use_room_list))
        BY <1>3, <2>1 DEF Nodes
    <2>3. CASE heap[cur_room].live
        <3>1. use_room_list = <<cur_room>>
            BY <1>1, <1>2, <2>3, ClientAssumption DEF RoomInv, Live
        <3>2. cur_room \in ToSet(use_room_list)
            BY <3>1 DEF ToSet
        <3> QED
            BY <2>2, <3>2
    <2> QED
        BY <2>2, <2>3
<1>9. RoomInv'
    BY <1>1, <1>8 DEF RoomInv
<1> QED
    BY <1>1, <1>7, <1>8, <1>9

(* One reply taken off the wire has done what it was going to do.          *)
LEMMA ReceivedStatus ==
    ASSUME NetType, StatusInv, ReceivedOne, ~torn, UNCHANGED <<conn, online>>
    PROVE  StatusInv'
<1> DEFINE h == Head(replies)
<1> SUFFICES ASSUME conn = "up"
             PROVE  /\ Among(replies', SessionTypes) = {} => (status' = "ONLINE" <=> online[fd])
                    /\ \A i \in DOMAIN replies' : LastAmong(replies', SessionTypes, i) =>
                          (replies'[i].type = "LOGIN_SUCCESS" <=> online[fd])
    BY DEF StatusInv, Reliable
<1>1. /\ replies \in Seq(ReplySet) /\ replies # <<>> /\ replies' = Tail(replies)
      /\ h = replies[1] /\ 1 \in DOMAIN replies
    BY HeadTailProperties DEF NetType, ReceivedOne
<1>2. /\ Among(replies, SessionTypes) = {} => (status = "ONLINE" <=> online[fd])
      /\ \A i \in DOMAIN replies : LastAmong(replies, SessionTypes, i) =>
            (replies[i].type = "LOGIN_SUCCESS" <=> online[fd])
    BY DEF StatusInv, Reliable
<1>3. /\ h.type = "LOGIN_SUCCESS" => status' = "ONLINE"
      /\ h.type = "LOGOUT_SUCCESS" => status' = "OFFLINE"
      /\ h.type \notin SessionTypes => status' = status
    BY DEF ReceivedOne, ProcessMessage, LoginSuccess, LogoutSuccess, RoomJoin, roomVars,
        SessionTypes
<1>4. ASSUME NEW i \in DOMAIN replies', LastAmong(replies', SessionTypes, i)
      PROVE  replies'[i].type = "LOGIN_SUCCESS" <=> online[fd]
    BY <1>1, <1>2, <1>4, TailAmong
<1>5. ASSUME Among(replies', SessionTypes) = {}
      PROVE  status' = "ONLINE" <=> online[fd]
    <2>1. IF h.type \in SessionTypes THEN LastAmong(replies, SessionTypes, 1)
          ELSE Among(replies, SessionTypes) = {}
        BY <1>1, <1>5, TailAmong
    <2>2. CASE h.type \in SessionTypes
        BY <1>1, <1>2, <1>3, <2>1, <2>2 DEF SessionTypes
    <2>3. CASE h.type \notin SessionTypes
        BY <1>2, <1>3, <2>1, <2>3
    <2> QED
        BY <2>2, <2>3
<1> QED
    BY <1>4, <1>5

LEMMA ReceivedJoin ==
    ASSUME TypeOK, NetType, RoomInv, JoinInv, ReceivedOne, ~torn, UNCHANGED <<conn, lastJoin>>
    PROVE  JoinInv'
<1> DEFINE h == Head(replies)
           Agrees == /\ pcRecv = "cur" => RoomOf(Len(heap)) = lastJoin
                     /\ pcRecv # "cur" /\ Live(cur_room) => RoomOf(cur_room) = lastJoin
<1> SUFFICES ASSUME conn = "up"
             PROVE  /\ Among(replies', JoinTypes) = {} => Agrees'
                    /\ \A i \in DOMAIN replies' : LastAmong(replies', JoinTypes, i) =>
                          replies'[i].data = lastJoin
    BY DEF JoinInv, Reliable
<1>1. /\ replies \in Seq(ReplySet) /\ replies # <<>> /\ replies' = Tail(replies)
      /\ h = replies[1] /\ 1 \in DOMAIN replies /\ h \in ReplySet
    BY HeadTailProperties DEF NetType, ReceivedOne
<1>2. /\ Among(replies, JoinTypes) = {} => Agrees
      /\ \A i \in DOMAIN replies : LastAmong(replies, JoinTypes, i) => replies[i].data = lastJoin
    BY DEF JoinInv, Reliable
<1>3. ASSUME NEW i \in DOMAIN replies', LastAmong(replies', JoinTypes, i)
      PROVE  replies'[i].data = lastJoin
    BY <1>1, <1>2, <1>3, TailAmong
<1>4. ASSUME Among(replies', JoinTypes) = {}, h.type = "JOIN_ROOM_SUCCESS"
      PROVE  Agrees'
    <2>1. h.data = lastJoin /\ h.data \in AnyName
        <3>1. LastAmong(replies, JoinTypes, 1)
            BY <1>1, <1>4, TailAmong DEF JoinTypes
        <3> QED
            BY <1>1, <1>2, <1>4, <3>1 DEF ReplySet, AnyName, Names
    <2>2. RoomJoin(h.data) /\ pcRecv = "recv"
        BY <1>4 DEF ReceivedOne, ProcessMessage, RoomJoin, Recv
    <2>3. CASE AlreadyJoined(h.data)
        <3>1. PICK n \in ToSet(use_room_list) : RoomOf(n) = h.data
            BY <2>3 DEF AlreadyJoined
        <3>2. use_room_list = <<cur_room>>
            BY <2>2, <3>1 DEF RoomInv, ToSet
        <3>3. RoomOf(cur_room) = h.data
            BY <3>1, <3>2 DEF ToSet
        <3>4. UNCHANGED roomVars /\ pcRecv' = "recv"
            BY <2>2, <2>3 DEF RoomJoin, Recv
        <3> QED
            BY <2>1, <3>3, <3>4 DEF roomVars, RoomOf
    <2>4. CASE ~AlreadyJoined(h.data)
        <3>1. pcRecv' = "cur" /\ heap' = Append(heap, [room |-> h.data, live |-> TRUE])
            BY <2>2, <2>4 DEF RoomJoin, Recv
        <3>2. heap'[Len(heap')].room = h.data
            BY <2>1, <3>1, NewNode
        <3> QED
            BY <2>1, <3>1, <3>2 DEF RoomOf
    <2> QED
        BY <2>3, <2>4
<1>5. ASSUME Among(replies', JoinTypes) = {}, h.type # "JOIN_ROOM_SUCCESS"
      PROVE  Agrees'
    <2>1. pcRecv = "recv" /\ pcRecv' # "cur" /\ UNCHANGED <<heap, cur_room>>
        BY <1>5 DEF ReceivedOne, ProcessMessage, LoginSuccess, LogoutSuccess, Recv, roomVars
    <2>2. Among(replies, JoinTypes) = {}
        BY <1>1, <1>5, TailAmong DEF JoinTypes
    <2> QED
        BY <1>2, <2>1, <2>2 DEF Live, RoomOf
<1> QED
    BY <1>3, <1>4, <1>5

LEMMA NextReceive ==
    ASSUME IInv, Receive
    PROVE  IInv'
<1> USE DEF IInv
<1>1. /\ RecvReplies \/ SetCurRoom \/ RoomDestory
      /\ torn' = (torn \/ (replies' # replies /\ replies' # Tail(replies)))
      /\ UNCHANGED <<online, lastJoin>>
    BY DEF Receive, RecvStep, tables
<1>2. torn' \in BOOLEAN /\ (torn => torn')
    BY <1>1 DEF NetType
<1>3. CASE RecvReplies
    <2>1. Acted /\ UNCHANGED <<pcMain, msgList, lines, conn, requests>>
        BY <1>3, ActedOn DEF RecvReplies
    <2>2. TypeOK' /\ RoomInv'
        BY <2>1, ActedKeeps
    <2>3. NullIsNeverFollowed'
        BY <2>1 DEF Acted, LoginSuccess, LogoutSuccess, RoomJoin, roomVars, NullIsNeverFollowed
    <2>4. CASE torn'
        BY <1>1, <1>2, <1>3, <2>1, <2>2, <2>3, <2>4, RepliesTyped
        DEF NetType, StatusInv, JoinInv, Reliable
    <2>5. CASE ~torn'
        <3>1. ReceivedOne /\ ~torn
            BY <1>1, <1>2, <1>3, <2>5, OneReply
        <3>2. StatusInv' /\ JoinInv'
            BY <1>1, <2>1, <3>1, ReceivedStatus, ReceivedJoin
        <3>3. replies' \in Seq(ReplySet)
            BY <3>1, HeadTailProperties DEF NetType, ReceivedOne
        <3> QED
            BY <1>1, <1>2, <1>3, <2>1, <2>2, <2>3, <3>2, <3>3, RepliesTyped DEF NetType
    <2> QED
        BY <2>4, <2>5
<1>4. CASE SetCurRoom
    <2>1. torn' = torn
        BY <1>1, <1>4, SecondHalf DEF NetType
    <2>2. NetType' /\ StatusInv'
        BY <1>1, <1>4, <2>1, SecondHalf DEF NetType, StatusInv, Reliable, Among, LastAmong
    <2>3. JoinInv'
        BY <1>1, <1>4, <2>1, SecondHalf DEF JoinInv, Reliable, Among, LastAmong, RoomOf
    <2>4. NullIsNeverFollowed'
        BY <1>4, SecondHalf, ClientAssumption DEF NullIsNeverFollowed
    <2> QED
        BY <1>4, <2>2, <2>3, <2>4, SecondHalf
<1>5. CASE RoomDestory
    <2>1. torn' = torn
        BY <1>1, <1>5, Destroyed DEF NetType
    <2>2. NetType' /\ StatusInv'
        BY <1>1, <1>5, <2>1, Destroyed DEF NetType, StatusInv, Reliable, Among, LastAmong
    <2>3. JoinInv'
        BY <1>1, <1>5, <2>1, Destroyed DEF JoinInv, Reliable, Among, LastAmong
    <2>4. NullIsNeverFollowed'
        BY <1>5, Destroyed DEF NullIsNeverFollowed
    <2> QED
        BY <1>5, <2>2, <2>3, <2>4, Destroyed
<1> QED
    BY <1>1, <1>3, <1>4, <1>5

-----------------------------------------------------------------------------
(* The server.                                                             *)
Matches(m) ==
    /\ m.type \in SessionTypes => (online'[fd] <=> m.type = "LOGIN_SUCCESS")
    /\ m.type \notin SessionTypes => online' = online
    /\ lastJoin' = IF m.type \in JoinTypes THEN m.data ELSE lastJoin

Answered ==
    \/ UNCHANGED <<replies, conn, online, lastJoin>>
    \/ conn' = "lost" /\ UNCHANGED replies
    \/ /\ conn' = "up"
       /\ \E m \in ReplySet : replies' = Append(replies, m) /\ Matches(m)

LEMMA Answers ==
    ASSUME NEW m \in ReplySet, Answer(m), Matches(m)
    PROVE  Answered
<1>1. CASE server' = "running"
    BY <1>1 DEF Answer, Answered
<1>2. CASE server' # "running"
    BY <1>2 DEF Answer, Answered
<1> QED
    BY <1>1, <1>2

LEMMA OneSlot == Tables!Slots = {fd}
BY SessionAssumption DEF Tables!Slots

LEMMA ServerAnswers ==
    ASSUME NetType, ServerStep
    PROVE  Answered /\ requests' \in Seq(RequestSet) /\ online' \in [{fd} -> BOOLEAN]
<1> DEFINE m == Head(requests)
<1>1. /\ m \in RequestSet /\ Tail(requests) \in Seq(RequestSet) /\ requests # <<>>
      /\ conn = "up" /\ server = "running"
      /\ lastJoin' = IF m.type = "JOIN_ROOM" /\ Tables!JoinSucceeds(m.data)
                     THEN m.data ELSE lastJoin
    BY HeadTailProperties DEF ServerStep, NetType
<1>2. requests' \in Seq(RequestSet)
    <2>1. requests' = Tail(requests) \/ requests' = <<>>
        BY DEF ServerStep, HandleLogin, HandleLogout, HandleJoinRoom, HandleLeaveRoom,
            HandleOther, Answer
    <2>2. <<>> \in Seq(RequestSet)
        BY EmptySeq
    <2> HIDE DEF m
    <2> QED
        BY <1>1, <2>1, <2>2
<1>3. online' \in [{fd} -> BOOLEAN]
    <2>1. \/ UNCHANGED online
          \/ online' = [online EXCEPT ![fd] = TRUE]
          \/ online' = [online EXCEPT ![fd] = FALSE]
        BY OneSlot DEF ServerStep, HandleLogin, HandleLogout, HandleJoinRoom,
            HandleLeaveRoom, HandleOther, tables, Tables!Login, Tables!Logout,
            Tables!JoinRoom, Tables!LeaveRoom, Tables!Undefined, Tables!vars
    <2> QED
        BY <2>1 DEF NetType
<1> SUFFICES Answered
    BY <1>2, <1>3
<1>4. CASE m.type = "LOGIN" /\ HandleLogin
    <2> DEFINE yes == [type |-> "LOGIN_SUCCESS"]
               no == [type |-> "LOGIN_FAILED"]
    <2>1. yes \in ReplySet /\ no \in ReplySet
        BY DEF ReplySet
    <2>2. CASE Tables!Login(fd, User) /\ Answer(yes)
        <3>1. online' = [online EXCEPT ![fd] = TRUE]
            BY <2>2, OneSlot DEF Tables!Login
        <3>2. Matches(yes)
            BY <1>1, <1>4, <3>1 DEF NetType, Matches, SessionTypes, JoinTypes
        <3> HIDE DEF yes
        <3> QED
            BY <2>1, <2>2, <3>2, Answers
    <2>3. CASE UNCHANGED tables /\ Answer(no)
        <3>1. Matches(no)
            BY <1>1, <1>4, <2>3 DEF tables, Matches, SessionTypes, JoinTypes
        <3> HIDE DEF no
        <3> QED
            BY <2>1, <2>3, <3>1, Answers
    <2> QED
        BY <1>4, <2>2, <2>3 DEF HandleLogin
<1>5. CASE m.type = "LOGOUT" /\ HandleLogout
    <2> DEFINE yes == [type |-> "LOGOUT_SUCCESS"]
    <2>1. online' = [online EXCEPT ![fd] = FALSE] /\ Answer(yes)
        BY <1>5, OneSlot DEF HandleLogout, Tables!Logout
    <2>2. Matches(yes) /\ yes \in ReplySet
        BY <1>1, <1>5, <2>1 DEF NetType, Matches, SessionTypes, JoinTypes, ReplySet
    <2> HIDE DEF yes
    <2> QED
        BY <2>1, <2>2, Answers
<1>6. CASE m.type = "JOIN_ROOM" /\ HandleJoinRoom(m.data)
    <2> DEFINE yes == [type |-> "JOIN_ROOM_SUCCESS", data |-> m.data]
               no == [type |-> "JOIN_ROOM_FAILED"]
    <2>1. online' = online
        BY <1>6 DEF HandleJoinRoom, Tables!JoinRoom, Tables!Undefined, Tables!vars
    <2>2. CASE Tables!JoinSucceeds(m.data)
        <3>1. m.data \in Rooms /\ Answer(yes)
            BY <1>6, <2>2 DEF HandleJoinRoom, Tables!JoinSucceeds, Tables!FindRoom
        <3>2. Matches(yes) /\ yes \in ReplySet
            BY <1>1, <1>6, <2>1, <2>2, <3>1 DEF Matches, SessionTypes, JoinTypes, ReplySet
        <3> HIDE DEF yes
        <3> QED
            BY <3>1, <3>2, Answers
    <2>3. CASE ~Tables!JoinSucceeds(m.data)
        <3>1. Answer(no)
            BY <1>6, <2>3 DEF HandleJoinRoom
        <3>2. Matches(no) /\ no \in ReplySet
            BY <1>1, <2>1, <2>3 DEF Matches, SessionTypes, JoinTypes, ReplySet
        <3> HIDE DEF no
        <3> QED
            BY <3>1, <3>2, Answers
    <2> QED
        BY <2>2, <2>3
<1>7. CASE m.type = "LEAVE_ROOM" /\ HandleLeaveRoom(m.data)
    <2> DEFINE yes == [type |-> "LEAVE_ROOM_SUCCESS", data |-> m.data]
               no == [type |-> "LEAVE_ROOM_FAILED"]
    <2>1. online' = online
        BY <1>7 DEF HandleLeaveRoom, Tables!LeaveRoom, Tables!Undefined, Tables!vars
    <2>2. m.data \in Names
        BY <1>1, <1>7 DEF RequestSet, Commands
    <2>3. Matches(yes) /\ yes \in ReplySet /\ Matches(no) /\ no \in ReplySet
        BY <1>1, <1>7, <2>1, <2>2 DEF Matches, SessionTypes, JoinTypes, ReplySet
    <2>4. Answer(yes) \/ Answer(no)
        BY <1>7 DEF HandleLeaveRoom
    <2> HIDE DEF yes, no
    <2> QED
        BY <2>3, <2>4, Answers
<1>8. CASE m.type \in {"MESSAGE", "OTHER"} /\ HandleOther
    BY <1>1, <1>8 DEF HandleOther, Answered, tables, NetType
<1> HIDE DEF m
<1> QED
    BY <1>4, <1>5, <1>6, <1>7, <1>8 DEF ServerStep, m

LEMMA NextServer ==
    ASSUME IInv, ServerStep
    PROVE  IInv'
<1> USE DEF IInv
<1>1. /\ Answered /\ requests' \in Seq(RequestSet) /\ online' \in [{fd} -> BOOLEAN]
      /\ UNCHANGED <<client, roomVars, pcMain, pcRecv, msgList, lines, torn>>
    BY ServerAnswers DEF ServerStep
<1>2. conn' \in {"up", "lost"} /\ conn = "up"
    BY <1>1 DEF Answered, ServerStep
<1>3. TypeOK' /\ RoomInv' /\ NullIsNeverFollowed'
    BY <1>1, <1>2 DEF TypeOK, RoomInv, Live, NullIsNeverFollowed, roomVars
<1>4. CASE UNCHANGED <<replies, conn, online, lastJoin>>
    <2>1. NetType'
        BY <1>1, <1>4 DEF NetType
    <2>2. StatusInv' /\ JoinInv'
        BY <1>1, <1>4 DEF StatusInv, JoinInv, Reliable, Among, LastAmong, Live, RoomOf, roomVars
    <2> QED
        BY <1>3, <2>1, <2>2
<1>5. CASE conn' = "lost" /\ UNCHANGED replies
    <2>1. NetType'
        BY <1>1, <1>5 DEF NetType
    <2>2. StatusInv' /\ JoinInv'
        BY <1>5 DEF StatusInv, JoinInv, Reliable
    <2> QED
        BY <1>3, <2>1, <2>2
<1>6. ASSUME NEW m \in ReplySet, conn' = "up", replies' = Append(replies, m),
             Matches(m)
      PROVE  NetType' /\ StatusInv' /\ JoinInv'
    <2>1. NetType'
        BY <1>1, <1>6, AppendProperties DEF NetType
    <2>2. ASSUME ~torn
          PROVE  /\ Among(replies', SessionTypes) = {} => (status = "ONLINE" <=> online'[fd])
                 /\ \A i \in DOMAIN replies' : LastAmong(replies', SessionTypes, i) =>
                       (replies'[i].type = "LOGIN_SUCCESS" <=> online'[fd])
        <3>1. replies \in Seq(ReplySet)
            BY <2>2 DEF NetType
        <3>2. CASE m.type \in SessionTypes
            <4>1. /\ Among(Append(replies, m), SessionTypes) # {}
                  /\ \A i : LastAmong(Append(replies, m), SessionTypes, i) =>
                        Append(replies, m)[i] = m
                BY <3>1, <3>2, AppendCounted
            <4>2. online'[fd] <=> m.type = "LOGIN_SUCCESS"
                BY <1>6, <3>2 DEF Matches
            <4>3. ASSUME NEW i \in DOMAIN replies', LastAmong(replies', SessionTypes, i)
                  PROVE  replies'[i].type = "LOGIN_SUCCESS" <=> online'[fd]
                <5>1. replies'[i] = m
                    BY <1>6, <4>1, <4>3
                <5> QED
                    BY <4>2, <5>1
            <4> QED
                BY <1>6, <4>1, <4>3
        <3>3. CASE m.type \notin SessionTypes
            BY <1>2, <1>6, <2>2, <3>1, <3>3, AppendUncounted DEF StatusInv, Reliable, Matches
        <3> QED
            BY <3>2, <3>3
    <2>3. ASSUME ~torn
          PROVE  /\ Among(replies', JoinTypes) = {} =>
                       /\ pcRecv = "cur" => RoomOf(Len(heap)) = lastJoin'
                       /\ pcRecv # "cur" /\ Live(cur_room) => RoomOf(cur_room) = lastJoin'
                 /\ \A i \in DOMAIN replies' : LastAmong(replies', JoinTypes, i) =>
                       replies'[i].data = lastJoin'
        <3>1. replies \in Seq(ReplySet)
            BY <2>3 DEF NetType
        <3>2. CASE m.type \in JoinTypes
            BY <1>6, <3>1, <3>2, AppendCounted DEF Matches
        <3>3. CASE m.type \notin JoinTypes
            BY <1>2, <1>6, <2>3, <3>1, <3>3, AppendUncounted DEF JoinInv, Reliable, Matches
        <3> QED
            BY <3>2, <3>3
    <2>4. StatusInv'
        BY <1>1, <2>2 DEF StatusInv, Reliable, roomVars
    <2>5. JoinInv'
        BY <1>1, <2>3 DEF JoinInv, Reliable, roomVars, Live, RoomOf
    <2> QED
        BY <2>1, <2>4, <2>5
<1> QED
    BY <1>1, <1>3, <1>4, <1>5, <1>6 DEF Answered

-----------------------------------------------------------------------------
LEMMA InitIInv == SessionInit => IInv
<1> SUFFICES ASSUME SessionInit
             PROVE  IInv
    OBVIOUS
<1> USE DEF SessionInit, Init
<1>1. TypeOK
    <2>1. <<>> \in Seq(Nodes) /\ <<>> \in Seq(DOMAIN <<>>)
        BY EmptySeq
    <2> QED
        BY <2>1, ClientAssumption DEF TypeOK, Nodes
<1>2. NetType
    <2>1. <<>> \in Seq(RequestSet) /\ <<>> \in Seq(ReplySet) /\ <<>> \in Seq(ReplySet \cup {Fragment})
        BY EmptySeq
    <2> QED
        BY <2>1, OneSlot DEF NetType, Tables!Init
<1>3. RoomInv
    BY DEF RoomInv, Live
<1>4. StatusInv /\ JoinInv
    BY OneSlot DEF StatusInv, JoinInv, Tables!Init, Live, Among, LastAmong
<1> QED
    BY <1>1, <1>2, <1>3, <1>4 DEF IInv, NullIsNeverFollowed

LEMMA NextIInv == IInv /\ [Next]_vars => IInv'
<1> SUFFICES ASSUME IInv, [Next]_vars
             PROVE  IInv'
    OBVIOUS
<1>1. CASE (UserStep \/ MainStep \/ Send \/ RecvError) /\ UNCHANGED <<tables, history>>
    <2>1. TypeOK' /\ NetType'
        BY <1>1, OthersKeepTypes, OthersKeepNet DEF IInv
    <2>2. RoomInv' /\ StatusInv' /\ JoinInv'
        BY <1>1, OthersAreQuiet, QuietKeeps
    <2>3. NullIsNeverFollowed'
        BY <1>1 DEF IInv, NullIsNeverFollowed, UserStep, MainStep, TypeCommand, TypeExit,
            TypeText, CheckStatus, CheckRoom, FillMessage, Send, RecvError, Main, roomVars
    <2> QED
        BY <2>1, <2>2, <2>3 DEF IInv
<1>2. CASE UNCHANGED vars
    <2> USE <1>2 DEF IInv, vars, clientVars, roomVars, netVars, tables, history
    <2>1. TypeOK' /\ NetType'
        BY DEF TypeOK, NetType
    <2>2. RoomInv' /\ StatusInv' /\ JoinInv' /\ NullIsNeverFollowed'
        BY DEF RoomInv, StatusInv, JoinInv, NullIsNeverFollowed, Reliable, Among, LastAmong,
            Live, RoomOf
    <2> QED
        BY <2>1, <2>2
<1> QED
    BY <1>1, <1>2, NextReceive, NextServer DEF Next

LEMMA Invariance == Spec => []IInv
BY InitIInv, NextIInv, PTL DEF Spec

(* Type correctness of the client.                                         *)
THEOREM TypeCorrect == Spec => []TypeOK
<1>1. IInv => TypeOK
    BY DEF IInv
<1> QED
    BY <1>1, Invariance, PTL

(* The main thread tests cur_room in one step and follows it in a later    *)
(* one, without a lock: no step of the receive thread makes it NULL.       *)
THEOREM NullTheorem == Spec => []NullIsNeverFollowed
<1>1. IInv => NullIsNeverFollowed
    BY DEF IInv
<1> QED
    BY <1>1, Invariance, PTL

(* Once the replies are in, room_handle.status is what the server has in   *)
(* the session's slot, if each recv() returned one reply.                  *)
THEOREM StatusTheorem == Spec => []StatusAgrees
<1>1. IInv => StatusAgrees
    <2> SUFFICES ASSUME StatusInv, replies = <<>>, ~torn, conn = "up"
                 PROVE  status = "ONLINE" <=> online[fd]
        BY DEF IInv, StatusAgrees, Settled
    <2>1. Among(replies, SessionTypes) = {}
        BY DEF Among
    <2> QED
        BY <2>1 DEF StatusInv, Reliable
<1> QED
    BY <1>1, Invariance, PTL

(* Once the replies are in, a live current room is the one the server      *)
(* reported last: room_join's test for a room already joined only ever     *)
(* finds the current one.                                                  *)
THEOREM CurRoomTheorem == Spec => []CurRoomIsLastJoined
<1>1. IInv => CurRoomIsLastJoined
    <2> SUFFICES ASSUME JoinInv, replies = <<>>, ~torn, conn = "up", pcRecv = "recv",
                        Live(cur_room)
                 PROVE  RoomOf(cur_room) = lastJoin
        BY DEF IInv, CurRoomIsLastJoined, Settled
    <2>1. Among(replies, JoinTypes) = {}
        BY DEF Among
    <2> QED
        BY <2>1 DEF JoinInv, Reliable
<1> QED
    BY <1>1, Invariance, PTL
=============================================================================
