-------------------------- MODULE OnlineTables_proofs --------------------------
(***************************************************************************)
(* For every set of descriptors, rooms and names and every limit: the two  *)
(* tables keep their types and no room's list ever has two nodes.          *)
(***************************************************************************)
EXTENDS OnlineTables, SequenceTheorems, TLAPS

(* The inductive invariant: the type of members is preserved by            *)
(* delete_user_from_room whatever the list, but its effect on a list is    *)
(* only simple because of the length, so the two are proved together.      *)
IInv == TypeOK /\ OneListedMember

-----------------------------------------------------------------------------
(* RemoveAt drops one element and keeps the order of the others.           *)
LEMMA RemoveAtProperties ==
    ASSUME NEW S, NEW s \in Seq(S), NEW i \in DOMAIN s
    PROVE  /\ RemoveAt(s, i) \in Seq(S)
           /\ Len(RemoveAt(s, i)) = Len(s) - 1
           /\ \A j \in 1 .. Len(s) - 1 :
                 RemoveAt(s, i)[j] = IF j < i THEN s[j] ELSE s[j + 1]
<1> DEFINE L == SubSeq(s, 1, i - 1)
           R == SubSeq(s, i + 1, Len(s))
<1>1. i \in 1 .. Len(s) /\ Len(s) \in Nat
    OBVIOUS
<1>2. L \in Seq(S) /\ Len(L) = i - 1 /\ \A j \in 1 .. i - 1 : L[j] = s[j]
    BY <1>1
<1>3. R \in Seq(S) /\ Len(R) = Len(s) - i /\ \A j \in 1 .. Len(s) - i : R[j] = s[j + i]
    BY <1>1
<1>4. RemoveAt(s, i) = L \o R
    BY DEF RemoveAt
<1> HIDE DEF L, R
<1> QED
    BY <1>1, <1>2, <1>3, <1>4

(* A sequence of at most one element.                                      *)
LEMMA ShortSequence ==
    ASSUME NEW S, NEW list \in Seq(S), Len(list) <= 1, list # <<>>
    PROVE  /\ Len(list) = 1
           /\ list[1] \in S
           /\ list = <<list[1]>>
<1>1. Len(list) = 1
    <2>1. Len(list) \in Nat \ {0}
        BY EmptySeq
    <2> QED
        BY <2>1
<1>2. list[1] \in S
    BY <1>1, ElementOfSeq
<1>3. <<list[1]>> \in Seq(S) /\ Len(<<list[1]>>) = 1 /\ <<list[1]>>[1] = list[1]
    BY <1>2
<1>4. \A i \in 1 .. Len(list) : list[i] = <<list[1]>>[i]
    BY <1>1, <1>3
<1> QED
    BY <1>1, <1>2, <1>3, <1>4, SeqEqual

(* What delete_user_from_room does to a list of at most one node.          *)
LEMMA DeleteFromShortList ==
    ASSUME NEW S, NEW list \in Seq(S), Len(list) <= 1, NEW fd
    PROVE  DeleteUserFromRoom(list, fd) = IF list = <<fd>> THEN <<>> ELSE list
<1>1. CASE list = <<>>
    BY <1>1 DEF DeleteUserFromRoom, RemoveFirst
<1>2. CASE list # <<>>
    <2>1. Len(list) = 1 /\ list = <<list[1]>>
        BY <1>2, ShortSequence
    <2>2. Head(list) = list[1]
        BY <2>1
    <2>3. CASE list[1] = fd
        BY <1>2, <2>1, <2>2, <2>3 DEF DeleteUserFromRoom
    <2>4. CASE list[1] # fd
        <3>1. list # <<fd>>
            BY <2>1, <2>4
        <3>2. ~\E i \in 1 .. Len(list) : list[i] = fd
            BY <2>1, <2>4
        <3> QED
            BY <2>2, <2>4, <3>1, <3>2 DEF DeleteUserFromRoom, RemoveFirst
    <2> QED
        BY <2>3, <2>4
<1> QED
    BY <1>1, <1>2

(* add_user_to_room leaves exactly the new node in such a list.            *)
LEMMA AddToShortList ==
    ASSUME NEW S, NEW list \in Seq(S), Len(list) <= 1, NEW fd \in S
    PROVE  AddUserToRoom(list, fd) = <<fd>>
<1>1. CASE list = <<>>
    BY <1>1, ConcatEmptySeq DEF AddUserToRoom
<1>2. CASE list # <<>>
    <2>1. Len(list) = 1
        BY <1>2, ShortSequence
    <2>2. Tail(list) \in Seq(S) /\ Len(Tail(list)) = 0
        BY <1>2, <2>1, HeadTailProperties
    <2>3. Tail(list) = <<>>
        BY <2>2, EmptySeq
    <2>4. <<fd>> \in Seq(S) /\ <<fd>> \o <<>> = <<fd>>
        BY ConcatEmptySeq
    <2> QED
        BY <1>2, <2>3, <2>4 DEF AddUserToRoom
<1> QED
    BY <1>1, <1>2

(* A list of rooms stays one when a room is put in front or a node goes.   *)
LEMMA ConsRoomList ==
    ASSUME NEW list \in Seq(Rooms \cup {Wild}), WildOnlyLast(list), NEW r \in Rooms
    PROVE  /\ <<r>> \o list \in Seq(Rooms \cup {Wild})
           /\ WildOnlyLast(<<r>> \o list)
<1> DEFINE new == <<r>> \o list
<1>1. <<r>> \in Seq(Rooms \cup {Wild}) /\ Len(<<r>>) = 1 /\ <<r>>[1] = r
    OBVIOUS
<1>2. /\ new \in Seq(Rooms \cup {Wild})
      /\ Len(new) = Len(list) + 1
      /\ \A i \in 1 .. Len(list) + 1 : new[i] = IF i <= 1 THEN r ELSE list[i - 1]
    BY <1>1, ConcatProperties
<1>3. ASSUME NEW i \in DOMAIN new, new[i] = Wild
      PROVE  i = Len(new)
    <2>1. i \in 1 .. Len(list) + 1 /\ Len(list) \in Nat
        BY <1>2
    <2>2. i # 1
        BY <1>2, <1>3, <2>1, TablesAssumption
    <2>3. i - 1 \in DOMAIN list /\ list[i - 1] = Wild
        BY <1>2, <1>3, <2>1, <2>2
    <2> QED
        BY <1>2, <2>1, <2>3 DEF WildOnlyLast
<1> QED
    BY <1>2, <1>3 DEF WildOnlyLast

LEMMA RemoveRoomList ==
    ASSUME NEW list \in Seq(Rooms \cup {Wild}), WildOnlyLast(list), NEW i \in DOMAIN list
    PROVE  /\ RemoveAt(list, i) \in Seq(Rooms \cup {Wild})
           /\ WildOnlyLast(RemoveAt(list, i))
<1> DEFINE new == RemoveAt(list, i)
<1>1. /\ new \in Seq(Rooms \cup {Wild})
      /\ Len(new) = Len(list) - 1
      /\ \A j \in 1 .. Len(list) - 1 : new[j] = IF j < i THEN list[j] ELSE list[j + 1]
    BY RemoveAtProperties
<1> HIDE DEF new
<1>2. ASSUME NEW j \in DOMAIN new, new[j] = Wild
      PROVE  j = Len(new)
    <2>1. j \in 1 .. Len(list) - 1 /\ Len(list) \in Nat /\ i \in 1 .. Len(list)
        BY <1>1
    <2>2. CASE j < i
        <3>1. list[j] = Wild /\ j \in DOMAIN list
            BY <1>1, <1>2, <2>1, <2>2
        <3> QED
            BY <2>1, <2>2, <3>1 DEF WildOnlyLast
    <2>3. CASE ~(j < i)
        <3>1. list[j + 1] = Wild /\ j + 1 \in DOMAIN list
            BY <1>1, <1>2, <2>1, <2>3
        <3> QED
            BY <1>1, <2>1, <3>1 DEF WildOnlyLast
    <2> QED
        BY <2>2, <2>3
<1>3. WildOnlyLast(new)
    BY <1>2 DEF WildOnlyLast
<1> QED
    BY <1>1, <1>3 DEF new

-----------------------------------------------------------------------------
LEMMA InitIInv == Init => IInv
<1> SUFFICES ASSUME Init PROVE IInv
    OBVIOUS
<1>1. \A fd \in Slots : joined[fd] = <<>> \/ joined[fd] = <<Wild>>
    BY TablesAssumption DEF Init
<1>2. <<>> \in Seq(Rooms \cup {Wild}) /\ <<Wild>> \in Seq(Rooms \cup {Wild})
    OBVIOUS
<1>3. WildOnlyLast(<<>>) /\ WildOnlyLast(<<Wild>>)
    BY DEF WildOnlyLast
<1>4. joined \in [Slots -> Seq(Rooms \cup {Wild})]
    BY <1>1, <1>2 DEF Init
<1>5. members \in [Rooms -> Seq(Slots)] /\ \A r \in Rooms : Len(members[r]) <= 1
    BY DEF Init
<1>6. \A fd \in Slots : WildOnlyLast(joined[fd])
    BY <1>1, <1>3
<1> QED
    BY <1>4, <1>5, <1>6 DEF Init, IInv, TypeOK, OneListedMember

LEMMA NextIInv == IInv /\ [Next]_vars => IInv'
<1> SUFFICES ASSUME IInv, [Next]_vars PROVE IInv'
    OBVIOUS
<1> USE DEF IInv, TypeOK, OneListedMember
<1>1. CASE UNCHANGED vars
    BY <1>1 DEF vars
<1>2. ASSUME Undefined PROVE IInv'
    BY <1>2 DEF Undefined
<1>3. ASSUME NEW fd \in Fds, NEW name \in Names, Login(fd, name)
      PROVE  IInv'
    <2>1. CASE fd \in Slots /\ joined' = [joined EXCEPT ![fd] = <<>>]
        <3>1. <<>> \in Seq(Rooms \cup {Wild}) /\ WildOnlyLast(<<>>)
            BY DEF WildOnlyLast
        <3>2. joined' \in [Slots -> Seq(Rooms \cup {Wild})]
            BY <2>1, <3>1
        <3>3. \A s \in Slots : WildOnlyLast(joined'[s])
            BY <2>1, <3>1
        <3> QED
            BY <1>1, <1>3, <2>1, <3>2, <3>3 DEF Login
    <2> QED
        BY <1>1, <1>3, <2>1 DEF Login
<1>4. ASSUME NEW fd \in Fds, Logout(fd)
      PROVE  IInv'
    <2>1. CASE fd \notin Slots
        BY <1>2, <1>4, <2>1 DEF Logout
    <2>2. CASE fd \in Slots
        BY <1>4, <2>2 DEF Logout
    <2> QED
        BY <2>1, <2>2
<1>5. ASSUME NEW fd \in Fds, NEW r \in Rooms \cup OtherRooms, JoinRoom(fd, r)
      PROVE  IInv'
    <2>1. CASE /\ r \in Rooms /\ fd \in Slots
               /\ members' = [members EXCEPT ![r] = AddUserToRoom(@, fd)]
               /\ joined' = [joined EXCEPT ![fd] = <<r>> \o @]
               /\ UNCHANGED <<online, username, status>>
        <3>1. AddUserToRoom(members[r], fd) = <<fd>>
            BY <2>1, AddToShortList
        <3>2. members' \in [Rooms -> Seq(Slots)] /\ \A q \in Rooms : Len(members'[q]) <= 1
            BY <2>1, <3>1
        <3>3. /\ <<r>> \o joined[fd] \in Seq(Rooms \cup {Wild})
              /\ WildOnlyLast(<<r>> \o joined[fd])
            BY <2>1, ConsRoomList
        <3>4. joined' \in [Slots -> Seq(Rooms \cup {Wild})]
            BY <2>1, <3>3
        <3>5. \A s \in Slots : WildOnlyLast(joined'[s])
            BY <2>1, <3>3
        <3> QED
            BY <2>1, <3>2, <3>4, <3>5
    <2> QED
        BY <1>1, <1>2, <1>5, <2>1 DEF JoinRoom, FindRoom
<1>6. ASSUME NEW fd \in Fds, NEW r \in Rooms \cup OtherRooms, LeaveRoom(fd, r)
      PROVE  IInv'
    <2>1. ASSUME fd \in Slots, NEW i \in DOMAIN joined[fd],
                 IsFirstOf(i, r, joined[fd]),
                 joined' = [joined EXCEPT ![fd] = RemoveAt(@, i)],
                 members' = [members EXCEPT ![r] = DeleteUserFromRoom(@, fd)],
                 UNCHANGED <<online, username, status>>
          PROVE  IInv'
        <3>1. /\ RemoveAt(joined[fd], i) \in Seq(Rooms \cup {Wild})
              /\ WildOnlyLast(RemoveAt(joined[fd], i))
            BY <2>1, RemoveRoomList
        <3>2. joined' \in [Slots -> Seq(Rooms \cup {Wild})]
            BY <2>1, <3>1
        <3>3. \A s \in Slots : WildOnlyLast(joined'[s])
            BY <2>1, <3>1
        <3>4. \A q \in Rooms : members'[q] \in Seq(Slots) /\ Len(members'[q]) <= 1
            <4>1. ASSUME r \in Rooms
                  PROVE  /\ DeleteUserFromRoom(members[r], fd) \in Seq(Slots)
                         /\ Len(DeleteUserFromRoom(members[r], fd)) <= 1
                <5>1. members[r] \in Seq(Slots) /\ Len(members[r]) <= 1
                    BY <4>1
                <5>2. DeleteUserFromRoom(members[r], fd)
                         = IF members[r] = <<fd>> THEN <<>> ELSE members[r]
                    BY <5>1, DeleteFromShortList
                <5>3. <<>> \in Seq(Slots) /\ Len(<<>>) <= 1
                    OBVIOUS
                <5>4. CASE members[r] = <<fd>>
                    BY <5>2, <5>3, <5>4
                <5>5. CASE members[r] # <<fd>>
                    BY <5>1, <5>2, <5>5
                <5> QED
                    BY <5>4, <5>5
            <4> QED
                BY <2>1, <4>1
        <3>5. members' \in [Rooms -> Seq(Slots)]
            BY <2>1, <3>4
        <3> QED
            BY <2>1, <3>2, <3>3, <3>4, <3>5
    <2> QED
        BY <1>1, <1>2, <1>6, <2>1 DEF LeaveRoom
<1>7. CASE Restart
    <2>1. \A fd \in Slots : joined'[fd] = <<>> \/ joined'[fd] = <<Wild>>
        BY <1>7, TablesAssumption DEF Restart
    <2>2. <<>> \in Seq(Rooms \cup {Wild}) /\ <<Wild>> \in Seq(Rooms \cup {Wild})
        OBVIOUS
    <2>3. WildOnlyLast(<<>>) /\ WildOnlyLast(<<Wild>>)
        BY DEF WildOnlyLast
    <2>4. joined' \in [Slots -> Seq(Rooms \cup {Wild})]
        BY <1>7, <2>1, <2>2 DEF Restart
    <2>5. \A fd \in Slots : WildOnlyLast(joined'[fd])
        BY <2>1, <2>3
    <2> QED
        BY <1>7, <2>4, <2>5 DEF Restart
<1> QED
    BY <1>1, <1>3, <1>4, <1>5, <1>6, <1>7 DEF Next

-----------------------------------------------------------------------------
LEMMA Invariance == Spec => []IInv
BY InitIInv, NextIInv, PTL DEF Spec

(* The tables keep the types of OnlineTables, whatever the commands.       *)
THEOREM TypeCorrect == Spec => []TypeOK
<1>1. IInv => TypeOK
    BY DEF IInv
<1> QED
    BY Invariance, <1>1, PTL

(* No room's list ever has two nodes, however many sessions join it.       *)
THEOREM RoomListsOne == Spec => []OneListedMember
<1>1. IInv => OneListedMember
    BY DEF IInv
<1> QED
    BY Invariance, <1>1, PTL

-----------------------------------------------------------------------------
(* What a step does to the lists of the rooms: it leaves them alone, makes *)
(* one name the joining session, removes the leaving session's own listing *)
(* or creates them anew.                                                   *)
LEMMA MembersChange ==
    ASSUME IInv, Next
    PROVE  \/ members' = members
           \/ \E fd \in Slots, r \in Rooms :
                 /\ JoinRoom(fd, r)
                 /\ members' = [members EXCEPT ![r] = <<fd>>]
           \/ \E fd \in Slots, r \in Rooms :
                 /\ LeaveRoom(fd, r) /\ members[r] = <<fd>>
                 /\ members' = [members EXCEPT ![r] = <<>>]
           \/ Restart
<1> USE DEF IInv, TypeOK, OneListedMember
<1>1. ASSUME NEW fd \in Fds, NEW name \in Names, Login(fd, name)
      PROVE  members' = members
    BY <1>1 DEF Login, vars
<1>2. ASSUME NEW fd \in Fds, Logout(fd)
      PROVE  members' = members
    BY <1>2 DEF Logout, Undefined
<1>3. ASSUME NEW fd \in Fds, NEW r \in Rooms \cup OtherRooms, JoinRoom(fd, r),
             members' # members
      PROVE  fd \in Slots /\ r \in Rooms /\ members' = [members EXCEPT ![r] = <<fd>>]
    <2>1. /\ fd \in Slots /\ r \in Rooms
          /\ members' = [members EXCEPT ![r] = AddUserToRoom(@, fd)]
        BY <1>3 DEF JoinRoom, FindRoom, Undefined, vars
    <2>2. AddUserToRoom(members[r], fd) = <<fd>>
        BY <2>1, AddToShortList
    <2> QED
        BY <2>1, <2>2
<1>4. ASSUME NEW fd \in Fds, NEW r \in Rooms \cup OtherRooms, LeaveRoom(fd, r),
             members' # members
      PROVE  /\ fd \in Slots /\ r \in Rooms /\ members[r] = <<fd>>
             /\ members' = [members EXCEPT ![r] = <<>>]
    <2>1. /\ fd \in Slots
          /\ members' = [members EXCEPT ![r] = DeleteUserFromRoom(@, fd)]
        BY <1>4 DEF LeaveRoom, Undefined, vars
    <2>2. r \in Rooms
        BY <1>4, <2>1
    <2>3. members[r] \in Seq(Slots) /\ Len(members[r]) <= 1
        BY <2>2
    <2>4. DeleteUserFromRoom(members[r], fd)
             = IF members[r] = <<fd>> THEN <<>> ELSE members[r]
        BY <2>3, DeleteFromShortList
    <2>5. members[r] = <<fd>>
        BY <1>4, <2>1, <2>2, <2>4
    <2> QED
        BY <2>1, <2>2, <2>4, <2>5
<1> QED
    BY <1>1, <1>2, <1>3, <1>4 DEF Next

(* A listing ends only by the session's own leave, by another session      *)
(* joining the room, or with the server.                                   *)
THEOREM ListingEnds == Spec => ListedUntilLeaveOrEviction
<1>1. ASSUME IInv, Next, NEW fd \in Slots, NEW r \in Rooms,
             Listed(fd, r), ~Listed(fd, r)'
      PROVE  \/ LeaveRoom(fd, r)
             \/ \E other \in Slots \ {fd} : JoinRoom(other, r)
             \/ Restart
    <2> USE <1>1 DEF IInv, TypeOK
    <2>1. members'[r] # members[r]
        BY DEF Listed
    <2>2. ASSUME NEW f \in Slots, NEW q \in Rooms, JoinRoom(f, q),
                 members' = [members EXCEPT ![q] = <<f>>]
          PROVE  f # fd /\ q = r
        <3>1. q = r
            BY <2>1, <2>2
        <3>2. members'[r] = <<f>>
            BY <2>2, <3>1
        <3>3. f \in ToSet(members'[r])
            BY <3>2 DEF ToSet
        <3> QED
            BY <3>1, <3>3 DEF Listed
    <2>3. ASSUME NEW f \in Slots, NEW q \in Rooms, LeaveRoom(f, q), members[q] = <<f>>,
                 members' = [members EXCEPT ![q] = <<>>]
          PROVE  f = fd /\ q = r
        <3>1. q = r
            BY <2>1, <2>3
        <3> QED
            BY <2>3, <3>1 DEF Listed, ToSet
    <2> QED
        BY <2>1, <2>2, <2>3, MembersChange
<1>2. IInv /\ [Next]_vars =>
        [\A fd \in Slots, r \in Rooms :
            Listed(fd, r) /\ ~Listed(fd, r)' =>
                \/ LeaveRoom(fd, r)
                \/ \E other \in Slots \ {fd} : JoinRoom(other, r)
                \/ Restart]_vars
    BY <1>1
<1> QED
    BY Invariance, <1>2, PTL DEF Spec, ListedUntilLeaveOrEviction
-----------------------------------------------------------------------------
(* A room that is in a list and is not the one removed is still in it.     *)
LEMMA RemoveAtKeepsOthers ==
    ASSUME NEW S, NEW s \in Seq(S), NEW i \in DOMAIN s, NEW e \in ToSet(s), e # s[i]
    PROVE  e \in ToSet(RemoveAt(s, i))
<1> DEFINE new == RemoveAt(s, i)
<1>1. /\ new \in Seq(S)
      /\ Len(new) = Len(s) - 1
      /\ \A j \in 1 .. Len(s) - 1 : new[j] = IF j < i THEN s[j] ELSE s[j + 1]
    BY RemoveAtProperties
<1> HIDE DEF new
<1>2. PICK k \in 1 .. Len(s) : s[k] = e
    BY DEF ToSet
<1>3. i \in 1 .. Len(s) /\ Len(s) \in Nat /\ k # i
    BY <1>2
<1>4. CASE k < i
    <2>1. k \in DOMAIN new /\ new[k] = e
        BY <1>1, <1>2, <1>3, <1>4
    <2> QED
        BY <2>1 DEF ToSet, new
<1>5. CASE k > i
    <2>1. k - 1 \in DOMAIN new /\ new[k - 1] = e
        BY <1>1, <1>2, <1>3, <1>5
    <2> QED
        BY <2>1 DEF ToSet, new
<1> QED
    BY <1>2, <1>3, <1>4, <1>5

(* The session that holds a room a list names stops holding it only with   *)
(* the listing, or by logging in again over its own session.               *)
THEOREM GhostsTheorem == Spec => GhostsComeFromRelogin
<1>1. ASSUME IInv, [Next]_vars, NEW fd \in Slots, NEW r \in Rooms,
             Listed(fd, r)', ~Holds(fd, r)', ~(Listed(fd, r) /\ ~Holds(fd, r)),
             \A name \in Names : ~Login(fd, name)
      PROVE  FALSE
    <2> USE <1>1 DEF IInv, TypeOK
    <2>1. CASE members' = members /\ joined' = joined
        BY <2>1 DEF Listed, Holds
    <2>2. ASSUME NEW f \in Fds, NEW name \in Names, Login(f, name)
          PROVE  FALSE
        <3>1. f # fd
            BY <2>2
        <3>2. members'[r] = members[r] /\ joined'[fd] = joined[fd]
            BY <2>2, <3>1 DEF Login, vars
        <3> QED
            BY <3>2 DEF Listed, Holds
    <2>3. ASSUME NEW f \in Fds, Logout(f)
          PROVE  FALSE
        BY <2>1, <2>3 DEF Logout, Undefined
    <2>4. ASSUME NEW f \in Fds, NEW q \in Rooms \cup OtherRooms, JoinRoom(f, q)
          PROVE  FALSE
        <3>1. /\ f \in Slots /\ q \in Rooms
              /\ members' = [members EXCEPT ![q] = AddUserToRoom(@, f)]
              /\ joined' = [joined EXCEPT ![f] = <<q>> \o @]
            BY <2>1, <2>4 DEF JoinRoom, FindRoom, Undefined, vars
        <3>2. AddUserToRoom(members[q], f) = <<f>>
            BY <3>1, AddToShortList DEF OneListedMember
        <3>3. CASE q = r
            <4>1. f = fd
                BY <3>1, <3>2, <3>3 DEF Listed, ToSet
            <4>2. joined'[fd] = <<r>> \o joined[fd] /\ joined[fd] \in Seq(Rooms \cup {Wild})
                BY <3>1, <3>3, <4>1
            <4>3. 1 \in DOMAIN joined'[fd] /\ joined'[fd][1] = r
                BY <4>2
            <4> QED
                BY <4>3 DEF Holds, ToSet
        <3>4. CASE q # r
            <4>1. Listed(fd, r)
                BY <3>1, <3>4 DEF Listed
            <4>2. Holds(fd, r)
                BY <4>1
            <4>3. CASE f # fd
                BY <3>1, <4>2, <4>3 DEF Holds
            <4>4. CASE f = fd
                <5>1. joined'[fd] = <<q>> \o joined[fd] /\ joined[fd] \in Seq(Rooms \cup {Wild})
                    BY <3>1, <4>4
                <5>2. PICK k \in 1 .. Len(joined[fd]) : joined[fd][k] = r
                    BY <4>2 DEF Holds, ToSet
                <5>3. k + 1 \in DOMAIN joined'[fd] /\ joined'[fd][k + 1] = r
                    BY <5>1, <5>2
                <5> QED
                    BY <5>3 DEF Holds, ToSet
            <4> QED
                BY <4>3, <4>4
        <3> QED
            BY <3>3, <3>4
    <2>5. ASSUME NEW f \in Fds, NEW q \in Rooms \cup OtherRooms, LeaveRoom(f, q)
          PROVE  FALSE
        <3>1. PICK i \in DOMAIN joined[f] :
                /\ f \in Slots
                /\ IsFirstOf(i, q, joined[f])
                /\ joined' = [joined EXCEPT ![f] = RemoveAt(@, i)]
                /\ members' = [members EXCEPT ![q] = DeleteUserFromRoom(@, f)]
            BY <2>1, <2>5 DEF LeaveRoom, Undefined, vars
        <3>2. ASSUME q \in Rooms
              PROVE  DeleteUserFromRoom(members[q], f)
                        = IF members[q] = <<f>> THEN <<>> ELSE members[q]
            BY <3>2, DeleteFromShortList DEF OneListedMember
        <3>3. Listed(fd, r)
            BY <3>1, <3>2 DEF Listed, ToSet
        <3>4. Holds(fd, r)
            BY <3>3
        <3>5. CASE f # fd
            BY <3>1, <3>4, <3>5 DEF Holds
        <3>6. CASE f = fd /\ q # r
            <4>1. joined[fd] \in Seq(Rooms \cup {Wild}) /\ joined[fd][i] = q
                BY <3>1, <3>6 DEF IsFirstOf
            <4>2. r \in ToSet(RemoveAt(joined[fd], i))
                BY <3>1, <3>4, <3>6, <4>1, RemoveAtKeepsOthers DEF Holds
            <4> QED
                BY <3>1, <3>6, <4>2 DEF Holds
        <3>7. CASE f = fd /\ q = r
            <4>1. members[r] \in Seq(Slots) /\ Len(members[r]) <= 1 /\ members[r] # <<>>
                BY <3>3 DEF OneListedMember, Listed, ToSet
            <4>2. members[r] = <<members[r][1]>> /\ Len(members[r]) = 1
                BY <4>1, ShortSequence
            <4>3. members[r] = <<fd>>
                BY <3>3, <4>1, <4>2 DEF Listed, ToSet
            <4>4. members'[r] = <<>>
                BY <3>1, <3>2, <3>7, <4>3
            <4> QED
                BY <4>4 DEF Listed, ToSet
        <3> QED
            BY <3>5, <3>6, <3>7
    <2>6. CASE Restart
        BY <2>6 DEF Restart, Listed, ToSet
    <2> QED
        BY <2>1, <2>2, <2>3, <2>4, <2>5, <2>6 DEF Next, vars
<1>2. IInv /\ [Next]_vars =>
        [\A fd \in Slots, r \in Rooms :
            (Listed(fd, r) /\ ~Holds(fd, r))' =>
                \/ Listed(fd, r) /\ ~Holds(fd, r)
                \/ \E name \in Names : Login(fd, name)]_vars
    BY <1>1
<1> QED
    BY Invariance, <1>2, PTL DEF Spec, GhostsComeFromRelogin
=============================================================================
