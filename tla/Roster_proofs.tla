----------------------------- MODULE Roster_proofs -----------------------------
(***************************************************************************)
(* For every set of descriptors and rooms and every limit: the two linked  *)
(* tables implement Roster, under the mapping of MCOnlineTables.  What is  *)
(* to be shown of the lists is how often a room is in one: putting a node  *)
(* in front adds one for its room, unlinking a node takes one away, and    *)
(* no other room's count changes.                                          *)
(***************************************************************************)
EXTENDS MCOnlineTables, OnlineTables_proofs, FiniteSetTheorems, FunctionTheorems

Places(list, r) == {i \in DOMAIN list : list[i] = r}
Count(list, r) == Cardinality(Places(list, r))

-----------------------------------------------------------------------------
LEMMA PlacesFinite ==
    ASSUME NEW S, NEW list \in Seq(S), NEW r
    PROVE  IsFiniteSet(Places(list, r)) /\ Count(list, r) \in Nat
<1>1. Len(list) \in Nat /\ DOMAIN list = 1 .. Len(list)
    OBVIOUS
<1>2. IsFiniteSet(1 .. Len(list))
    BY <1>1, FS_Interval
<1>3. Places(list, r) \in SUBSET (1 .. Len(list))
    BY <1>1 DEF Places
<1>4. IsFiniteSet(Places(list, r))
    BY <1>2, <1>3, FS_Subset
<1> QED
    BY <1>4, FS_CardinalityType DEF Count

(* Sets of places that correspond one to one.                              *)
LEMMA SameNumber ==
    ASSUME NEW S, IsFiniteSet(S), NEW T, NEW F \in [S -> T],
           \A a, b \in S : F[a] = F[b] => a = b,
           \A t \in T : \E s \in S : F[s] = t
    PROVE  Cardinality(T) = Cardinality(S)
<1>1. F \in Bijection(S, T)
    BY Fun_IsBij
<1>2. ExistsBijection(S, T)
    BY <1>1, Fun_ExistsBij
<1> QED
    BY <1>2, FS_Bijection

(* Taking the place i out of a list's places for r.                        *)
LEMMA OnePlaceLess ==
    ASSUME NEW S, NEW list \in Seq(S), NEW r, NEW i \in DOMAIN list
    PROVE  /\ IsFiniteSet(Places(list, r) \ {i})
           /\ Cardinality(Places(list, r) \ {i}) =
                 IF list[i] = r THEN Count(list, r) - 1 ELSE Count(list, r)
<1>1. i \in Places(list, r) <=> list[i] = r
    BY DEF Places
<1> QED
    BY <1>1, PlacesFinite, FS_RemoveElement DEF Count

LEMMA CountCons ==
    ASSUME NEW S, NEW list \in Seq(S), NEW x \in S, NEW r
    PROVE  Count(<<x>> \o list, r) = IF x = r THEN Count(list, r) + 1 ELSE Count(list, r)
<1> DEFINE new == <<x>> \o list
           T == Places(new, r) \ {1}
           F == [i \in T |-> i - 1]
<1>1. /\ new \in Seq(S) /\ DOMAIN new = 1 .. Len(list) + 1 /\ new[1] = x
      /\ DOMAIN list = 1 .. Len(list) /\ Len(list) \in Nat
      /\ \A i \in 1 .. Len(list) + 1 : i # 1 => new[i] = list[i - 1]
    <2>1. <<x>> \in Seq(S) /\ Len(<<x>>) = 1 /\ <<x>>[1] = x
        OBVIOUS
    <2> QED
        BY <2>1, ConcatProperties
<1> HIDE DEF new
<1>2. \A i \in T : i \in 1 .. Len(list) + 1 /\ i # 1 /\ new[i] = r
    BY <1>1 DEF Places
<1>3. \A i \in T : i - 1 \in 1 .. Len(list) /\ list[i - 1] = r
    BY <1>1, <1>2
<1>4. F \in [T -> Places(list, r)]
    BY <1>1, <1>3 DEF Places
<1>5. \A a, b \in T : F[a] = F[b] => a = b
    BY <1>2
<1>6. ASSUME NEW k \in Places(list, r)
      PROVE  \E i \in T : F[i] = k
    <2>1. k \in 1 .. Len(list) /\ list[k] = r
        BY <1>1 DEF Places
    <2>2. k + 1 \in 1 .. Len(list) + 1 /\ k + 1 # 1 /\ (k + 1) - 1 = k
        BY <1>1, <2>1
    <2>3. new[k + 1] = r
        BY <1>1, <2>1, <2>2
    <2>4. k + 1 \in T
        BY <1>1, <2>2, <2>3 DEF Places
    <2> QED
        BY <2>2, <2>4
<1>7. 1 \in DOMAIN new
    BY <1>1
<1>8. /\ IsFiniteSet(T)
      /\ Cardinality(T) = IF x = r THEN Count(new, r) - 1 ELSE Count(new, r)
    BY <1>1, <1>7, OnePlaceLess
<1> HIDE DEF T, F
<1>9. Count(list, r) = Cardinality(T)
    BY <1>4, <1>5, <1>6, <1>8, SameNumber DEF Count
<1>10. Count(new, r) \in Nat
    BY <1>1, PlacesFinite
<1>11. Count(new, r) = IF x = r THEN Count(list, r) + 1 ELSE Count(list, r)
    BY <1>8, <1>9, <1>10
<1> QED
    BY <1>11 DEF new

LEMMA CountRemove ==
    ASSUME NEW S, NEW list \in Seq(S), NEW i \in DOMAIN list, NEW r
    PROVE  Count(RemoveAt(list, i), r) =
              IF list[i] = r THEN Count(list, r) - 1 ELSE Count(list, r)
<1> DEFINE new == RemoveAt(list, i)
           T == Places(list, r) \ {i}
           F == [k \in T |-> IF k < i THEN k ELSE k - 1]
<1>1. /\ new \in Seq(S) /\ DOMAIN new = 1 .. Len(list) - 1
      /\ DOMAIN list = 1 .. Len(list) /\ Len(list) \in Nat /\ i \in 1 .. Len(list)
      /\ \A j \in 1 .. Len(list) - 1 : new[j] = IF j < i THEN list[j] ELSE list[j + 1]
    BY RemoveAtProperties
<1> HIDE DEF new
<1>2. \A k \in T : k \in 1 .. Len(list) /\ k # i /\ list[k] = r
    BY <1>1 DEF Places
<1>3. \A k \in T : F[k] = IF k < i THEN k ELSE k - 1
    OBVIOUS
<1>4. ASSUME NEW k \in T
      PROVE  F[k] \in Places(new, r)
    <2>1. CASE k < i
        <3>1. k \in 1 .. Len(list) - 1 /\ new[k] = r
            BY <1>1, <1>2, <2>1
        <3> QED
            BY <1>1, <1>3, <2>1, <3>1 DEF Places
    <2>2. CASE ~(k < i)
        <3>1. k - 1 \in 1 .. Len(list) - 1 /\ ~(k - 1 < i) /\ (k - 1) + 1 = k
            BY <1>1, <1>2, <2>2
        <3>2. new[k - 1] = r
            BY <1>1, <1>2, <3>1
        <3> QED
            BY <1>1, <1>3, <2>2, <3>1, <3>2 DEF Places
    <2> QED
        BY <2>1, <2>2
<1>5. F \in [T -> Places(new, r)]
    BY <1>4
<1>6. \A a, b \in T : F[a] = F[b] => a = b
    BY <1>1, <1>2, <1>3
<1>7. ASSUME NEW j \in Places(new, r)
      PROVE  \E k \in T : F[k] = j
    <2>1. j \in 1 .. Len(list) - 1 /\ new[j] = r
        BY <1>1 DEF Places
    <2>2. CASE j < i
        <3>1. j \in T
            BY <1>1, <2>1, <2>2 DEF Places
        <3> QED
            BY <1>3, <2>2, <3>1
    <2>3. CASE ~(j < i)
        <3>1. j + 1 \in 1 .. Len(list) /\ j + 1 # i /\ ~(j + 1 < i) /\ (j + 1) - 1 = j
            BY <1>1, <2>1, <2>3
        <3>2. list[j + 1] = r
            BY <1>1, <2>1, <2>3
        <3>3. j + 1 \in T
            BY <1>1, <3>1, <3>2 DEF Places
        <3> QED
            BY <1>3, <3>1, <3>3
    <2> QED
        BY <2>2, <2>3
<1>8. /\ IsFiniteSet(T)
      /\ Cardinality(T) = IF list[i] = r THEN Count(list, r) - 1 ELSE Count(list, r)
    BY OnePlaceLess
<1> HIDE DEF T, F
<1>9. Count(new, r) = Cardinality(T)
    BY <1>5, <1>6, <1>7, <1>8, SameNumber DEF Count
<1> QED
    BY <1>8, <1>9 DEF new

LEMMA CountPositive ==
    ASSUME NEW S, NEW list \in Seq(S), NEW r
    PROVE  r \in ToSet(list) <=> Count(list, r) > 0
<1>1. Count(list, r) \in Nat /\ (Count(list, r) = 0 <=> Places(list, r) = {})
    BY PlacesFinite, FS_EmptySet DEF Count
<1>2. r \in ToSet(list) <=> Places(list, r) # {}
    BY DEF ToSet, Places
<1> QED
    BY <1>1, <1>2

(* A list that holds no room: an empty one, or an unset head.              *)
LEMMA CountUnset ==
    ASSUME NEW r \in Rooms
    PROVE  Count(<<>>, r) = 0 /\ Count(<<Wild>>, r) = 0
<1>1. Places(<<>>, r) = {} /\ Places(<<Wild>>, r) = {}
    BY TablesAssumption DEF Places
<1> QED
    BY <1>1, FS_EmptySet DEF Count

-----------------------------------------------------------------------------
(* The mapping of MCOnlineTables.                                          *)
RListed == [r \in Rooms |-> IF members[r] = <<>> THEN Nobody ELSE Head(members[r])]
RHeld == [fd \in Slots |-> [r \in Rooms |-> Count(joined[fd], r)]]
RWild == {fd \in Slots : Holds(fd, Wild)}
RNoRooms == [r \in Rooms |-> 0]
RUnset == IF <<Wild>> \in FreshHeads THEN Slots ELSE {}

(* The actions of Roster under the mapping.                                *)
LEMMA JoinMapped ==
    ASSUME status = "running", UNCHANGED <<RWild, status>>, NEW fd, NEW r,
           RListed' = [RListed EXCEPT ![r] = fd],
           RHeld' = [RHeld EXCEPT ![fd][r] = @ + 1]
    PROVE  Abstract!Join(fd, r)
BY DEF Abstract!Join, RListed, RHeld, RWild, Count, Places

LEMMA LeaveMapped ==
    ASSUME status = "running", UNCHANGED <<RWild, status>>, NEW fd, NEW r,
           RHeld[fd][r] > 0,
           RHeld' = [RHeld EXCEPT ![fd][r] = @ - 1],
           RListed' = [RListed EXCEPT ![r] = IF @ = fd THEN Nobody ELSE @]
    PROVE  Abstract!Leave(fd, r)
BY DEF Abstract!Leave, RListed, RHeld, RWild, Count, Places

LEMMA LoginMapped ==
    ASSUME status = "running", UNCHANGED <<RListed, status>>, NEW fd,
           RHeld' = [RHeld EXCEPT ![fd] = RNoRooms], RWild' = RWild \ {fd}
    PROVE  Abstract!Login(fd)
BY DEF Abstract!Login, Abstract!NoRooms, RListed, RHeld, RWild, RNoRooms, Count, Places

LEMMA DieMapped ==
    ASSUME status = "running", status' # "running", UNCHANGED <<members, joined>>,
           Fds # Slots \/ RWild # {} \/ \E fd \in Slots : RHeld[fd] # RNoRooms
    PROVE  Abstract!Next
<1>1. Abstract!Die
    BY DEF Abstract!Die, Abstract!NoRooms, RHeld, RWild, RNoRooms, Count, Places, Holds
<1> QED
    BY <1>1 DEF Abstract!Next

LEMMA Stutters ==
    ASSUME UNCHANGED <<members, joined>>, status' = "running" <=> status = "running"
    PROVE  UNCHANGED Abstract!vars
BY DEF Abstract!vars, Holds

-----------------------------------------------------------------------------
(* What a change of one session's list changes under the mapping.          *)
LEMMA ListChanged ==
    ASSUME TypeOK, NEW fd \in Slots, NEW new, joined' = [joined EXCEPT ![fd] = new],
           new \in Seq(Rooms \cup {Wild})
    PROVE  /\ RHeld' = [RHeld EXCEPT ![fd] = [r \in Rooms |-> Count(new, r)]]
           /\ \A s \in Slots \ {fd} : s \in RWild' <=> s \in RWild
           /\ fd \in RWild' <=> Wild \in ToSet(new)
<1>1. /\ joined \in [Slots -> Seq(Rooms \cup {Wild})]
      /\ joined'[fd] = new /\ \A s \in Slots \ {fd} : joined'[s] = joined[s]
    BY DEF TypeOK
<1> DEFINE Counts(list) == [r \in Rooms |-> Count(list, r)]
<1>2. /\ RHeld = [s \in Slots |-> Counts(joined[s])]
      /\ RHeld' = [s \in Slots |-> Counts(joined'[s])]
    BY DEF RHeld
<1> HIDE DEF Counts
<1>3. RHeld' = [RHeld EXCEPT ![fd] = Counts(new)]
    BY <1>1, <1>2
<1> QED
    BY <1>1, <1>3 DEF RWild, Holds, Counts

LEMMA LoginStep ==
    ASSUME IInv, NEW fd \in Fds, NEW name, Login(fd, name)
    PROVE  [Abstract!Next]_(Abstract!vars)
<1>1. CASE fd \notin Slots
    BY <1>1, Stutters DEF Login, vars
<1>2. CASE fd \in Slots
    <2>1. /\ status = "running" /\ joined' = [joined EXCEPT ![fd] = <<>>]
          /\ UNCHANGED <<members, status>>
        BY <1>2 DEF Login
    <2>2. /\ RHeld' = [RHeld EXCEPT ![fd] = [r \in Rooms |-> Count(<<>>, r)]]
          /\ \A s \in Slots \ {fd} : s \in RWild' <=> s \in RWild
          /\ fd \in RWild' <=> Wild \in ToSet(<<>>)
        BY <1>2, <2>1, ListChanged, EmptySeq DEF IInv
    <2>3. [r \in Rooms |-> Count(<<>>, r)] = RNoRooms
        BY CountUnset DEF RNoRooms
    <2>4. Wild \notin ToSet(<<>>)
        BY DEF ToSet
    <2>5. RWild' = RWild \ {fd}
        BY <2>2, <2>4 DEF RWild
    <2>6. Abstract!Login(fd)
        BY <2>1, <2>2, <2>3, <2>5, LoginMapped DEF RListed
    <2> QED
        BY <1>2, <2>6 DEF Abstract!Next
<1> QED
    BY <1>1, <1>2

(* A list that is not empty makes logout follow a name or a wild pointer;  *)
(* either way the session is one that Roster lets the server die of.       *)
LEMMA LogoutStep ==
    ASSUME IInv, NEW fd \in Fds, Logout(fd)
    PROVE  [Abstract!Next]_(Abstract!vars)
<1>1. CASE fd \notin Slots
    <2>1. status = "running" /\ status' # "running" /\ UNCHANGED <<members, joined>>
        BY <1>1 DEF Logout, Undefined
    <2> QED
        BY <1>1, <2>1, DieMapped
<1>2. CASE fd \in Slots /\ joined[fd] = <<>>
    BY <1>2, Stutters DEF Logout
<1>3. CASE fd \in Slots /\ joined[fd] # <<>>
    <2>1. status = "running" /\ status' # "running" /\ UNCHANGED <<members, joined>>
        BY <1>3 DEF Logout
    <2>2. joined[fd] \in Seq(Rooms \cup {Wild})
        BY <1>3 DEF IInv, TypeOK
    <2>3. PICK r \in Rooms \cup {Wild} : r \in ToSet(joined[fd])
        <3>1. Len(joined[fd]) \in Nat \ {0}
            BY <1>3, <2>2, EmptySeq
        <3>2. 1 \in DOMAIN joined[fd] /\ joined[fd][1] \in Rooms \cup {Wild}
            BY <2>2, <3>1
        <3> QED
            BY <3>2 DEF ToSet
    <2>4. CASE r = Wild
        <3>1. fd \in RWild
            BY <1>3, <2>3, <2>4 DEF RWild, Holds
        <3> QED
            BY <2>1, <3>1, DieMapped
    <2>5. CASE r \in Rooms
        <3>1. Count(joined[fd], r) # 0
            BY <2>2, <2>3, CountPositive
        <3>2. RHeld[fd][r] # 0 /\ RNoRooms[r] = 0
            BY <1>3, <2>5, <3>1 DEF RHeld, RNoRooms
        <3>3. RHeld[fd] # RNoRooms
            BY <3>2
        <3> QED
            BY <1>3, <2>1, <3>3, DieMapped
    <2> QED
        BY <2>4, <2>5
<1> QED
    BY <1>1, <1>2, <1>3

LEMMA JoinStep ==
    ASSUME IInv, NEW fd \in Fds, NEW r \in Rooms \cup OtherRooms, JoinRoom(fd, r)
    PROVE  [Abstract!Next]_(Abstract!vars)
<1>1. CASE r \notin Rooms
    BY <1>1, Stutters DEF JoinRoom, FindRoom, vars
<1>2. CASE r \in Rooms /\ fd \notin Slots
    <2>1. status = "running" /\ status' # "running" /\ UNCHANGED <<members, joined>>
        BY <1>2 DEF JoinRoom, FindRoom, Undefined
    <2> QED
        BY <1>2, <2>1, DieMapped
<1>3. CASE r \in Rooms /\ fd \in Slots
    <2> DEFINE new == <<r>> \o joined[fd]
    <2>1. /\ status = "running" /\ UNCHANGED status
          /\ members' = [members EXCEPT ![r] = AddUserToRoom(@, fd)]
          /\ joined' = [joined EXCEPT ![fd] = new]
        BY <1>3 DEF JoinRoom, FindRoom
    <2>2. joined[fd] \in Seq(Rooms \cup {Wild}) /\ WildOnlyLast(joined[fd])
        BY <1>3 DEF IInv, TypeOK
    <2>3. new \in Seq(Rooms \cup {Wild})
        BY <1>3, <2>2, ConsRoomList
    <2>4. \A q : Count(new, q) = IF r = q THEN Count(joined[fd], q) + 1 ELSE Count(joined[fd], q)
        BY <1>3, <2>2, CountCons
    <2>5. Wild \in ToSet(new) <=> Wild \in ToSet(joined[fd])
        BY <1>3, <2>2, <2>3, <2>4, CountPositive, TablesAssumption
    <2> HIDE DEF new
    <2>6. /\ RHeld' = [RHeld EXCEPT ![fd] = [q \in Rooms |-> Count(new, q)]]
          /\ \A s \in Slots \ {fd} : s \in RWild' <=> s \in RWild
          /\ fd \in RWild' <=> Wild \in ToSet(new)
        BY <1>3, <2>1, <2>3, ListChanged DEF IInv
    <2>7. RWild' = RWild
        BY <1>3, <2>5, <2>6 DEF RWild, Holds
    <2>8. [q \in Rooms |-> Count(new, q)] = [RHeld[fd] EXCEPT ![r] = @ + 1]
        BY <1>3, <2>4 DEF RHeld
    <2>9. RHeld' = [RHeld EXCEPT ![fd][r] = @ + 1]
        BY <2>6, <2>8
    <2>10. RListed' = [RListed EXCEPT ![r] = fd]
        <3>1. members[r] \in Seq(Slots) /\ Len(members[r]) <= 1
            BY <1>3 DEF IInv, TypeOK, OneListedMember
        <3>2. AddUserToRoom(members[r], fd) = <<fd>>
            BY <1>3, <3>1, AddToShortList
        <3>3. <<fd>> # <<>> /\ Head(<<fd>>) = fd
            OBVIOUS
        <3>4. members' = [members EXCEPT ![r] = <<fd>>] /\ members \in [Rooms -> Seq(Slots)]
            BY <2>1, <3>2 DEF IInv, TypeOK
        <3> QED
            BY <1>3, <3>3, <3>4 DEF RListed
    <2>11. Abstract!Join(fd, r)
        BY <2>1, <2>7, <2>9, <2>10, JoinMapped
    <2> QED
        BY <1>3, <2>11 DEF Abstract!Next
<1> QED
    BY <1>1, <1>2, <1>3

(* leave_room unlinks the session's own node only, so a room that lists    *)
(* somebody else goes on listing it.                                       *)
LEMMA LeaveStep ==
    ASSUME IInv, NEW fd \in Fds, NEW r \in Rooms \cup OtherRooms, LeaveRoom(fd, r)
    PROVE  [Abstract!Next]_(Abstract!vars)
<1>1. CASE UNCHANGED vars
    BY <1>1, Stutters DEF vars
<1>2. CASE Undefined
    <2>1. status = "running" /\ status' # "running" /\ UNCHANGED <<members, joined>>
        BY <1>2 DEF LeaveRoom, Undefined
    <2>2. CASE fd \notin Slots
        BY <2>1, <2>2, DieMapped
    <2>3. CASE fd \in Slots
        <3>1. Holds(fd, Wild)
            BY <1>2, <2>1, <2>3 DEF LeaveRoom, vars
        <3>2. fd \in RWild
            BY <2>3, <3>1 DEF RWild
        <3> QED
            BY <2>1, <3>2, DieMapped
    <2> QED
        BY <2>2, <2>3
<1>3. ASSUME fd \in Slots, NEW i \in DOMAIN joined[fd], IsFirstOf(i, r, joined[fd]),
             joined' = [joined EXCEPT ![fd] = RemoveAt(@, i)],
             members' = [members EXCEPT ![r] = DeleteUserFromRoom(@, fd)],
             UNCHANGED status
      PROVE  [Abstract!Next]_(Abstract!vars)
    <2> DEFINE list == joined[fd]
               new == RemoveAt(list, i)
    <2>1. list \in Seq(Rooms \cup {Wild}) /\ WildOnlyLast(list)
        BY <1>3 DEF IInv, TypeOK
    <2>2. status = "running" /\ list[i] = r
        BY <1>3 DEF LeaveRoom, IsFirstOf
    <2>3. list[i] \in Rooms \cup {Wild}
        BY <1>3, <2>1
    <2>4. r \in Rooms /\ r # Wild
        BY <2>2, <2>3, TablesAssumption
    <2>5. /\ new \in Seq(Rooms \cup {Wild})
          /\ \A q : Count(new, q) = IF r = q THEN Count(list, q) - 1 ELSE Count(list, q)
        BY <1>3, <2>1, <2>2, RemoveAtProperties, CountRemove
    <2>6. Wild \in ToSet(new) <=> Wild \in ToSet(list)
        BY <2>1, <2>4, <2>5, CountPositive
    <2>7. Count(list, r) > 0
        <3>1. r \in ToSet(list)
            BY <1>3, <2>2 DEF ToSet
        <3> QED
            BY <2>1, <3>1, CountPositive
    <2> HIDE DEF new
    <2>8. /\ RHeld' = [RHeld EXCEPT ![fd] = [q \in Rooms |-> Count(new, q)]]
          /\ \A s \in Slots \ {fd} : s \in RWild' <=> s \in RWild
          /\ fd \in RWild' <=> Wild \in ToSet(new)
        <3>1. joined' = [joined EXCEPT ![fd] = new]
            BY <1>3 DEF new
        <3> QED
            BY <1>3, <2>5, <3>1, ListChanged DEF IInv
    <2>9. RWild' = RWild
        BY <1>3, <2>6, <2>8 DEF RWild, Holds
    <2>10. [q \in Rooms |-> Count(new, q)] = [RHeld[fd] EXCEPT ![r] = @ - 1]
        BY <1>3, <2>4, <2>5 DEF RHeld
    <2>11. RHeld' = [RHeld EXCEPT ![fd][r] = @ - 1] /\ RHeld[fd][r] > 0
        BY <1>3, <2>4, <2>7, <2>8, <2>10 DEF RHeld
    <2>12. RListed' = [RListed EXCEPT ![r] = IF @ = fd THEN Nobody ELSE @]
        <3>1. members \in [Rooms -> Seq(Slots)] /\ Len(members[r]) <= 1
            BY <2>4 DEF IInv, TypeOK, OneListedMember
        <3>2. DeleteUserFromRoom(members[r], fd)
                 = IF members[r] = <<fd>> THEN <<>> ELSE members[r]
            BY <2>4, <3>1, DeleteFromShortList
        <3>3. CASE members[r] = <<fd>>
            <4>1. Head(<<fd>>) = fd /\ <<fd>> # <<>>
                OBVIOUS
            <4>2. members' = [members EXCEPT ![r] = <<>>]
                BY <1>3, <3>2, <3>3
            <4>3. RListed[r] = fd
                BY <2>4, <3>3, <4>1 DEF RListed
            <4> QED
                BY <2>4, <3>1, <4>2, <4>3 DEF RListed
        <3>4. CASE members[r] # <<fd>>
            <4>1. members' = members
                BY <1>3, <3>1, <3>2, <3>4
            <4>2. CASE members[r] = <<>>
                BY <2>4, <4>1, <4>2 DEF RListed
            <4>3. CASE members[r] # <<>>
                <5>1. members[r] = <<members[r][1]>>
                    BY <2>4, <3>1, <4>3, ShortSequence
                <5>2. Head(members[r]) = members[r][1]
                    BY <5>1
                <5>3. RListed[r] # fd
                    BY <2>4, <3>4, <4>3, <5>1, <5>2 DEF RListed
                <5> QED
                    BY <4>1, <5>3 DEF RListed
            <4> QED
                BY <4>2, <4>3
        <3> QED
            BY <3>3, <3>4
    <2>13. Abstract!Leave(fd, r)
        BY <2>2, <2>9, <2>11, <2>12, <1>3, LeaveMapped
    <2> QED
        BY <1>3, <2>4, <2>13 DEF Abstract!Next
<1> QED
    BY <1>1, <1>2, <1>3 DEF LeaveRoom

-----------------------------------------------------------------------------
(* New tables: every session's list is empty or unset, every room's empty. *)
LEMMA NewTables ==
    ASSUME NEW heads \in [Slots -> FreshHeads]
    PROVE  /\ [fd \in Slots |-> [r \in Rooms |-> Count(heads[fd], r)]]
                 = [fd \in Slots |-> RNoRooms]
           /\ {fd \in Slots : Wild \in ToSet(heads[fd])} \in SUBSET RUnset
<1>1. \A fd \in Slots : /\ heads[fd] \in FreshHeads
                       /\ (heads[fd] = <<>> \/ heads[fd] = <<Wild>>)
    BY TablesAssumption
<1>2. \A fd \in Slots : [r \in Rooms |-> Count(heads[fd], r)] = RNoRooms
    BY <1>1, CountUnset DEF RNoRooms
<1>3. \A fd \in Slots : Wild \in ToSet(heads[fd]) => heads[fd] = <<Wild>>
    BY <1>1 DEF ToSet
<1> QED
    BY <1>1, <1>2, <1>3 DEF RUnset

LEMMA InitMapped == Init => Abstract!Init
<1> SUFFICES ASSUME Init PROVE Abstract!Init
    OBVIOUS
<1>1. joined \in [Slots -> FreshHeads] /\ status = "running"
    BY DEF Init
<1>2. RHeld = [fd \in Slots |-> RNoRooms] /\ RWild \in SUBSET RUnset
    BY <1>1, NewTables DEF RHeld, RWild, Holds
<1>3. RListed = [r \in Rooms |-> Nobody]
    BY DEF Init, RListed
<1> QED
    BY <1>1, <1>2, <1>3
       DEF Abstract!Init, Abstract!Empty, Abstract!NoRooms, RListed, RHeld, RWild, RNoRooms,
           RUnset, Count, Places

LEMMA RestartStep ==
    ASSUME Restart
    PROVE  [Abstract!Next]_(Abstract!vars)
<1>1. joined' \in [Slots -> FreshHeads] /\ status' = "running" /\ status # "running"
    BY DEF Restart
<1>2. RHeld' = [fd \in Slots |-> RNoRooms] /\ RWild' \in SUBSET RUnset
    BY <1>1, NewTables DEF RHeld, RWild, Holds
<1>3. RListed' = [r \in Rooms |-> Nobody]
    BY DEF Restart, RListed
<1>4. Abstract!Restart
    BY <1>1, <1>2, <1>3
       DEF Abstract!Restart, Abstract!NoRooms, RListed, RHeld, RWild, RNoRooms,
           RUnset, Count, Places
<1> QED
    BY <1>4 DEF Abstract!Next

(* Whatever sessions log in, join, leave and log out, the two linked       *)
(* tables do what Roster does: one remembered session per room, and a      *)
(* count per session and room.                                             *)
THEOREM RosterTheorem == Spec => ImplementsRoster
<1>1. IInv /\ [Next]_vars => [Abstract!Next]_(Abstract!vars)
    <2> SUFFICES ASSUME IInv, [Next]_vars PROVE [Abstract!Next]_(Abstract!vars)
        OBVIOUS
    <2>1. CASE UNCHANGED vars
        BY <2>1, Stutters DEF vars
    <2> QED
        BY <2>1, LoginStep, LogoutStep, JoinStep, LeaveStep, RestartStep DEF Next
<1> QED
    BY Invariance, InitMapped, <1>1, PTL DEF Spec, ImplementsRoster, Abstract!Spec
=============================================================================
