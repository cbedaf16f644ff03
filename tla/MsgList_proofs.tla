---------------------------- MODULE MsgList_proofs ----------------------------
(***************************************************************************)
(* For any number of messages: the send thread never finds the list empty  *)
(* after sem_wait, the list changes its head only when it is taken, and    *)
(* the queue implements Outbox.                                            *)
(***************************************************************************)
EXTENDS MCMsgList, SequenceTheorems, TLAPS

(* Who holds the mutex.                                                    *)
MutexInv ==
    /\ mutex = "main" <=> pcMain \in {"test", "link", "relink", "unlock"}
    /\ mutex = "send" <=> pcSend \in {"test", "drop", "unlock", "dead"}

(* What a thread copied is still what is behind the head.                  *)
SnapshotInv ==
    /\ pcMain = "link" => list # <<>> /\ bufMain = Tail(list)
    /\ pcMain = "relink" => list # <<>>
    /\ pcMain # "input" => msg \in Messages
    /\ pcSend = "drop" => list # <<>> /\ bufSend = Tail(list)
    /\ pcSend \in {"drop", "unlock", "send"} => message \in Messages

Added == IF pcMain \in {"relink", "unlock", "post"} THEN 1 ELSE 0
Awaited == IF pcSend \in {"lock", "test", "drop"} THEN 1 ELSE 0
Unlinked == IF pcMain = "relink" THEN Len(bufMain) ELSE 0

(* The nodes that are there, linked or not, are those the semaphore        *)
(* counts, the one not posted yet and the one the send thread waited for.  *)
CountInv == Len(list) + Unlinked = msg_num + Added + Awaited

IInv == TypeOK /\ MutexInv /\ SnapshotInv /\ CountInv /\ pcSend # "dead"

-----------------------------------------------------------------------------
LEMMA InitIInv == Init => IInv
<1>1. <<>> \in Seq(Messages) /\ Len(<<>>) = 0
    OBVIOUS
<1> SUFFICES ASSUME Init PROVE IInv
    OBVIOUS
<1>2. TypeOK /\ MutexInv /\ SnapshotInv
    BY <1>1 DEF Init, TypeOK, MutexInv, SnapshotInv
<1>3. CountInv /\ pcSend # "dead"
    BY <1>1 DEF Init, CountInv, Added, Awaited, Unlinked
<1> QED
    BY <1>2, <1>3 DEF IInv

(* With the mutex, the send thread sees a list that is whole.              *)
LEMMA TestFindsMessage ==
    ASSUME IInv, pcSend = "test"
    PROVE  list # <<>>
<1>1. pcMain \notin {"relink", "unlock"}
    BY DEF IInv, MutexInv
<1>2. Len(list) >= 1
    BY <1>1 DEF IInv, TypeOK, CountInv, Added, Awaited, Unlinked
<1>3. Len(<<>>) = 0
    OBVIOUS
<1> QED
    BY <1>2, <1>3

LEMMA NextIInv == IInv /\ [Next]_vars => IInv'
<1> SUFFICES ASSUME IInv, [Next]_vars PROVE IInv'
    OBVIOUS
<1> USE DEF IInv
<1>0. /\ Len(list) \in Nat /\ Len(bufMain) \in Nat
      /\ list # <<>> => /\ Head(list) \in Messages
                        /\ Tail(list) \in Seq(Messages)
                        /\ Len(Tail(list)) = Len(list) - 1
    BY HeadTailProperties DEF TypeOK
<1>1. CASE UNCHANGED vars
    BY <1>1 DEF vars, TypeOK, MutexInv, SnapshotInv, CountInv, Added, Awaited, Unlinked
<1>2. CASE Input
    BY <1>2 DEF Input, Main, sendVars, TypeOK, MutexInv, SnapshotInv, CountInv,
                Added, Awaited, Unlinked
<1>3. CASE Exit
    BY <1>3 DEF Exit, Main, sendVars, TypeOK, MutexInv, SnapshotInv, CountInv,
                Added, Awaited, Unlinked
<1>4. CASE AddLock
    BY <1>4 DEF AddLock, Main, sendVars, TypeOK, MutexInv, SnapshotInv, CountInv,
                Added, Awaited, Unlinked
<1>5. CASE AddTest
    <2>1. CASE list = <<>>
        <3>1. <<msg>> \in Seq(Messages) /\ Len(<<msg>>) = 1 /\ Len(<<>>) = 0
            BY <1>5 DEF AddTest, Main, SnapshotInv
        <3>2. /\ pcMain = "test" /\ pcMain' = "unlock" /\ list' = <<msg>>
              /\ UNCHANGED <<mutex, msg_num, msg, bufMain, typed, exited, sendVars>>
            BY <1>5, <2>1 DEF AddTest, Main
        <3> HIDE DEF IInv
        <3> QED
            BY <2>1, <3>1, <3>2 DEF IInv, sendVars, TypeOK, MutexInv, SnapshotInv,
                                    CountInv, Added, Awaited, Unlinked
    <2>2. CASE list # <<>>
        BY <1>0, <1>5, <2>2 DEF AddTest, Main, sendVars, TypeOK, MutexInv, SnapshotInv,
                                CountInv, Added, Awaited, Unlinked
    <2> QED
        BY <2>1, <2>2
<1>6. CASE AddLink
    <2>1. list # <<>> /\ msg \in Messages
        BY <1>6 DEF AddLink, Main, SnapshotInv
    <2>2. <<Head(list), msg>> \in Seq(Messages) /\ Len(<<Head(list), msg>>) = 2
        BY <1>0, <2>1
    <2>3. <<Head(list), msg>> # <<>>
        OBVIOUS
    <2>4. Len(list) = Len(bufMain) + 1
        <3>1. bufMain = Tail(list)
            BY <1>6 DEF AddLink, Main, SnapshotInv
        <3> QED
            BY <1>0, <2>1, <3>1
    <2> QED
        BY <1>0, <1>6, <2>2, <2>3, <2>4
           DEF AddLink, Main, sendVars, TypeOK, MutexInv, SnapshotInv, CountInv,
               Added, Awaited, Unlinked
<1>7. CASE AddRelink
    <2>1. list \o bufMain \in Seq(Messages) /\ Len(list \o bufMain) = Len(list) + Len(bufMain)
        BY ConcatProperties DEF TypeOK
    <2> QED
        BY <1>0, <1>7, <2>1
           DEF AddRelink, Main, sendVars, TypeOK, MutexInv, SnapshotInv, CountInv,
               Added, Awaited, Unlinked
<1>8. CASE AddUnlock
    BY <1>8 DEF AddUnlock, Main, sendVars, TypeOK, MutexInv, SnapshotInv, CountInv,
                Added, Awaited, Unlinked
<1>9. CASE Post
    BY <1>0, <1>9 DEF Post, Main, sendVars, TypeOK, MutexInv, SnapshotInv, CountInv,
                      Added, Awaited, Unlinked
<1>10. CASE Wait
    BY <1>0, <1>10 DEF Wait, Sender, mainVars, TypeOK, MutexInv, SnapshotInv, CountInv,
                       Added, Awaited, Unlinked
<1>11. CASE RemoveLock
    BY <1>11 DEF RemoveLock, Sender, mainVars, TypeOK, MutexInv, SnapshotInv, CountInv,
                 Added, Awaited, Unlinked
<1>12. CASE RemoveTest
    <2>1. list # <<>>
        BY <1>12, TestFindsMessage DEF RemoveTest, Sender
    <2> QED
        BY <1>0, <1>12, <2>1
           DEF RemoveTest, Sender, mainVars, TypeOK, MutexInv, SnapshotInv, CountInv,
               Added, Awaited, Unlinked
<1>13. CASE RemoveDrop
    <2>1. list # <<>> /\ bufSend = Tail(list)
        BY <1>13 DEF RemoveDrop, Sender, SnapshotInv
    <2>2. pcMain \notin {"test", "link", "relink", "unlock"}
        BY <1>13 DEF RemoveDrop, Sender, MutexInv
    <2> QED
        BY <1>0, <1>13, <2>1, <2>2
           DEF RemoveDrop, Sender, mainVars, TypeOK, MutexInv, SnapshotInv, CountInv,
               Added, Awaited, Unlinked
<1>14. CASE RemoveUnlock
    BY <1>14 DEF RemoveUnlock, Sender, mainVars, TypeOK, MutexInv, SnapshotInv, CountInv,
                 Added, Awaited, Unlinked
<1>15. CASE Send
    <2>1. message \in Messages
        BY <1>15 DEF Send, Sender, SnapshotInv
    <2>2. Append(wire, message) \in Seq(Messages)
        BY <2>1 DEF TypeOK
    <2> QED
        BY <1>15, <2>2
           DEF Send, Sender, mainVars, TypeOK, MutexInv, SnapshotInv, CountInv,
               Added, Awaited, Unlinked
<1> QED
    BY <1>1, <1>2, <1>3, <1>4, <1>5, <1>6, <1>7, <1>8, <1>9, <1>10, <1>11, <1>12, <1>13,
       <1>14, <1>15 DEF Next, MainStep, SendStep

LEMMA Invariance == Spec => []IInv
BY InitIInv, NextIInv, PTL DEF Spec

-----------------------------------------------------------------------------
(* The queue keeps its types.                                              *)
THEOREM TypeCorrect == Spec => []TypeOK
<1>1. IInv => TypeOK
    BY DEF IInv
<1> QED
    BY Invariance, <1>1, PTL

(* remove_msglist never takes its branch for an empty list.                *)
THEOREM NeverEmpty == Spec => []EmptyBranchUnreachable
<1>1. IInv => EmptyBranchUnreachable
    BY TestFindsMessage DEF IInv, EmptyBranchUnreachable
<1> QED
    BY Invariance, <1>1, PTL

(* The head of the list changes only when the send thread takes it.        *)
THEOREM HeadTheorem == Spec => HeadGoesNext
<1>1. ASSUME IInv, Next, list # <<>>, ~(list' # <<>> /\ Head(list') = Head(list))
      PROVE  RemoveDrop
    <2>1. ~AddTest
        BY <1>1 DEF AddTest, Main
    <2>2. ~AddLink
        BY <1>1 DEF AddLink
    <2>3. ~AddRelink
        <3> SUFFICES ASSUME AddRelink PROVE FALSE
            OBVIOUS
        <3>1. /\ Len(list') = Len(list) + Len(bufMain)
              /\ \A i \in 1 .. Len(list) : list'[i] = list[i]
            BY <1>1, ConcatProperties DEF AddRelink, IInv, TypeOK
        <3>2. Len(list) \in Nat \ {0} /\ Len(bufMain) \in Nat
            BY <1>1, EmptySeq DEF IInv, TypeOK
        <3>3. Len(list') # 0 /\ list'[1] = list[1]
            BY <3>1, <3>2
        <3>4. list' # <<>> /\ Head(list') = Head(list)
            BY <3>3
        <3> QED
            BY <1>1, <3>4
    <2> QED
        BY <1>1, <2>1, <2>2, <2>3
           DEF Next, MainStep, SendStep, Input, Exit, AddLock, AddUnlock, Post,
               Wait, RemoveLock, RemoveTest, RemoveUnlock, Send
<1>2. IInv /\ [Next]_vars =>
        [list # <<>> /\ ~(list' # <<>> /\ Head(list') = Head(list)) => RemoveDrop]_vars
    BY <1>1
<1> QED
    BY Invariance, <1>2, PTL DEF Spec, HeadGoesNext
-----------------------------------------------------------------------------
(* The refinement.  Nothing is lost or doubled because the places a        *)
(* message may be in are disjoint and no list has it twice.                *)
Distinct(s) == \A i, j \in 1 .. Len(s) : s[i] = s[j] => i = j
Disjoint(S, T) == \A x \in S : x \notin T

LEMMA SetOfConcat ==
    ASSUME NEW S, NEW s \in Seq(S), NEW t \in Seq(S)
    PROVE  /\ ToSet(s \o t) = ToSet(s) \cup ToSet(t)
           /\ Distinct(s) /\ Distinct(t) /\ Disjoint(ToSet(s), ToSet(t)) => Distinct(s \o t)
<1> DEFINE u == s \o t
<1>1. /\ Len(s) \in Nat /\ Len(t) \in Nat /\ Len(u) = Len(s) + Len(t)
      /\ \A i \in 1 .. Len(s) : u[i] = s[i]
      /\ \A i \in 1 .. Len(u) : i > Len(s) => u[i] = t[i - Len(s)]
      /\ DOMAIN s = 1 .. Len(s) /\ DOMAIN t = 1 .. Len(t) /\ DOMAIN u = 1 .. Len(u)
    BY ConcatProperties
<1> HIDE DEF u
<1>2. ToSet(u) = ToSet(s) \cup ToSet(t)
    <2>1. ASSUME NEW x \in ToSet(u) PROVE x \in ToSet(s) \cup ToSet(t)
        <3>1. PICK i \in 1 .. Len(u) : x = u[i]
            BY <1>1, <2>1 DEF ToSet
        <3>2. CASE i <= Len(s)
            BY <1>1, <3>1, <3>2 DEF ToSet
        <3>3. CASE i > Len(s)
            <4>1. i - Len(s) \in 1 .. Len(t) /\ x = t[i - Len(s)]
                BY <1>1, <3>1, <3>3
            <4> QED
                BY <1>1, <4>1 DEF ToSet
        <3> QED
            BY <1>1, <3>2, <3>3
    <2>2. ASSUME NEW x \in ToSet(s) PROVE x \in ToSet(u)
        BY <1>1, <2>2 DEF ToSet
    <2>3. ASSUME NEW x \in ToSet(t) PROVE x \in ToSet(u)
        <3>1. PICK i \in 1 .. Len(t) : x = t[i]
            BY <1>1, <2>3 DEF ToSet
        <3>2. PICK j \in 1 .. Len(u) : j > Len(s) /\ j - Len(s) = i
            <4>1. i + Len(s) \in 1 .. Len(u) /\ i + Len(s) > Len(s) /\ (i + Len(s)) - Len(s) = i
                BY <1>1
            <4> QED
                BY <4>1
        <3>3. u[j] = x
            BY <1>1, <3>1, <3>2
        <3> QED
            BY <1>1, <3>3 DEF ToSet
    <2> QED
        BY <2>1, <2>2, <2>3
<1>3. ASSUME Distinct(s), Distinct(t), Disjoint(ToSet(s), ToSet(t)),
             NEW i \in 1 .. Len(u), NEW j \in 1 .. Len(u), u[i] = u[j]
      PROVE  i = j
    <2>1. \A k \in 1 .. Len(u) :
              \/ k \in 1 .. Len(s) /\ u[k] = s[k] /\ u[k] \in ToSet(s)
              \/ k - Len(s) \in 1 .. Len(t) /\ u[k] = t[k - Len(s)] /\ u[k] \in ToSet(t)
        <3>1. ASSUME NEW k \in 1 .. Len(u), k <= Len(s)
              PROVE  k \in 1 .. Len(s) /\ u[k] = s[k] /\ u[k] \in ToSet(s)
            BY <1>1, <3>1 DEF ToSet
        <3>2. ASSUME NEW k \in 1 .. Len(u), k > Len(s)
              PROVE  /\ k - Len(s) \in 1 .. Len(t) /\ u[k] = t[k - Len(s)]
                     /\ u[k] \in ToSet(t)
            <4>1. k - Len(s) \in 1 .. Len(t) /\ u[k] = t[k - Len(s)]
                BY <1>1, <3>2
            <4> QED
                BY <1>1, <4>1 DEF ToSet
        <3>3. \A k \in 1 .. Len(u) : k <= Len(s) \/ k > Len(s)
            BY <1>1
        <3> QED
            BY <3>1, <3>2, <3>3
    <2>2. CASE u[i] \in ToSet(s)
        BY <1>3, <2>1, <2>2 DEF Distinct, Disjoint
    <2>3. CASE u[i] \in ToSet(t)
        <3>1. i - Len(s) = j - Len(s)
            BY <1>3, <2>1, <2>3 DEF Distinct, Disjoint
        <3> QED
            BY <1>1, <3>1
    <2> QED
        BY <2>1, <2>2, <2>3
<1> QED
    BY <1>2, <1>3 DEF u, Distinct

LEMMA SetOfOne ==
    ASSUME NEW S, NEW m \in S
    PROVE  <<m>> \in Seq(S) /\ ToSet(<<m>>) = {m} /\ Distinct(<<m>>)
<1>1. <<m>> \in Seq(S) /\ Len(<<m>>) = 1 /\ DOMAIN <<m>> = 1 .. 1 /\ <<m>>[1] = m
    OBVIOUS
<1>2. 1 .. 1 = {1}
    OBVIOUS
<1> QED
    BY <1>1, <1>2 DEF ToSet, Distinct

LEMMA SetOfTwo ==
    ASSUME NEW S, NEW a \in S, NEW b \in S, a # b
    PROVE  ToSet(<<a, b>>) = {a, b} /\ Distinct(<<a, b>>)
<1> DEFINE s == <<a, b>>
<1>1. /\ Len(s) = 2 /\ DOMAIN s = 1 .. 2 /\ s[1] = a /\ s[2] = b
      /\ \A i \in 1 .. 2 : i = 1 \/ i = 2
      /\ 1 \in 1 .. 2 /\ 2 \in 1 .. 2
    OBVIOUS
<1> HIDE DEF s
<1>2. ToSet(s) = {a, b} /\ Distinct(s)
    BY <1>1 DEF ToSet, Distinct
<1> QED
    BY <1>2 DEF s

LEMMA SetOfList ==
    ASSUME NEW S, NEW s \in Seq(S), s # <<>>
    PROVE  /\ Head(s) \in S /\ Tail(s) \in Seq(S)
           /\ ToSet(s) = {Head(s)} \cup ToSet(Tail(s))
           /\ Distinct(s) => Distinct(Tail(s)) /\ Head(s) \notin ToSet(Tail(s))
<1> DEFINE t == Tail(s)
           h == Head(s)
<1>1. /\ Len(s) \in Nat \ {0} /\ DOMAIN s = 1 .. Len(s)
      /\ h = s[1] /\ h \in S /\ t \in Seq(S)
      /\ Len(t) = Len(s) - 1 /\ DOMAIN t = 1 .. Len(t)
      /\ \A i \in 1 .. Len(t) : t[i] = s[i + 1]
    BY HeadTailProperties, EmptySeq
<1> HIDE DEF t, h
<1>2. ToSet(s) = {h} \cup ToSet(t)
    <2>1. ASSUME NEW x \in ToSet(s) PROVE x \in {h} \cup ToSet(t)
        <3>1. PICK i \in 1 .. Len(s) : x = s[i]
            BY <1>1, <2>1 DEF ToSet
        <3>2. CASE i # 1
            <4>1. i - 1 \in 1 .. Len(t) /\ t[i - 1] = x
                BY <1>1, <3>1, <3>2
            <4> QED
                BY <1>1, <4>1 DEF ToSet
        <3> QED
            BY <1>1, <3>1, <3>2
    <2>2. ASSUME NEW x \in ToSet(t) PROVE x \in ToSet(s)
        <3>1. PICK i \in 1 .. Len(t) : x = t[i]
            BY <1>1, <2>2 DEF ToSet
        <3>2. i + 1 \in 1 .. Len(s) /\ s[i + 1] = x
            BY <1>1, <3>1
        <3> QED
            BY <1>1, <3>2 DEF ToSet
    <2>3. h \in ToSet(s)
        BY <1>1 DEF ToSet
    <2> QED
        BY <2>1, <2>2, <2>3
<1>3. ASSUME Distinct(s)
      PROVE  Distinct(t) /\ h \notin ToSet(t)
    <2>1. \A i \in 1 .. Len(t) : i + 1 \in 1 .. Len(s) /\ i + 1 # 1 /\ t[i] = s[i + 1]
        BY <1>1
    <2>2. ASSUME NEW i \in 1 .. Len(t), NEW j \in 1 .. Len(t), t[i] = t[j]
          PROVE  i = j
        <3>1. i + 1 = j + 1
            BY <1>3, <2>1, <2>2 DEF Distinct
        <3> QED
            BY <3>1
    <2>3. h \notin ToSet(t)
        BY <1>1, <1>3, <2>1 DEF Distinct, ToSet
    <2> QED
        BY <2>2, <2>3 DEF Distinct
<1> QED
    BY <1>1, <1>2, <1>3 DEF t, h

(* Where the messages are that were typed and not sent.                    *)
PlacesInv ==
    /\ Distinct(list)
    /\ pcMain = "relink" => Distinct(bufMain)
    /\ pcSend = "drop" => message = Head(list)
    /\ Disjoint(InMainHand, ToSet(list)) /\ Disjoint(InMainHand, InSendHand)
    /\ Disjoint(BehindNewNode, ToSet(list)) /\ Disjoint(BehindNewNode, InSendHand)
    /\ Disjoint(InSendHand, ToSet(list))
    /\ InMainHand \cup ToSet(list) \cup BehindNewNode \cup InSendHand \subseteq typed

(* Steps that move no message, and what they leave alone.                  *)
LEMMA NothingMoves ==
    ASSUME PlacesInv, UNCHANGED <<list, typed, wire, exited, InMainHand, BehindNewNode, InSendHand>>,
           pcMain' = "relink" => pcMain = "relink" /\ bufMain' = bufMain,
           pcSend' = "drop" => message' = Head(list)
    PROVE  PlacesInv' /\ UNCHANGED Abstract!vars
BY DEF PlacesInv, Distinct, Abstract!vars

LEMMA MainPlaces ==
    ASSUME IInv, PlacesInv, Input \/ Exit \/ MainStep
    PROVE  PlacesInv' /\ [Abstract!Next]_(Abstract!vars)
<1>1. CASE Input
    <2>1. PICK m \in Messages \ typed : msg' = m /\ typed' = typed \cup {m}
        BY <1>1 DEF Input
    <2>2. /\ InMainHand = {} /\ InMainHand' = {m}
          /\ BehindNewNode = {} /\ BehindNewNode' = {}
          /\ InSendHand' = InSendHand /\ ToSet(list)' = ToSet(list)
          /\ UNCHANGED <<list, wire, exited, pcSend, message>> /\ ~exited
        BY <1>1, <2>1 DEF Input, Main, sendVars, InMainHand, BehindNewNode, InSendHand
    <2>3. pcMain' # "relink"
        BY <1>1 DEF Input, Main
    <2>4. PlacesInv'
        BY <2>1, <2>2, <2>3 DEF PlacesInv, Distinct, Disjoint
    <2>5. Abstract!Put(m)
        BY <2>1, <2>2 DEF Abstract!Put
    <2> QED
        BY <2>4, <2>5 DEF Abstract!Next
<1>2. CASE Exit
    <2>1. /\ UNCHANGED <<list, typed, wire, InMainHand, BehindNewNode, InSendHand, pcSend,
                         message>>
          /\ ~exited /\ exited' /\ pcMain' # "relink"
        BY <1>2 DEF Exit, Main, sendVars, InMainHand, BehindNewNode, InSendHand
    <2>2. PlacesInv'
        BY <2>1 DEF PlacesInv, Distinct
    <2>3. Abstract!End
        BY <2>1 DEF Abstract!End
    <2> QED
        BY <2>2, <2>3 DEF Abstract!Next
<1>3. CASE AddLock \/ AddUnlock \/ Post
    <2>1. /\ UNCHANGED <<list, typed, wire, exited, InMainHand, BehindNewNode, InSendHand,
                         pcSend, message>>
          /\ pcMain' # "relink"
        BY <1>3 DEF AddLock, AddUnlock, Post, Main, sendVars, InMainHand, BehindNewNode,
                    InSendHand
    <2>2. pcSend' = "drop" => message' = Head(list)
        BY <2>1 DEF PlacesInv
    <2> QED
        BY <2>1, <2>2, NothingMoves
<1>4. CASE AddTest
    <2>1. /\ UNCHANGED <<typed, wire, exited, pcSend, message, InSendHand>>
          /\ pcMain' # "relink" /\ pcSend # "drop"
          /\ InMainHand = {msg} /\ BehindNewNode = {} /\ BehindNewNode' = {}
          /\ msg \in Messages
        BY <1>4 DEF AddTest, Main, sendVars, InMainHand, BehindNewNode, InSendHand, IInv,
                    MutexInv, SnapshotInv
    <2>2. CASE list # <<>>
        <3>1. InMainHand' = {msg} /\ list' = list
            BY <1>4, <2>2 DEF AddTest, Main, InMainHand
        <3> QED
            BY <2>1, <3>1, NothingMoves
    <2>3. CASE list = <<>>
        <3>1. InMainHand' = {} /\ list' = <<msg>>
            BY <1>4, <2>3 DEF AddTest, Main, InMainHand
        <3>2. ToSet(list) = {} /\ ToSet(list') = {msg} /\ Distinct(list')
            BY <2>1, <2>3, <3>1, SetOfOne DEF ToSet
        <3>3. PlacesInv'
            BY <2>1, <3>1, <3>2 DEF PlacesInv, Disjoint
        <3> QED
            BY <2>1, <3>1, <3>2, <3>3 DEF Abstract!vars
    <2> QED
        BY <2>2, <2>3
<1>5. CASE AddLink
    <2>1. /\ UNCHANGED <<typed, wire, exited, pcSend, message, InSendHand>>
          /\ pcSend # "drop"
          /\ InMainHand = {msg} /\ InMainHand' = {} /\ BehindNewNode = {}
          /\ BehindNewNode' = ToSet(Tail(list)) /\ bufMain' = Tail(list)
          /\ msg \in Messages /\ list \in Seq(Messages) /\ list # <<>>
          /\ list' = <<Head(list), msg>>
        BY <1>5 DEF AddLink, Main, sendVars, InMainHand, BehindNewNode, InSendHand, IInv,
                    TypeOK, MutexInv, SnapshotInv
    <2> DEFINE h == Head(list)
               rest == ToSet(Tail(list))
    <2>2. /\ h \in Messages /\ ToSet(list) = {h} \cup rest
          /\ Distinct(Tail(list)) /\ h \notin rest
        BY <2>1, SetOfList DEF PlacesInv
    <2>3. list' = <<h, msg>>
        BY <2>1
    <2> HIDE DEF h
    <2>4. msg # h /\ msg \notin rest
        BY <2>1, <2>2 DEF PlacesInv, Disjoint
    <2> HIDE DEF rest
    <2>5. ToSet(list') = {h, msg} /\ Distinct(list')
        BY <2>1, <2>2, <2>3, <2>4, SetOfTwo
    <2>6. BehindNewNode' = rest /\ Distinct(bufMain')
        BY <2>1, <2>2 DEF rest
    <2>7. PlacesInv'
        BY <2>1, <2>2, <2>4, <2>5, <2>6 DEF PlacesInv, Disjoint
    <2> QED
        BY <2>1, <2>2, <2>5, <2>6, <2>7 DEF Abstract!vars
<1>6. CASE AddRelink
    <2>1. /\ UNCHANGED <<typed, wire, exited, pcSend, message, InSendHand>>
          /\ pcSend # "drop" /\ pcMain' # "relink"
          /\ InMainHand = {} /\ InMainHand' = {}
          /\ BehindNewNode = ToSet(bufMain) /\ BehindNewNode' = {}
          /\ list \in Seq(Messages) /\ bufMain \in Seq(Messages)
          /\ list' = list \o bufMain /\ Distinct(bufMain) /\ Distinct(list)
        BY <1>6 DEF AddRelink, Main, sendVars, InMainHand, BehindNewNode, InSendHand, IInv,
                    TypeOK, MutexInv, PlacesInv
    <2>2. Disjoint(ToSet(list), ToSet(bufMain))
        BY <2>1 DEF PlacesInv, Disjoint
    <2>3. ToSet(list') = ToSet(list) \cup ToSet(bufMain) /\ Distinct(list')
        BY <2>1, <2>2, SetOfConcat
    <2>4. PlacesInv'
        BY <2>1, <2>3 DEF PlacesInv, Disjoint
    <2> QED
        BY <2>1, <2>3, <2>4 DEF Abstract!vars
<1> QED
    BY <1>1, <1>2, <1>3, <1>4, <1>5, <1>6 DEF MainStep

LEMMA SendPlaces ==
    ASSUME IInv, PlacesInv, SendStep
    PROVE  PlacesInv' /\ [Abstract!Next]_(Abstract!vars)
<1>1. CASE Wait \/ RemoveLock \/ RemoveTest \/ RemoveUnlock
    <2>1. /\ UNCHANGED <<list, typed, wire, exited, InMainHand, BehindNewNode, InSendHand>>
          /\ pcMain' = pcMain /\ bufMain' = bufMain
        BY <1>1, TestFindsMessage
           DEF Wait, RemoveLock, RemoveTest, RemoveUnlock, Sender, mainVars, InMainHand,
               BehindNewNode, InSendHand
    <2>2. pcSend' = "drop" => message' = Head(list)
        BY <1>1 DEF Wait, RemoveLock, RemoveTest, RemoveUnlock, Sender
    <2> QED
        BY <2>1, <2>2, NothingMoves
<1>2. CASE RemoveDrop
    <2>1. /\ UNCHANGED <<typed, wire, exited, InMainHand, message>>
          /\ pcMain # "relink" /\ pcMain' # "relink" /\ pcSend' # "drop"
          /\ BehindNewNode = {} /\ BehindNewNode' = {}
          /\ InSendHand = {} /\ InSendHand' = {Head(list)}
          /\ list \in Seq(Messages) /\ list # <<>> /\ list' = Tail(list)
        BY <1>2 DEF RemoveDrop, Sender, mainVars, InMainHand, BehindNewNode, InSendHand, IInv,
                    TypeOK, MutexInv, SnapshotInv, PlacesInv
    <2>2. /\ ToSet(list) = {Head(list)} \cup ToSet(list')
          /\ Distinct(list') /\ Head(list) \notin ToSet(list')
        BY <2>1, SetOfList DEF PlacesInv
    <2>3. PlacesInv'
        BY <2>1, <2>2 DEF PlacesInv, Disjoint
    <2> QED
        BY <2>1, <2>2, <2>3 DEF Abstract!vars
<1>3. CASE Send
    <2>1. /\ UNCHANGED <<list, typed, exited, InMainHand, BehindNewNode, pcMain, bufMain>>
          /\ ~exited /\ pcSend' # "drop"
          /\ InSendHand = {message} /\ InSendHand' = {}
          /\ message \in Messages /\ wire' = Append(wire, message)
        BY <1>3 DEF Send, Sender, mainVars, InMainHand, BehindNewNode, InSendHand, IInv,
                    SnapshotInv
    <2>2. PlacesInv'
        BY <2>1 DEF PlacesInv, Distinct, Disjoint
    <2>3. Abstract!Send(message)
        BY <2>1 DEF Abstract!Send, PlacesInv, Disjoint
    <2> QED
        BY <2>1, <2>2, <2>3 DEF Abstract!Next
<1> QED
    BY <1>1, <1>2, <1>3 DEF SendStep

(* Whatever the two threads do to the list, each message typed leaves it   *)
(* once: the queue implements Outbox.                                      *)
THEOREM OutboxTheorem == Spec => ImplementsOutbox
<1>1. Init => PlacesInv /\ Abstract!Init
    BY DEF Init, PlacesInv, Distinct, Disjoint, Abstract!Init, InMainHand, BehindNewNode,
           InSendHand, ToSet
<1>2. IInv /\ PlacesInv /\ [Next]_vars => PlacesInv' /\ [Abstract!Next]_(Abstract!vars)
    <2>1. CASE UNCHANGED vars
        BY <2>1 DEF vars, PlacesInv, Distinct, Disjoint, Abstract!vars, InMainHand,
                    BehindNewNode, InSendHand
    <2> QED
        BY <2>1, MainPlaces, SendPlaces DEF Next
<1> QED
    BY Invariance, <1>1, <1>2, PTL DEF Spec, ImplementsOutbox, Abstract!Spec
=============================================================================
