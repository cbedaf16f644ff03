---------------------------- MODULE MCOnlineTables ----------------------------
(***************************************************************************)
(* Instances of OnlineTables for TLC, and the mapping under which it       *)
(* implements Roster.  What a list says to Roster: a room's head, and for  *)
(* a session how often each room occurs in its list.                       *)
(***************************************************************************)
EXTENDS OnlineTables

CONSTANT Nobody

MCSlotsOnly == {1, 2}
MCWithExcess == {1, 2, 3}
MCFresh == {<<>>, <<Wild>>}
MCFreshNull == {<<>>}

Abstract == INSTANCE Roster WITH
    Sessions <- Slots,
    Unset <- IF <<Wild>> \in FreshHeads THEN Slots ELSE {},
    Faults <- Fds # Slots,
    listed <- [r \in Rooms |->
                 IF members[r] = <<>> THEN Nobody ELSE Head(members[r])],
    held <- [fd \in Slots |-> [r \in Rooms |->
               Cardinality({i \in DOMAIN joined[fd] : joined[fd][i] = r})]],
    wild <- {fd \in Slots : Holds(fd, Wild)},
    alive <- status = "running"

(* The two linked tables behave as Roster: in every reachable state a room *)
(* is determined by its head and a session by its counts, so neither the   *)
(* order of a list nor a node that should have gone can change what a      *)
(* later command does.                                                     *)
ImplementsRoster == Abstract!Spec

-----------------------------------------------------------------------------
(* What a comment of the code says, and the code does not do.              *)

(* online_users.c:58, "leave from every joined room": after a logout no    *)
(* room lists the session.  The process dies on the first room instead.    *)
LogoutLeavesEveryRoom ==
    [][\A fd \in Slots :
          Logout(fd) => status' = "running" /\ \A r \in Rooms : ~Listed(fd, r)']_vars

=============================================================================
