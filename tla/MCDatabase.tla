------------------------------- MODULE MCDatabase -------------------------------
(***************************************************************************)
(* Database for TLC: two processes, one default account and one default    *)
(* room, and one bucket for both rooms.                                    *)
(***************************************************************************)
EXTENDS Database

CONSTANTS gentoo, ann, admin, quo, pw, emacs

Account(op, u, p) == [op |-> op, name |-> u, password |-> p]
RoomCall(op, r) == [op |-> op, room |-> r]

MCDefaults == <<Account("create_user", gentoo, gentoo), RoomCall("create_room", gentoo)>>
MCCalls ==
    {Account("create_user", gentoo, pw), Account("create_user", quo, pw),
     Account("create_user", admin, pw),
     Account("check_user", gentoo, gentoo), Account("check_user", gentoo, quo),
     RoomCall("create_room", emacs), RoomCall("delete_room", emacs), [op |-> "save_log"]}
(* An insert with a quote in it has put ann there and withdrawn gentoo.    *)
MCSplice == {[u \in {gentoo, ann, admin, quo} |-> IF u = ann THEN pw ELSE NoUser]}
MCHash == [r \in {gentoo, emacs, admin} |-> 1]
===============================================================================
