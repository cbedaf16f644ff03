------------------------------- MODULE MCDaemon -------------------------------
(***************************************************************************)
(* Instances of Daemon for TLC.                                            *)
(***************************************************************************)
EXTENDS Daemon

CONSTANTS gentoo, admin, ann, pw, quo, long, room, vim

Cmd(type) == [type |-> type, data |-> Mangled]
Account(type, name, password) ==
    [type |-> type, data |-> [name |-> name, password |-> password]]
RoomCmd(type, r) == [type |-> type, data |-> r]

MCOneFd == {1}
MCTwoFds == {1, 2}
MCFreshNull == {<<>>}
MCFresh == {<<>>, <<Wild>>}
MCNames == {ann, gentoo}
MCAllNames == {ann, gentoo, admin}
MCQuoted == {quo, Mangled}
MCDefaultUsers == [u \in {gentoo} |-> gentoo]
MCFragment == Cmd("FRAGMENT")

(* What the accounts may be after an insert with a quote in it: those of   *)
(* before with ann added, or gentoo's withdrawn.                           *)
MCSplice ==
    {[u \in MCAllNames \cup {Mangled} |->
        IF u = ann THEN pw ELSE IF u = gentoo /\ keep THEN gentoo ELSE NoUser] :
       keep \in BOOLEAN}

(* Every command.                                                          *)
MCEveryCommand ==
    {Account("JOIN", ann, pw), Account("JOIN", admin, pw), Account("JOIN", gentoo, pw),
     Account("LOGIN", gentoo, gentoo), Account("LOGIN", ann, pw),
     Account("JOIN", ann, quo), Account("LOGIN", gentoo, quo), Account("LOGIN", ann, long),
     RoomCmd("JOIN_ROOM", room), RoomCmd("LEAVE_ROOM", room), RoomCmd("JOIN_ROOM", vim),
     Cmd("LOGOUT"), Cmd("LIST_ROOMS"), Cmd("ECHO"), Cmd("OTHER"),
     Cmd("UNKNOWN_TYPE")}

(* The commands that touch the tables.                                     *)
MCSessionCommands ==
    {Account("LOGIN", gentoo, gentoo), RoomCmd("JOIN_ROOM", room),
     RoomCmd("LEAVE_ROOM", room), Cmd("LOGOUT")}

MCOneLogin == {Account("LOGIN", ann, pw)}
MCAnnHasPw == [u \in {ann} |-> pw]

-----------------------------------------------------------------------------
(* What a header of the code says, and the code does not do.               *)

(* user.h:17, "0: not authorized, 1: authorized": the flag of a connection *)
(* that was just accepted is 0.  The error branch closes a descriptor and  *)
(* leaves its slot to the next connection.                                 *)
FreshConnectionOffline ==
    [][\A fd \in Tables!Slots :
          peer[fd] = "none" /\ peer'[fd] = "open" => ~online'[fd]]_vars

=============================================================================
