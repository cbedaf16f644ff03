-------------------------------- MODULE Parsing --------------------------------
(***************************************************************************)
(* What a receiver makes of the bytes one read() or recv() returned.  It   *)
(* takes them for one message, whatever they are; this module says which   *)
(* message that can be, and module Wire shows that the bytes agree.        *)
(***************************************************************************)
CONSTANTS
    UserNames, Passwords, RoomNames,
    Long,       \* those of MAX_USERNAME_SIZE characters or more
    Mangled     \* a field that is none of these

NamesUser(m) == m.type \in {"JOIN", "LOGIN"}
NamesRoom(m) ==
    m.type \in {"JOIN_ROOM", "LEAVE_ROOM", "JOIN_ROOM_SUCCESS", "LEAVE_ROOM_SUCCESS"}

(* What parse_packet and sscanf find in n messages, the first of them m    *)
(* and the last one in part if cut: the next message's bytes run into m's  *)
(* last field, or that field is shorter, which may make another name of it.*)
(* A field sscanf finds nothing for is left alone, and holds what an       *)
(* earlier request may have left there; one too long for its array runs    *)
(* into the next, and ends with what is written there after it.            *)
Parsed(m, n, cut) ==
    LET whole == n = 1 /\ ~cut
        names == IF (n = 1 /\ cut) \/ m.data.name \in Long
                 THEN UserNames \cup {Mangled} ELSE {m.data.name}
        passwords == IF whole THEN {m.data.password} ELSE Passwords \cup {Mangled}
    IN  IF NamesUser(m)
        THEN {[m EXCEPT !.data = [name |-> u, password |-> p]] :
                 u \in names, p \in passwords}
        ELSE IF NamesRoom(m) /\ ~whole
        THEN {[m EXCEPT !.data = r] : r \in RoomNames \cup {Mangled}}
        ELSE {m}
=============================================================================
