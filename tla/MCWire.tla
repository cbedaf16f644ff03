--------------------------------- MODULE MCWire ---------------------------------
(***************************************************************************)
(* Wire for TLC: names of one to three characters, packets of two to six   *)
(* bytes, arrays of two and a buffer of eight.  One name begins with       *)
(* another and is too long for its array; one password is another with the *)
(* next packet's version behind it; a third name is what the long one      *)
(* becomes when a password is written over its end.                        *)
(***************************************************************************)
EXTENDS Wire

CONSTANTS ann, anne, annep, pw, pw1, room, part

MCText ==
    (ann :> <<97>>) @@ (anne :> <<97, 98>>) @@ (annep :> <<97, 98, 112>>)
        @@ (pw :> <<112>>) @@ (pw1 :> <<112, 49>>) @@ (room :> <<49, 115>>) @@ (part :> <<49>>)
MCLong == {anne, annep, pw1, room}

Plain(type) == [type |-> type, data |-> Mangled]
Account(type, u, p) == [type |-> type, data |-> [name |-> u, password |-> p]]

MCRequests ==
    {Account("JOIN", ann, pw), Account("LOGIN", anne, pw), Plain("LOGOUT"),
     Plain("INIT"), [type |-> "JOIN_ROOM", data |-> room]}
MCReplies ==
    {Plain("LOGIN_SUCCESS"), Plain("LOGOUT_SUCCESS"),
     [type |-> "JOIN_ROOM_SUCCESS", data |-> room]}
===============================================================================
