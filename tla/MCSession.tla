------------------------------- MODULE MCSession -------------------------------
(***************************************************************************)
(* Session for TLC, and what the client's messages claim of it.            *)
(***************************************************************************)
EXTENDS Session

(* construct_message asks the user to "please join one room first": a text *)
(* would be sent only while there is a room to send it to.                 *)
TextHasRoom == pcMain = "fill" => Live(cur_room)
===============================================================================
