------------------------------- MODULE MCMsgList -------------------------------
(***************************************************************************)
(* MsgList on three messages, and the mapping under which it implements    *)
(* Outbox: what was put and not sent is in the main thread's hand, in the  *)
(* list, behind the node being linked or in the send thread's hand.        *)
(***************************************************************************)
EXTENDS MsgList

InMainHand ==
    IF pcMain \in {"lock", "test", "link"} THEN {msg} ELSE {}
BehindNewNode == IF pcMain = "relink" THEN ToSet(bufMain) ELSE {}
InSendHand == IF pcSend \in {"unlock", "send"} THEN {message} ELSE {}

Abstract == INSTANCE Outbox WITH
    fresh <- Messages \ typed,
    pending <- InMainHand \cup ToSet(list) \cup BehindNewNode \cup InSendHand,
    alive <- ~exited

(* No interleaving of the two threads loses a message, doubles one or      *)
(* sends one that was not typed.                                           *)
ImplementsOutbox == Abstract!Spec
=============================================================================
