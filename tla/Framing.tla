-------------------------------- MODULE Framing --------------------------------
(***************************************************************************)
(* One direction of a connection, as the handlers at its end may think of  *)
(* it: a queue of messages, some of which have lost their beginning to an  *)
(* earlier read or their end to a write that took a part of them only.  A  *)
(* read takes any number of them.  The first decides what it is taken for, *)
(* and damage never outlives the messages it happened to.                  *)
(***************************************************************************)
EXTENDS Parsing, Integers, Sequences

CONSTANTS
    Messages,
    Shortable,  \* those a write may take only a part of
    Fragment,   \* what has no type anybody handles
    NULL        \* no message at all

VARIABLES
    queue,  \* [of |-> message, head |-> BOOLEAN, tail |-> BOOLEAN]
    got     \* what the last read was taken for

Init == queue = <<>> /\ got = NULL

Write ==
    /\ \E m \in Messages, whole \in BOOLEAN :
          /\ whole \/ m \in Shortable
          /\ queue' = Append(queue, [of |-> m, head |-> TRUE, tail |-> whole])
    /\ UNCHANGED got

TakenFor(first, n, broken) ==
    (IF first.head THEN Parsed(first.of, n, broken) ELSE {Fragment})
        \cup (IF n = 1 /\ (broken \/ ~first.head) THEN {NULL} ELSE {})
        \cup (IF n > 1 /\ ~first.tail THEN {Fragment} ELSE {})

Read ==
    \E n \in DOMAIN queue, cut \in BOOLEAN :
        /\ got' \in TakenFor(queue[1], n, cut \/ ~queue[n].tail)
        /\ queue' = (IF cut THEN <<[queue[n] EXCEPT !.head = FALSE]>> ELSE <<>>)
                        \o SubSeq(queue, n + 1, Len(queue))

vars == <<queue, got>>

Spec == Init /\ [][Write \/ Read]_vars
=============================================================================
