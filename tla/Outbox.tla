-------------------------------- MODULE Outbox --------------------------------
(***************************************************************************)
(* What the client's send queue promises: every message put into it comes  *)
(* out exactly once, in some order, unless the client ends first.          *)
(***************************************************************************)
EXTENDS Sequences

CONSTANT Messages

VARIABLES
    fresh,    \* messages not put yet
    pending,  \* messages put and not sent
    wire,     \* messages sent, in order
    alive

vars == <<fresh, pending, wire, alive>>

Init == fresh = Messages /\ pending = {} /\ wire = <<>> /\ alive = TRUE

Put(m) ==
    /\ alive /\ m \in fresh
    /\ fresh' = fresh \ {m}
    /\ pending' = pending \cup {m}
    /\ UNCHANGED <<wire, alive>>

Send(m) ==
    /\ alive /\ m \in pending
    /\ pending' = pending \ {m}
    /\ wire' = Append(wire, m)
    /\ UNCHANGED <<fresh, alive>>

End == alive /\ alive' = FALSE /\ UNCHANGED <<fresh, pending, wire>>

Next == (\E m \in Messages : Put(m) \/ Send(m)) \/ End

Spec == Init /\ [][Next]_vars
=============================================================================
