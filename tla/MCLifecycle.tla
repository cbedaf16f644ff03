------------------------------ MODULE MCLifecycle ------------------------------
(***************************************************************************)
(* Lifecycle for TLC, and what comments and messages of the code claim.    *)
(***************************************************************************)
EXTENDS Lifecycle

\* The second user and room are looked up and inserted the way the first are.
MCDefaults == <<<<"users", "gentoo">>, <<"rooms", "gentoo">>>>

(* "INT, TERM and HUP are handled by sigwait() in run()": a server that is *)
(* told to terminate does.                                                 *)
TermStopsServer ==
    \A p \in Pids : pc[p] = "serving" /\ pending[p] ~> pc[p] # "serving"
===============================================================================
