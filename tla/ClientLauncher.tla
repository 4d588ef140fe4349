--------------------------- MODULE ClientLauncher ---------------------------
(***************************************************************************)
(* The launcher program: main() gets a game started for the server that    *)
(* was selected (Login) and then opens its own connection to it, with      *)
(* BeamMPClient or, for a NovaMP server, with NetworkClient.  The two      *)
(* halves follow each other and share no state, so a behaviour of this     *)
(* module follows one of them: several launchers that start, or one that   *)
(* is connected.                                                           *)
(***************************************************************************)
EXTENDS Login, NetworkClient

VARIABLE half \* the half that the behaviour follows

vars == <<startVars, clientVars, half>>

Init == half \in {"start", "connection"} /\ LoginInit /\ ClientInit

Next ==
    \/ half = "start" /\ LoginNext /\ UNCHANGED <<clientVars, half>>
    \/ half = "connection" /\ ClientNext /\ UNCHANGED <<startVars, half>>

Spec == Init /\ [][Next]_vars /\ ClientFairness

\* The type invariants of both halves.
TypeOK == LoginTypeOK /\ ClientTypeOK

=============================================================================
