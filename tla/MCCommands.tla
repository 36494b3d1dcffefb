----------------------------- MODULE MCCommands -----------------------------
(***************************************************************************)
(* Commands at both ends: a behaviour is Galley's, where grants, checks    *)
(* and limits issue them, or that of one Round's runner, which pulls and   *)
(* acknowledges them; the other rests.                                     *)
(***************************************************************************)
EXTENDS MCAuthority, RunnerCommands

VARIABLE end

mcVars == <<vars, commandVars, end>>

MCInit == end \in {"Galley", "Michelin"} /\ Init /\ CommandsInit

MCNext ==
    /\ UNCHANGED end
    /\ \/ end = "Galley" /\ Next /\ UNCHANGED commandVars
       \/ end = "Michelin" /\ CommandsNext /\ UNCHANGED vars

MCSpec == MCInit /\ [][MCNext]_mcVars
=============================================================================
