------------------------------- MODULE MCLuft -------------------------------
(***************************************************************************)
(* Instances for TLC of the luft program and of its network service.  Each *)
(* behaviour exercises one of them and leaves the other in an initial      *)
(* state: the program sees of the service only the commands a poll brings, *)
(* the service of the program only the frames it publishes.                *)
(***************************************************************************)
EXTENDS LuftApp, LuftNetwork

VARIABLE exercised

vars == <<appVars, netVars, exercised>>

\* The peers that compete for a place use one port.
Init ==
    /\ exercised \in {"app", "network"}
    /\ AppInit /\ NetInit
    /\ \A p, q \in Peers : peers[p].port = peers[q].port
    /\ exercised = "app" => \A p \in Peers : peers[p].port = "command"
    /\ exercised = "network" => networking /\ ~windowed /\ max_sim_time = 0

Next ==
    /\ UNCHANGED exercised
    /\ \/ exercised = "app" /\ AppNext /\ UNCHANGED netVars
       \/ exercised = "network" /\ NetNext /\ UNCHANGED appVars

Fairness ==
    /\ WF_vars(exercised = "app" /\ AppTick /\ UNCHANGED <<netVars, exercised>>)
    /\ WF_vars(exercised = "app" /\ (MainFrame \/ MainWindow) /\ UNCHANGED <<netVars, exercised>>)
    /\ WF_vars(exercised = "app" /\ NetThread /\ UNCHANGED <<netVars, exercised>>)
    /\ WF_vars(exercised = "network" /\ Poll /\ UNCHANGED <<appVars, exercised>>)

Spec == Init /\ [][Next]_vars /\ Fairness

\* A command of three units, and a frame with an impossible length whose payload
\* reads like the header of a message that does not deserialize.
MCMessages ==
    {[length |-> 3, declared |-> 3, junk |-> 0, valid |-> TRUE],
     [length |-> 3, declared |-> 0, junk |-> 2, valid |-> FALSE]}
=============================================================================
