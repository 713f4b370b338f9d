-------------------------- MODULE SimulationEngine --------------------------
(***************************************************************************)
(* luft::SimulationEngine (luft/src/core/simulation_engine.cpp): the       *)
(* lifecycle of a simulation.  Every operation is one critical section of  *)
(* state_mutex_, so each is one action here; who calls it is the business  *)
(* of the module that extends this one.                                    *)
(*                                                                         *)
(* Time is counted in steps (sim_time_ is tick_count_ times the time step).*)
(* The flight dynamics are abstracted to the one bit that the lifecycle    *)
(* depends on: whether the integrated state passes check_state_validity.   *)
(***************************************************************************)
EXTENDS Integers

VARIABLES simState, \* state_
          simTime   \* sim_time_, in steps

simVars == <<simState, simTime>>

SimStates == {"Uninitialized", "Initialized", "Running", "Paused", "Stopped", "Error"}

\* is_valid_transition: the states each state may be entered from.
MayEnter(to) ==
    CASE to = "Initialized" -> {"Uninitialized", "Stopped"}
      [] to = "Running"     -> {"Initialized", "Paused"}
      [] to = "Paused"      -> {"Running"}
      [] to = "Stopped"     -> {"Initialized", "Running", "Paused", "Error"}
      [] to = "Error"       -> {"Running"}
      [] OTHER              -> {}

\* transition_to: a transition that is not in the table is ignored.
TransitionTo(to) ==
    /\ simState' = IF simState \in MayEnter(to) THEN to ELSE simState
    /\ UNCHANGED simTime

\* initialize and reset do not consult the table.
Initialize == simState' = "Initialized" /\ simTime' = 0

Start  == TransitionTo("Running")
Pause  == TransitionTo("Paused")
Resume == TransitionTo("Running")

\* Neither does stop, which only asks for an engine that was initialized.
StopEngine ==
    /\ simState' = IF simState = "Uninitialized" THEN simState ELSE "Stopped"
    /\ UNCHANGED simTime

\* step, when the dynamics stay valid and when they diverge.
StepEngine(valid) ==
    IF simState # "Running" THEN UNCHANGED simVars
    ELSE /\ simState' = IF valid THEN simState ELSE "Error"
         /\ simTime' = IF valid THEN simTime + 1 ELSE simTime
=============================================================================
