------------------------------ MODULE MCStages ------------------------------
(* The stages of a pipeline for TLC: the pipe and its modules, and the     *)
(* text programs.  They share no variable (what a program reads and prints *)
(* are its own input and output, whatever carries them), so the behaviours *)
(* in which only one of the two parts runs show all that each can do.      *)
EXTENDS MCPipeline, MCPrograms

ProgramsOff == FiltersOff /\ SortOff

StagesInit == Init /\ (ProgramsOff \/ ProgramsInit)

PipelineOnly == ProgramsOff /\ Next /\ UNCHANGED <<filterVars, sortVars>>
ProgramsOnly == Init /\ ProgramsNext /\ UNCHANGED vars

StagesSpec == StagesInit /\ [][PipelineOnly \/ ProgramsOnly]_<<vars, filterVars, sortVars>>
=============================================================================
