---------------------------- MODULE TextPrograms ----------------------------
(***************************************************************************)
(* Any one of the text programs, from its start to its end: the filters of *)
(* TextFilters and the module sort.                                        *)
(***************************************************************************)
EXTENDS TextFilters, Sort

FiltersOff == /\ prog = "sort" /\ st = [heap |-> 0] /\ status = "done"
              /\ read = <<>> /\ out = <<>>
SortOff    == /\ reverse = FALSE /\ rank = CHOOSE r \in Ranks : TRUE
              /\ phase = "printed" /\ input = <<>> /\ used = 0
              /\ lines = <<>> /\ j = 2 /\ k = 2 /\ printed = <<>>

ProgramsInit == (FilterInit /\ SortOff) \/ (FiltersOff /\ SortInit)
ProgramsNext == \/ FilterNext /\ UNCHANGED sortVars
                \/ SortNext /\ UNCHANGED filterVars

ProgramsSpec == ProgramsInit /\ [][ProgramsNext]_<<filterVars, sortVars>>
=============================================================================
