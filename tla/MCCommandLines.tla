--------------------------- MODULE MCCommandLines ---------------------------
(* ModuleRuntime with command lines on a small table, for TLC.             *)
EXTENDS CommandLines

MCRegistry == {"shell", "cat", "stub"}
MCBadWasm  == {"stub"}

AllFaults  == {"load", "trap", "stray"}
=============================================================================
