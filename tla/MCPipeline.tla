----------------------------- MODULE MCPipeline -----------------------------
(* Three modules around a pipe of a few bytes, for TLC.                    *)
EXTENDS Pipeline

BothStray   == {"fault", "miss"}
TwoBytes    == {1, 2}
SomeChunks  == {<<1>>, <<1, 2>>, <<2, 1, 1, 2>>}
SomeLengths == {1, 2}
=============================================================================
