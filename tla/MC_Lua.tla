------------------------------- MODULE MC_Lua --------------------------------
(* Two method objects; o1 takes a binary (URPC_BIN) argument.             *)
EXTENDS LuaBindings

CONSTANTS o1, o2

MCObjects    == {o1, o2}
MCBinObjects == {o1}
MCLuaTables  == {"t1", "t2"}
=============================================================================
