---------------------------- MODULE MC_LuaFormat ----------------------------
(* Formats of one or two fields: u8, s16, s64 and the blocks s2. and s10. *)
(* (a one- and a two-digit length); strings and userdata of lengths       *)
(* around both block sizes.                                                *)
EXTENDS LuaFormat

MCFields == {<<"1">>, <<"7">>, <<"9">>, <<"s", "2", ".">>, <<"s", "1", "0", ".">>}
MCFormats == MCFields \cup {a \o b : a, b \in MCFields}
MCIntVals == [kind : {"number"}, id : {100, 200}, len : {0}]
MCBinArgs == [kind : {"string", "userdata"}, id : {1, 2}, len : {0, 2, 10, 12}]
=============================================================================
