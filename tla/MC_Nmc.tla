------------------------------ MODULE MC_Nmc -------------------------------
(* Model-checking instance of NmcTransport: two method objects, up to four *)
(* calls, and DSP images built from a few section layouts, table headers  *)
(* and export tables.                                                      *)
EXTENDS NmcTransport

CONSTANTS o1, o2

MCObjects == {o1, o2}

Sec(nm, a, sz) == [name |-> nm, addr |-> a, size |-> sz]

(* A well-formed image: export table at word 1, sync buffer at word 2.    *)
GoodSections == <<Sec(".aura_rpc_exports", 1, 8), Sec(".aura_rpc_syncbuf", 2, 4)>>

MCSectionLayouts ==
  { GoodSections,
    <<Sec(".aura_rpc_exports", 1, 8)>>,                                  \* no sync buffer
    <<Sec(".aura_rpc_syncbuf", 2, 0), Sec(".aura_rpc_exports", 1, 8)>>,  \* empty sync buffer
    <<Sec(".aura_rpc_exports", 0, 8), Sec(".aura_rpc_syncbuf", 2, 4)>>,  \* exports at word 0
    <<Sec(".aura_rpc_exports", 2^30, 8), Sec(".aura_rpc_syncbuf", 2, 4)>>, \* shift wraps to 0
    <<Sec(".aura_rpc_exports", 1, 0), Sec(".aura_rpc_syncbuf", 2, 4)>>,  \* empty exports
    <<Sec(".aura_rpc_exports", 1, 8), Sec(".aura_rpc_exports", 3, 0),
      Sec(".text", 4, 16), Sec(".aura_rpc_syncbuf", 2, 4)>> }

(* Export entries with fields of three words: the empty string, one and  *)
(* two characters ("A" = 65, "B" = 66).                                     *)
Obj(t, nm, arg, ret) == [type |-> t, fields |-> <<nm, arg, ret>>]
NoStr == <<0, 0, 0>>
MCExportTables ==
  { <<Obj("METHOD", <<65, 66, 0>>, <<66, 0, 0>>, NoStr), Obj("EVENT", <<66, 0, 0>>, NoStr, <<65, 66, 0>>)>>,
    <<Obj("METHOD", <<65, 0, 0>>, <<65, 0, 0>>, <<66, 0, 0>>), Obj("BAD", NoStr, NoStr, NoStr),
      Obj("METHOD", <<66, 65, 0>>, NoStr, NoStr)>>,
    <<>> }

MCImages ==
  [sections : MCSectionLayouts, magic : BOOLEAN, strlenOk : BOOLEAN,
   objs : MCExportTables]

MCGoodImages ==
  {[sections |-> GoodSections, magic |-> TRUE, strlenOk |-> TRUE,
    objs |-> CHOOSE t \in MCExportTables : Len(t) = 2]}

=============================================================================
