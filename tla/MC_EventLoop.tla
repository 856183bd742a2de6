---------------------------- MODULE MC_EventLoop ----------------------------
(* Two nodes, two user loops, one descriptor per node.                    *)
EXTENDS EventLoop

CONSTANTS n1, n2, l1, l2, fd1

MCNodes == {n1, n2}
MCLoops == {l1, l2}
MCFds   == {fd1}
=============================================================================
