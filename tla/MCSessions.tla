----------------------------- MODULE MCSessions -----------------------------
(* Two sessions of one agent with one credentialed tool.                     *)
EXTENDS Sessions, TLC
CONSTANTS s1, s2, tool
MCSessionSet == {s1, s2}
MCTools == {tool}
MCToolsOf == [s \in MCSessionSet |-> <<tool>>]
MCSymmetry == Permutations(MCSessionSet)
=============================================================================
