---------------------------- MODULE MCArduinoBuild ----------------------------
(* Constants of the TLC instances of ArduinoBuild. *)
EXTENDS ArduinoBuild

CONSTANTS b1, b2, v1, v2, l1, l2, header, main, hex, elf

First == {b1}
TwoBuilds == {b1, b2}
Versions == {v1, v2}
Parts == {header, main}
Libraries == {l1, l2}
Files == {hex, elf}

\* The new library has other bindings for the new header only.
BindingsOf == [u \in Unit |-> IF u.library = l1 THEN v1 ELSE u.sketch[header]]

\* The new version exports fewer files, with the new library none.
ExportsOf ==
  [u \in Unit |-> IF u.sketch[main] = v1 THEN Files ELSE IF u.library = l1 THEN {hex} ELSE {}]
=============================================================================
