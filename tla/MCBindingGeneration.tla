-------------------------- MODULE MCBindingGeneration --------------------------
(* Constants of the TLC instances of BindingGeneration. *)
EXTENDS BindingGeneration

CONSTANTS b1, b2, b3, v1, v2, bad, odd

TwoBuilds == {b1, b2}
ThreeBuilds == {b1, b2, b3}
GoodVersions == {v1, v2}
AllVersions == {v1, v2, bad, odd}
Bad == {bad}
Odd == {odd}
=============================================================================
