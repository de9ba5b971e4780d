--------------------------- MODULE MCResourceClaims ---------------------------
(* Constants of the TLC instances of ResourceClaims. *)
EXTENDS ResourceClaims

CONSTANTS timer, other, pin, alias, id1, id2, slow, fast

Resources == {timer, other, pin, alias}
Canonical == [t \in Resources |-> IF t = alias THEN pin ELSE t]
OnlyTimer == {timer}
ThreeSlots == 0..2
TwoIds == {id1, id2}
TwoUses == {slow, fast}

\* Every division of three claims into parameters and modules, in their order.
Layouts ==
  { << << <<1, 2, 3>> >> >>,
    << << <<1, 2>>, <<3>> >> >>, << << <<1>>, <<2, 3>> >> >>,
    << << <<1, 2>> >>, << <<3>> >> >>, << << <<1>> >>, << <<2, 3>> >> >>,
    << << <<1>>, <<2>>, <<3>> >> >>,
    << << <<1>>, <<2>> >>, << <<3>> >> >>, << << <<1>> >>, << <<2>>, <<3>> >> >>,
    << << <<1>> >>, << <<2>> >>, << <<3>> >> >>,
    << << <<1>>, <<>>, <<2>> >>, <<>>, << <<3>> >> >> }
=============================================================================
