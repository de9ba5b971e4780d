---------------------------- MODULE MCResourceGraph ----------------------------
(* Constants of the TLC instance of ResourceGraph. *)
EXTENDS ResourceGraph

Four == 1..4

\* What the r-th resource may depend on: nothing, itself, or up to two earlier ones.
Declarations(r) ==
  {<<>>, <<r>>} \cup { <<q>> : q \in 1..(r - 1) } \cup ((1..(r - 1)) \X (1..(r - 1)))

AllGraphs == { f \in [Four -> UNION { Declarations(r) : r \in Four }] :
                 \A r \in Four : f[r] \in Declarations(r) }

PinsAndBuses ==
  { [r \in Four |-> IF r \in pins THEN "digital_gpio" ELSE "spi_bus"] : pins \in {{1, 2}, {1, 3}} }

BothOrders == {<<1, 2, 3, 4>>, <<4, 2, 1>>}
=============================================================================
