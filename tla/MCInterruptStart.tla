--------------------------- MODULE MCInterruptStart ---------------------------
(* Constants of the TLC instances of InterruptStart. *)
EXTENDS InterruptStart, TLC

CONSTANTS t1, t2, a, b, timer, uart, pin

TwoTasks == {t1, t2}
Elide == {a}
Stream == {b}
Sources == {timer, uart, pin}

\* The timer posts the Elide event, the UART the Stream event; the pin's handler
\* is direct.
Routes == [src \in Sources |-> IF src = timer THEN a
                               ELSE IF src = uart THEN b ELSE NoEvent]
=============================================================================
