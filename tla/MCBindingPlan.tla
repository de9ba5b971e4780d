---------------------------- MODULE MCBindingPlan ----------------------------
(* Constants of the TLC instances of BindingPlan. *)
EXTENDS BindingPlan

CONSTANTS s1, s2, s3, e1, e2, e3, bad, long, left, right

B(e, s, n, shared, order) ==
  [event |-> e, source |-> s, entry |-> n, shared |-> shared, order |-> order]
C(e, s, n, owner, reserved, pwm, period) ==
  [request |-> e, source |-> s, entry |-> n, owner |-> owner, reserved |-> reserved, pwm |-> pwm,
   period_event |-> period]

Names == {s1, s2, s3, e1, e2, e3, long, "mock", "avr", "esp32", "arm", "one", "two"}
BoardTexts == Names \cup {"no-name"}
LongTexts == {long}
Hardware == [avr |-> [target |-> "one", source |-> s1, entry |-> e1]]
Three == 1..3
Four == 1..4
TheFourth == {4}
Owners == [e \in Four |-> IF e = 2 THEN right ELSE left]

None == [raw |-> FALSE, event |-> FALSE, route |-> "elide"]
RawOnly == [None EXCEPT !.raw = TRUE]
EventBy(route) == [None EXCEPT !.event = TRUE, !.route = route]
Both == [None EXCEPT !.raw = TRUE, !.event = TRUE]

\* Every assignment of no, a raw and an eliding handler; one event that has handlers of
\* both kinds, an unsupported route, a direct or a streaming one.
AllHandlers ==
  LET base == [Four -> {None, RawOnly, EventBy("elide")}]
      plain == [e \in Four |-> None]
  IN {h \in base : h[4] = None}
     \cup {[plain EXCEPT ![e] = c, ![d] = EventBy("elide")] :
             e \in {1, 3}, d \in {2},
             c \in {Both, EventBy("invalid"), EventBy("direct"), EventBy("stream")}}

\* Three good pairs of source and entry for every event; a source and an entry taken by
\* the first of three bindings; a shared source, a bad name and a long order.
AllBindings ==
  { B(e, s1, e1, FALSE, 0) : e \in Three } \cup { B(e, s2, e2, FALSE, 0) : e \in Three }
  \cup { B(3, s3, e3, FALSE, 5), B(2, s3, e3, FALSE, 0), B(3, s1, e3, FALSE, 0),
         B(3, s3, e1, FALSE, 0), B(1, s1, e1, TRUE, 0), B(2, bad, e2, FALSE, 0) }

\* The board offers every source with every entry, but s2 is reserved for the third
\* event and has no PWM for the first, and s1 has no periodic event for the second;
\* what is no identifier it offers too.
Inventory ==
  { C(e, s, n, Owners[e], e = 3 /\ s = s2, ~(e = 1 /\ s = s2), ~(e = 2 /\ s = s1)) :
      e \in Three, s \in {s1, s2, s3, bad}, n \in {e1, e2, e3} }

\* One list of requests for every set of events and some that repeat one; a candidate
\* that belongs to another instance.
Problems ==
  [requests : {<<>>, <<1>>, <<2>>, <<3>>, <<1, 2>>, <<1, 3>>, <<3, 2>>, <<2, 3, 1>>,
               <<2, 2>>, <<1, 3, 3>>}, candidates : {Inventory}]
  \cup [requests : {<<1>>, <<3, 2>>}, candidates : {Inventory \cup {C(1, s1, e1, right, FALSE, TRUE, TRUE)}}]

FirstNeedsPwm == {1}

Mock == [f \in HeaderField |-> IF f = "backend" THEN "mock" ELSE "one"]

\* The build is configured for the mock, or for hardware and one of two targets.
Arguments ==
  { [f \in TargetField |-> IF f = "backend" THEN b ELSE IF f = "target" THEN t ELSE "one"] :
      <<b, t>> \in {<<"mock", "one">>, <<"avr", "one">>, <<"avr", "two">>} }

Q(capacity, lock, context) ==
  [available |-> TRUE, capacity |-> capacity, lock |-> lock, context |-> context, header |-> Mock]

\* Two boards whose lock and context read the same when they are joined; another
\* capacity; two digits of length; none of it, or something out of range.
Contexts ==
  { Q(2, <<"a">>, <<"b", "_", "c", "_", "d">>), Q(2, <<"a", "_", "c", "_", "b">>, <<"d">>),
    Q(1, <<"a">>, <<"b", "_", "c", "_", "d">>),
    Q(2, <<"a">>, [i \in 1..10 |-> "d"]), Q(2, <<"a">>, [i \in 1..11 |-> "d"]),
    Q(0, <<"a">>, <<"d">>), Q(2, <<"-">>, <<"d">>), Q(2049, <<"a">>, <<"d">>),
    [Q(2, <<"a">>, <<"d">>) EXCEPT !.available = FALSE] }

\* Another application, which may have an edited board; another target; a name that is no
\* identifier or does not fit; a backend the generator does not know; hardware, for the
\* target that has an installer and for another.
Headers ==
  { Mock, [Mock EXCEPT !.application = "two"], [Mock EXCEPT !.target = "two"],
    [Mock EXCEPT !.board = "no-name"], [Mock EXCEPT !.compiler = long],
    [Mock EXCEPT !.backend = "arm"], [Mock EXCEPT !.backend = "avr"],
    [Mock EXCEPT !.backend = "avr", !.target = "two"] }

Boards == Contexts \cup { [Q(2, <<"a">>, <<"d">>) EXCEPT !.header = h] : h \in Headers }

Letters == {"a", "b", "c", "d", "l", "_"} \cup ToSet(Digit)
=============================================================================
