-------------------------- MODULE MCAccessLogStreams --------------------------
(* Three streams and two threads.  The entries: a complete one, its duplicate,  *)
(* one without a start time, fractional, negative, huge and unreadable counts,  *)
(* a negative and an unreadable project id, a blank model with and without a    *)
(* route, and a text that is too long.                                          *)
EXTENDS AccessLogStreams

CONSTANTS q1, q2, q3, q4, u1, alpha, m1, long

Complete == [request_id |-> q1, user |-> u1, project |-> alpha, project_id |-> 1,
             model |-> m1, route |-> Blank,
             tokens |-> [kind |-> "number", value |-> 4], start_time |-> 0]

With(id, token) == [Complete EXCEPT !.request_id = id, !.tokens = token]
Number(v) == [kind |-> "number", value |-> v]
String(v) == [kind |-> "string", value |-> v]

Undated == [With(q2, String(1)) EXCEPT !.start_time = NULL]
Routed == [With(q3, Number(2)) EXCEPT !.model = Blank, !.route = m1]

MCMessages ==
    {<< >>,
     <<Complete, Undated>>,
     <<With(q3, Number(5)), Undated>>,
     <<With(q4, Number(8)), Complete>>,
     <<With(q4, String(-1)), Routed>>,
     <<[Complete EXCEPT !.project_id = -1], [Routed EXCEPT !.route = Blank]>>,
     <<[Complete EXCEPT !.user = long], Undated>>,
     <<[Complete EXCEPT !.project_id = NaN], [Complete EXCEPT !.user = Blank],
       With(q3, String(NaN)), With(q3, Number(NaN)),
       With(q3, [kind |-> "absent", value |-> 0]), Complete>>}
==============================================================================
