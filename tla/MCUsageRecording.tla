--------------------------- MODULE MCUsageRecording ---------------------------
(* A small workload for UsageRecording: three records share a daily row and are *)
(* delivered in opposite orders, and one request is delivered under two        *)
(* identities (an entry without a start_time is booked on the day it arrives,  *)
(* so a late duplicate may carry another day).                                 *)
EXTENDS UsageRecording, TLC

CONSTANTS q1, q2, q3, q4, k1, k2

First == [request_id |-> q1, identity |-> k1]
FirstNextDay == [request_id |-> q1, identity |-> k2]
Second == [request_id |-> q2, identity |-> k1]
Third == [request_id |-> q3, identity |-> k1]
Negative == [request_id |-> q4, identity |-> k1]

MCRecords == {First, FirstNextDay, Second, Third, Negative}
MCUnstorable == {Negative}
MCMessages == {<<First, Second>>, <<Third, Second, First>>, <<FirstNextDay>>,
               <<None, Second>>, <<Negative>>}
==============================================================================
