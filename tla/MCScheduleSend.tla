-------------------------- MODULE MCScheduleSend ---------------------------
(* ScheduleSend on small instances: calls with an absolute fire time, and  *)
(* with a delay.                                                           *)
EXTENDS ScheduleSend

MCDeliveries == [kind : {"text"}, fireAt : 0..4]
AbsoluteRequests == [form : {"at"}, value : {2, 3}]
DelayRequests == [form : {"delay"}, value : {1, 2}]
=============================================================================
