---------------------------- MODULE MCEventLoop ----------------------------
(* Instances of EventLoop for TLC. *)
EXTENDS EventLoopProps, TLC

CONSTANTS p, e1, e2, end, null

ReadWrite == {{"READ", "TIMEOUT"}, {"WRITE", "TIMEOUT"}}
Two == {p, e1, e2}
=============================================================================
