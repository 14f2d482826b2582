---------------------------- MODULE MCEchoServer ----------------------------
(* Module EchoServer for TLC.  A request of three bytes and a buffer of    *)
(* two: with the 7 and the 1024 of the code one read could take all.       *)
EXTENDS EchoServer

MCRequest == <<1, 2, 3>>
=============================================================================
