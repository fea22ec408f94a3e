---------------------------- MODULE MCHttpServer ----------------------------
(* Three clients on two threads.  Two of them may stall, one for each thread;
   or none, where the question is another. *)
EXTENDS HttpServer
CONSTANTS c1, c2, c3
MCClient == {c1, c2, c3}
MCStalling == {c1, c2}
MCNone == {}
=============================================================================
