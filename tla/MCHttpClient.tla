---------------------------- MODULE MCHttpClient ----------------------------
(* Two callers that ask, and are redirected between, two hosts. *)
EXTENDS HttpClient
CONSTANTS caller1, caller2, x1, x2
MCCaller == {caller1, caller2}
MCConn == {x1, x2}
=============================================================================
