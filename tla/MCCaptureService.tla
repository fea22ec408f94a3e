-------------------------- MODULE MCCaptureService --------------------------
(* The calls TLC makes of the service: bodies of up to three lines from a
   smaller choice of kinds, under the queries that differ in what they ask. *)
EXTENDS CaptureService

Plain == [blank |-> FALSE, hits |-> {}, starts |-> {}, ends |-> {},
          endThrows |-> {}, throws |-> FALSE, flag |-> "clean"]
Blank     == [Plain EXCEPT !.blank = TRUE]
Error     == [Plain EXCEPT !.hits = {"LOGLEVEL", "EXCLUDE"}]
Warning   == [Plain EXCEPT !.hits = {"WARNING_LOGLEVEL", "ERROR_FOLLOWING"}]
Failure   == [Plain EXCEPT !.flag = "failed"]
BadFlag   == [Plain EXCEPT !.flag = "throws"]
BadPrefix == [Plain EXCEPT !.throws = TRUE]
StartTwo  == [Plain EXCEPT !.starts = {2}, !.hits = {"KEYWORD"}]
EndTwo    == [Plain EXCEPT !.ends = {2}, !.hits = {"SKIP_LOGLEVEL"}]

MCLine == {Plain, Blank, Error, Warning, Failure, BadFlag, BadPrefix,
           StartTwo, EndTwo}

Pair(k, v) == [key |-> k, value |-> v]
MCQuery == {<<>>,
            <<Pair("failedlog", "1")>>,
            <<Pair("warncap", "true"), Pair("format", "json")>>,
            <<Pair("warncap", "0"), Pair("warncap", "1")>>,
            <<Pair("warn_cap", "true"), Pair("failed_log", "true")>>}
MCBody == UNION {[1 .. n -> MCLine] : n \in 0 .. MaxLines}

Ask(entry, post, query, body) ==
  [entry |-> entry, post |-> post, query |-> query, body |-> body]
MCRequest ==
  {Ask("/log/capture", TRUE, q, b) : q \in MCQuery, b \in MCBody}
    \cup {Ask("cmd", FALSE, <<>>, b) : b \in MCBody}
    \cup {Ask("/log/capture", FALSE, <<>>, <<Plain>>),
          Ask("/hello", FALSE, <<>>, <<>>), Ask("unknown", TRUE, <<>>, <<>>)}
=============================================================================
