----------------------------- MODULE MCLogText -----------------------------
(* Bodies of one line put together from every kind of beginning, stamp,
   separator and message, and of several lines with every kind of break. *)
EXTENDS LogText

MCToken ==
  {"ansi", "binary", "stamp", ".ms", ".us", ".ns", "+zz:zz", "(", "\n", "\r",
   "\t", "\"", " ", "[", "]", ":", "+", "ERROR", "WARN", "INFO", "E", "exit",
   "error", "timeout", "deadlock", "Traceback", "Agent", "Running", "build"}

Opening == {<<>>, <<"ansi">>, <<"binary", "[">>, <<"[">>}
Stamped == {<<>>, <<"stamp">>, <<"stamp", ".us", "+zz:zz">>,
            <<"stamp", ".ns", "+zz:zz">>, <<"stamp", ".ms", "]">>}
Apart   == {<<>>, <<" ">>, <<" ", " ">>, <<" ", "[">>, <<"[">>}
Message == {<<"ERROR", " ", "deadlock">>, <<"ERROR", "]">>,
            <<"ERROR", "ansi", "]">>, <<"[", "error", "]", " ">>,
            <<"INFO", ":", "exit">>, <<"E", ":">>, <<"WARN", " ", "+">>,
            <<"deadlock", "\r">>, <<"timeout">>, <<"Traceback">>, <<"+">>}
OneLine == {a \o b \o c \o d : a \in Opening, b \in Stamped, c \in Apart,
                               d \in Message}
Piece == {<<>>, <<"Agent">>, <<" ", "Running">>, <<"deadlock">>, <<"INFO", " ">>,
          <<"build", ":", " ", "ERROR">>, <<"\t", "\t", "\t">>}
Several == {a \o <<"\n">> \o b \o <<"\n">> \o c : a, b, c \in Piece}

MCText == OneLine \cup Several
MCContents ==
  [expression |-> {{}, {<<"build">>, <<"(">>}, {<<"INFO">>, <<>>}},
   expression_exclude |-> {{}, {<<"\t">>}},
   keywords |-> {{}, {<<"\t", "deadlock", "\r">>, <<"\"", "build">>, <<>>},
                 {<<"\r">>}},
   exclude |-> {{}, {<<"deadlock">>}}]

(* Every line a body can give under some tables, as LogCapture sees it. *)
MCLine == TextLine
=============================================================================
