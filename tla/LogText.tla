------------------------------ MODULE LogText ------------------------------
(***************************************************************************)
(* The text under the log scanner (src/log_capture.cpp): how main fills    *)
(* the tables from the pattern files, how a body is cut into lines, how a  *)
(* line is cleaned and freed of its time stamp, and which matchers then    *)
(* hit it.  AsLine is where LogCapture begins: it turns a line of text     *)
(* into what that module tells about a line, and the steps of a call here  *)
(* are the steps there.                                                    *)
(*                                                                         *)
(* A text is a sequence of tokens, each a character or a group of them the *)
(* code never takes apart.  A keyword is a sequence of tokens; a regular   *)
(* expression stands for the texts that contain, or begin with, its own.   *)
(***************************************************************************)
EXTENDS LogCapture
LOCAL INSTANCE SequencesExt

CONSTANTS
  Token,      \* what a text is made of
  Text,       \* the bodies a call may get
  Contents    \* for each pattern file, the sets of lines it may hold

Break == "\n"
Blank == " "
Dropped == {"ansi", "binary"}   \* an escape code; bytes isprint rejects
Stamp == "stamp"                \* date and time, to the second
Fraction == {".ms", ".us", ".ns"}
Zone == "+zz:zz"
Bad == "("                      \* not a regular expression

(* The characters of a token, where the limit on a time prefix counts them. *)
Width(t) ==
  CASE t = Stamp -> 19 [] t = ".ms" -> 4 [] t = ".us" -> 7 [] t = ".ns" -> 10
    [] t = Zone -> 6
    [] t \in {Blank, "\t", "\r", "\"", "[", "]", ":", "+", "(", "E"} -> 1
    [] OTHER -> 5

Files == <<"expression", "expression_exclude", "keywords", "exclude">>
File == {Files[i] : i \in 1 .. Len(Files)}

ASSUME TextAssumption ==
  /\ {"exit", "+", Blank, "ERROR", "error", "timeout"} \subseteq Token
  /\ Text \subseteq Seq(Token)
  /\ \A f \in File : \A content \in Contents[f] : content \subseteq Seq(Token)

(* What a text can tell about a line of it: main loads one range, and no
   pattern of the tables throws. *)
TextLine ==
  [blank : BOOLEAN, hits : SUBSET Matcher, starts : SUBSET {1},
   ends : SUBSET {1}, endThrows : {{}}, throws : {FALSE},
   flag : {"failed", "clean"}]
ASSUME TextLineAssumption == TextLine \subseteq Line

VARIABLES
  disk,    \* what the pattern files hold
  next,    \* the file main loads next
  table,   \* expression_patterns_, expression_exclude_, keywords_, exclude_
  stage,   \* main: "loading", "ready" or "aborted"
  lines,   \* the body of the call
  pos,     \* how much of it was read
  taken    \* history: the lines cut from it, as they were

startup == <<disk, next, table, stage>>
text == <<lines, pos, taken>>

Occurs(word, s) ==
  \E i \in 0 .. Len(s) - Len(word) :
    SubSeq(s, i + 1, i + Len(word)) = word
From(s, n) == SubSeq(s, n + 1, Len(s))
(* What is left of s without the members of drop. *)
Without(s, drop) ==
  LET left[n \in 0 .. Len(s)] ==
        IF n = 0 THEN <<>>
        ELSE IF s[n] \in drop THEN left[n - 1] ELSE Append(left[n - 1], s[n])
  IN  left[Len(s)]
-----------------------------------------------------------------------------
(* The pattern files. *)

(* What capture::capture() puts in the tables: of its many words, those that
   the tokens used here can spell. *)
Builtin ==
  [expression |-> {<<"exit">>}, expression_exclude |-> {<<"+">>},
   keywords |-> {<<Blank, word>> : word \in {"ERROR", "error", "timeout"}},
   exclude |-> {}]

(* Blanks are cut from both ends of a word, a quote only from its left.
   Mutant: the right end is forgotten, and with it the CR of a CRLF file. *)
LeftBlank == {"\r", "\t", "\""}
RightBlank == {"\r", "\t"}
Inked(s, blank) == {i \in 1 .. Len(s) : s[i] \notin blank}
CutLeft(s) ==
  IF Inked(s, LeftBlank) = {} THEN <<>>
  ELSE From(s, (CHOOSE i \in Inked(s, LeftBlank) :
                  \A j \in Inked(s, LeftBlank) : i =< j) - 1)
CutRightNot(s) == s
CutRight(s) ==
  IF Inked(s, RightBlank) = {} THEN <<>>
  ELSE SubSeq(s, 1, CHOOSE i \in Inked(s, RightBlank) :
                      \A j \in Inked(s, RightBlank) : j =< i)

IsRegex(f) == f \in {"expression", "expression_exclude"}
EntryOf(f, line) == IF IsRegex(f) THEN line ELSE CutRight(CutLeft(line))

(* Mutant: empty lines are not skipped. *)
WorthwhileAll(line) == TRUE
Worthwhile(line) == line # <<>>
Entries(f) == {EntryOf(f, line) : line \in {l \in disk[f] : Worthwhile(l)}}
BadFile(f) == IsRegex(f) /\ \E entry \in Entries(f) : Occurs(<<Bad>>, entry)

(* Mutant: main does not wait for the last file. *)
AllLoadedEarly == next + 1 >= Len(Files)
AllLoaded == next = Len(Files)

(* One load_*_from_file; a file that cannot be opened loads nothing. *)
Load ==
  /\ stage = "loading"
  /\ ~BadFile(Files[next])
  /\ table' = [table EXCEPT ![Files[next]] = @ \cup Entries(Files[next])]
  /\ stage' = IF AllLoaded THEN "ready" ELSE "loading"
  /\ next' = next + 1
  /\ UNCHANGED <<disk, vars, text>>

(* The constructor of boost::regex throws, and nothing in main catches it.
   The expressions in front of the bad one are in the table by then. *)
LoadThrows ==
  /\ stage = "loading"
  /\ BadFile(Files[next])
  /\ \E before \in SUBSET {e \in Entries(Files[next]) : ~Occurs(<<Bad>>, e)} :
       table' = [table EXCEPT ![Files[next]] = @ \cup before]
  /\ stage' = "aborted"
  /\ UNCHANGED <<disk, next, vars, text>>
-----------------------------------------------------------------------------
(* From a line of text to what the scanner can tell about it. *)

(* remove_ansi, then remove_inplace. *)
Clean(oline) == Without(oline, Dropped)

(* remove_time_prefix: an optional part of the pattern that begins behind the
   first n tokens is taken if it is there and lies whole in the first
   PrefixLimit characters, the only ones the pattern is shown.  The stamp and
   its fraction always do; the zone and what follows it may not. *)
PrefixLimit == 32
Reach(s, n) == FoldLeft(LAMBDA sum, t : sum + Width(t), 0, SubSeq(s, 1, n))
Optional(s, n, part) ==
  IF n < Len(s) /\ s[n + 1] \in part /\ Reach(s, n + 1) =< PrefixLimit
  THEN n + 1 ELSE n

(* Mutant: a bracket after the stamp goes with it. *)
BehindGreedy == {Blank, "["}
Behind == {Blank}
TimePrefix(s) ==
  LET at == Optional(s, 0, {"["})
      decimals == Optional(s, at + 1, Fraction)
      zoned == Optional(s, decimals, {Zone})
      closed == Optional(s, zoned, {"]"})
  IN  IF Optional(s, at, {Stamp}) = at THEN 0 ELSE Optional(s, closed, Behind)
View(line) == From(line, TimePrefix(line))

(* A level: a word with a blank or bracket before and a blank, bracket or
   colon behind it, or a letter that begins the line.  A word in small letters
   is a level only in brackets of its own, inside those delimiters. *)
Level(view, bare, boxed, letter) ==
  \/ \E before \in {Blank, "["}, behind \in {Blank, "]", ":"} :
       \/ Occurs(<<before, bare, behind>>, view)
       \/ Occurs(<<before, "[", boxed, "]", behind>>, view)
  \/ Len(view) > 1 /\ view[1] = letter /\ view[2] \in {Blank, ":"}

Indented(view) ==
  /\ Reach(view, Len(view)) >= 3
  /\ IsPrefix(<<"\t">>, view) \/ IsPrefix(<<Blank, Blank, Blank>>, view)

Hits(view, m) ==
  CASE m = "LOGLEVEL" -> Level(view, "ERROR", "error", "E")
    [] m = "WARNING_LOGLEVEL" -> Level(view, "WARN", "warn", "W")
    [] m = "SKIP_LOGLEVEL" -> Level(view, "INFO", "info", "I")
    [] m = "KEYWORD" -> \E w \in table["keywords"] : Occurs(w, view)
    [] m = "EXCLUDE" -> \E w \in table["exclude"] : Occurs(w, view)
    [] m = "EXPRESSION" -> \E e \in table["expression"] : Occurs(e, view)
    [] m = "EXPRESSION_EXCLUDE" ->
         \E e \in table["expression_exclude"] : IsPrefix(e, view)
    [] m = "STACK_LINE" -> Occurs(<<"Traceback">>, view)
    [] m = "ERROR_FOLLOWING" -> Indented(view)

(* The built-in range reads blanks, and then "Agent" or "Running". *)
Blanks(view) == {n \in 0 .. Len(view) : \A i \in 1 .. n : view[i] = Blank}
Begins(view, word) == \E n \in Blanks(view) : IsPrefix(<<word>>, From(view, n))
OneIf(condition) == IF condition THEN {1} ELSE {}

AsLine(oline) ==
  LET line == Clean(oline)
      view == View(line)
  IN  [blank |-> oline = <<>>,
       hits |-> {m \in Matcher : Hits(view, m)},
       starts |-> OneIf(Begins(view, "Agent")),
       ends |-> OneIf(Begins(view, "Running")),
       endThrows |-> {}, throws |-> FALSE,
       flag |-> IF Occurs(<<"build", ":", Blank, "ERROR">>, line)
                THEN "failed" ELSE "clean"]
-----------------------------------------------------------------------------
(* A call. *)

TextInit ==
  /\ Init
  /\ disk \in {d \in [File -> UNION {Contents[f] : f \in File}] :
                 \A f \in File : d[f] \in Contents[f]}
  /\ next = 1
  /\ table = Builtin
  /\ stage = "loading"
  /\ lines = <<>> /\ pos = 0 /\ taken = <<>>

Call(body) ==
  /\ stage = "ready"
  /\ pc = "idle"
  /\ Begin
  /\ lines' = body /\ pos' = 0 /\ taken' = <<>>
  /\ UNCHANGED startup

(* getline: up to the next break, or to the end of a body whose last line has
   none.  Mutants: the line loses its last character; the position runs past
   the end. *)
LineEnd ==
  LET breaks == {i \in pos + 1 .. Len(lines) : lines[i] = Break}
  IN  IF breaks = {} THEN Len(lines) + 1
      ELSE CHOOSE i \in breaks : \A j \in breaks : i =< j
CutLineShort == SubSeq(lines, pos + 1, LineEnd - 2)
CutLine == SubSeq(lines, pos + 1, LineEnd - 1)
NextPosPast == LineEnd
NextPos == IF LineEnd > Len(lines) THEN Len(lines) ELSE LineEnd

ReadLine ==
  /\ pos < Len(lines)
  /\ SkipBlank(AsLine(CutLine)) \/ Scan(AsLine(CutLine))
  /\ pos' = NextPos
  /\ taken' = Append(taken, CutLine)
  /\ UNCHANGED <<startup, lines>>

EndOfText ==
  /\ pos >= Len(lines)
  /\ Finish
  /\ UNCHANGED <<startup, text>>

TextNext ==
  \/ Load \/ LoadThrows
  \/ \E body \in Text : Call(body)
  \/ ReadLine \/ EndOfText

TextSpec == TextInit /\ [][TextNext]_<<vars, startup, text>>
-----------------------------------------------------------------------------
(* Every variable has the type the code declares for it. *)
TextTypeOK ==
  /\ TypeOK
  /\ next \in 1 .. Len(Files) + 1
  /\ \A f \in File : table[f] \subseteq Seq(Token)
  /\ stage \in {"loading", "ready", "aborted"}
  /\ lines \in Text \cup {<<>>}
  /\ pos \in 0 .. Len(lines)
  /\ taken \in Seq(Seq(Token))

(* No line is scanned before every table is complete: the patterns of all four
   files are in force for the first line, and a file with a bad one lets no
   line be scanned at all. *)
StartupOrder ==
  pc # "idle" =>
    \A f \in File :
      /\ \A raw \in disk[f] : raw # <<>> => EntryOf(f, raw) \in table[f]
      /\ IsRegex(f) => \A raw \in disk[f] : ~Occurs(<<Bad>>, raw)

(* Cutting a body into lines loses, invents and moves nothing: what was read
   is the lines taken, each followed by its break but for a last line that
   has none. *)
Joined(ls) ==
  LET upto[n \in 0 .. Len(ls)] ==
        IF n = 0 THEN <<>> ELSE Append(upto[n - 1] \o ls[n], Break)
  IN  upto[Len(ls)]
LinesRebuildText ==
  Joined(taken) \in {SubSeq(lines, 1, pos), Append(SubSeq(lines, 1, pos), Break)}

(* The numbered line i, its text as the client sent it, and whether a range
   swallows it. *)
Raw(i) == Without(taken, {<<>>})[i]
Swallowed(i) == Covered(seen, i) \/ Closes(seen, i)
Scanned == pc \in {"reading", "returned"}

(* A level in capitals in brackets, and any level set off by two blanks, is
   reported in whatever colours, behind whatever stamp and binary rubbish the
   line has.  One blank is not enough: the stamp takes it, and with it the
   delimiter that the pattern of the level wants in front of "ERROR" and of
   "[error]" alike. *)
LevelReported ==
  Scanned => \A i \in 1 .. Len(seen) :
    \/ Occurs(<<"[", "ERROR", "]">>, Clean(Raw(i)))
    \/ Occurs(<<Blank, Blank, "ERROR", Blank>>, Clean(Raw(i)))
    \/ Occurs(<<Blank, Blank, "[", "error", "]", Blank>>, Clean(Raw(i)))
    => Reported(i) \/ Swallowed(i)

(* What is left of a line of a file between tokens of the set around. *)
Bared(raw, around) ==
  {SubSeq(raw, p[1], p[2]) :
     p \in {q \in (1 .. Len(raw)) \X (1 .. Len(raw)) :
             /\ q[1] =< q[2]
             /\ \A j \in 1 .. Len(raw) : j \in q[1] .. q[2] \/ raw[j] \in around}}

(* The words of a file: "remove leading and trailing spaces", as the comment
   in both loaders has it.  The words on which the code and this comment part
   are left out: those in blanks, which the code keeps, and those that begin
   with a quote, which it takes away, though only there. *)
Space == {Blank, "\t", "\r"}
Quote == "\""
Words(f) ==
  {w \in UNION {Bared(raw, Space \ {Blank}) : raw \in disk[f]} :
     w[1] \notin Space \cup {Quote} /\ w[Len(w)] \notin Space}

(* The words of the files decide: a line with a keyword behind its stamp is
   reported, and one with an excluded word is not in the reserve. *)
WordsDecide ==
  Scanned => \A i \in 1 .. Len(seen) :
    LET view == View(Clean(Raw(i)))
    IN  /\ (\E w \in Words("keywords") : Occurs(w, view))
             => Reported(i) \/ Swallowed(i)
        /\ (\E w \in Words("exclude") : Occurs(w, view))
             => seen[i].type # "NONE"

(* Nothing is reported without a reason in its own text, unless the file of
   keywords has a line of white space and quotes only: trimmed to the empty
   word, it is found in every line. *)
BlankLine(f) ==
  \E raw \in disk[f] :
    raw # <<>> /\ \A i \in 1 .. Len(raw) : raw[i] \in Space \cup {Quote}
Keys == UNION {Bared(raw, Space \cup {Quote}) : raw \in disk["keywords"]}
Reasons ==
  Keys \cup Builtin["keywords"] \cup Builtin["expression"]
    \cup disk["expression"]
    \cup {<<"ERROR">>, <<"error">>, <<"E">>, <<"WARN">>, <<"warn">>, <<"W">>,
          <<"Traceback">>}
ReportedForReason ==
  Scanned /\ ~BlankLine("keywords") =>
    \A i \in 1 .. Len(seen) :
      seen[i].type \in Positive =>
        \E reason \in Reasons \ {<<>>} : Occurs(reason, Clean(Raw(i)))

(* The inductive invariant behind these: the tables hold the built-in words
   and those of the files loaded so far, and no line was seen before the last
   of them, ... *)
Tables ==
  /\ next \in 1 .. Len(Files) + 1
  /\ stage \in {"loading", "ready", "aborted"}
  /\ stage = "loading" => next =< Len(Files)
  /\ stage = "ready" => next = Len(Files) + 1
  /\ stage # "ready" => pc = "idle" /\ seen = <<>>
  /\ table \in [File -> SUBSET Seq(Token)]
  /\ \A f \in File :
       /\ disk[f] \subseteq Seq(Token)
       /\ Builtin[f] \subseteq table[f]
       /\ table[f] \subseteq Builtin[f] \cup Entries(f)
  /\ \A i \in 1 .. next - 1 :
       Entries(Files[i]) \subseteq table[Files[i]] /\ ~BadFile(Files[i])
(* ... what was cut from the body is what was read of it, ... *)
Cut ==
  /\ lines \in Text \cup {<<>>}
  /\ pos \in 0 .. Len(lines)
  /\ taken \in Seq(Seq(Token))
  /\ \/ Joined(taken) = SubSeq(lines, 1, pos)
     \/ pos = Len(lines) /\ Joined(taken) = Append(SubSeq(lines, 1, pos), Break)
(* ... and the lines seen are those cut that are not empty, each with a type
   its matchers account for. *)
Viewed ==
  /\ Len(seen) = Len(Without(taken, {<<>>}))
  /\ \A i \in 1 .. Len(seen) : seen[i].line = AsLine(Raw(i))
Accounted ==
  \A i \in 1 .. Len(seen) :
    /\ seen[i].type \in Positive =>
         seen[i].line.hits \cap (Positive \ {"ERROR_FOLLOWING"}) # {}
    /\ seen[i].type = "NONE" => seen[i].line.hits \cap Negative = {}
TextInv == IInv /\ Tables /\ Cut /\ Viewed /\ Accounted

(* README, "Error logs (ERROR, FATAL, PANIC, CRITICAL)": a line in which the
   word ERROR stands between blanks is reported. *)
ErrorWordReported ==
  Scanned => \A i \in 1 .. Len(seen) :
    Occurs(<<Blank, "ERROR", Blank>>, Raw(i)) => Reported(i) \/ Swallowed(i)
=============================================================================
