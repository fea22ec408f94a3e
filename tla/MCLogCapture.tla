---------------------------- MODULE MCLogCapture ----------------------------
(* The lines TLC builds logs from: one of each kind the scanner can tell
   apart, and the combinations where its rules compete. *)
EXTENDS LogCapture

Plain == [blank |-> FALSE, hits |-> {}, starts |-> {}, ends |-> {},
          endThrows |-> {}, throws |-> FALSE, flag |-> "clean"]
Hitting(matchers) == [Plain EXCEPT !.hits = matchers]

Blank        == [Plain EXCEPT !.blank = TRUE]
SkippedError == Hitting({"LOGLEVEL", "SKIP_LOGLEVEL"})
Warning      == [Hitting({"WARNING_LOGLEVEL", "EXCLUDE"})
                   EXCEPT !.flag = "failed"]
Indented     == Hitting({"ERROR_FOLLOWING"})
ExcludedExpr == Hitting({"EXPRESSION", "EXPRESSION_EXCLUDE"})
Failure      == [Plain EXCEPT !.flag = "failed"]
BadFlag      == [Plain EXCEPT !.flag = "throws"]
BadPrefix    == [Plain EXCEPT !.throws = TRUE]
(* An error that also starts the first range; the starts of both ranges; the
   ends; and an end pattern that throws. *)
StartOne     == [Hitting({"LOGLEVEL"}) EXCEPT !.starts = {1}]
StartBoth    == [Plain EXCEPT !.starts = {1, 2}, !.ends = {2}]
StartTwo     == [Plain EXCEPT !.starts = {2}]
EndOne       == [Hitting({"KEYWORD"}) EXCEPT !.ends = {1}]
EndTwo       == [Plain EXCEPT !.ends = {2}]
EndThrows    == [Hitting({"STACK_LINE"}) EXCEPT !.endThrows = {1}]

MCLine == {Blank, SkippedError, Warning, Indented, ExcludedExpr, Failure,
           BadFlag, BadPrefix, StartOne, StartBoth, StartTwo, EndOne, EndTwo,
           EndThrows, Plain}
=============================================================================
