-------------------------- MODULE MCRequestSession --------------------------
(* The requests TLC chooses from: bodies below, at and above the size that
   is read synchronously and the size that is refused. *)
EXTENDS RequestSession

Get     == [post |-> FALSE, body |-> 0, coding |-> "length",
            expect |-> FALSE, keep_alive |-> TRUE, manual |-> FALSE, valid |-> TRUE]
Post(n) == [Get EXCEPT !.post = TRUE, !.body = n]

GetBody == [Get EXCEPT !.body = 1]
Garbage == [Get EXCEPT !.valid = FALSE]
Upload  == [Post(1) EXCEPT !.expect = TRUE]
Closing == [Post(2) EXCEPT !.keep_alive = FALSE]
Chunked == [Post(1) EXCEPT !.coding = "chunked"]
Large   == Post(2)
TooBig  == Post(3)

Manual  == [Post(1) EXCEPT !.manual = TRUE]
LastOne == [Manual EXCEPT !.keep_alive = FALSE]

MCKind       == {Get, GetBody, Garbage, Upload, [Large EXCEPT !.expect = TRUE],
                 Closing, Chunked, Post(0), Large, TooBig, Manual, LastOne}
PostKind     == {Post(1)}
=============================================================================
