--------------------------- MODULE MCBulkInserter ---------------------------
(* Two requests of two spans by addTraces, one of them lost because its      *)
(* first span does not decode, and one by createSpans: a round of two does   *)
(* not reach the last of the three that are enqueued.  The evaluations are   *)
(* of s1 and of s3.                                                          *)
EXTENDS BulkInserter

CONSTANTS bad, s1, s2, s3, s4, e1, e3

Subjects == e1 :> s1 @@ e3 :> s3
Requests == {<<s1, s3>>, <<bad, s2>>}
CreateRequests == {<<s4>>}
=============================================================================
