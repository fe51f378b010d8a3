------------------------- MODULE MCAnnotationQueue -------------------------
(* Two annotations under one key and one under another, of one or two spans. *)
EXTENDS AnnotationQueue, TLC

CONSTANTS a1, a2, a3, k1, k2, s1, s2

MCKeyOf == a1 :> k1 @@ a2 :> k1 @@ a3 :> k2
MCSpanOf == k1 :> s1 @@ k2 :> s2
=============================================================================
