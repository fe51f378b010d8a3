------------------------------ MODULE MCPaging ------------------------------
(* Up to four rows when the client begins, and one that may come later. *)
EXTENDS Paging
=============================================================================
