------------------------------ MODULE MCCaches -------------------------------
(* Two projects and two traces, one of which has the row id of a project.    *)
EXTENDS Caches
=============================================================================
