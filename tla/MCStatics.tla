-------------------------- MODULE MCStatics -------------------------
(***************************************************************************)
(* The threads and the static objects of a program that TLC gives Statics. *)
(***************************************************************************)
EXTENDS Statics

CONSTANTS t1, t2, t3

MCThreads == {t1, t2, t3}
MCGlobals == {"flag", "name"}
MCNullOrBool == {"flag"}
=====================================================================
