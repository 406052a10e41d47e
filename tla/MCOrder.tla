-------------------------- MODULE MCOrder ---------------------------
(***************************************************************************)
(* Order under TLC, with the keys of MCKeys.                               *)
(***************************************************************************)
EXTENDS Order, MCKeys

\* operator< on the keys, as a relation that TLC lists once.
LessPairs == {pair : pair \in {p \in MCKeys \X MCKeys : MsgLess(p[1], p[2])}}
LessOnKeys(a, b) == <<a, b>> \in LessPairs

\* operator==, likewise.
EqualPairs == {pair : pair \in {p \in MCKeys \X MCKeys : MsgEqual(p[1], p[2])}}
EqualOnKeys(a, b) == <<a, b>> \in EqualPairs
=====================================================================
