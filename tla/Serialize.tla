-------------------------- MODULE Serialize -------------------------
(***************************************************************************)
(* operator<< and what a value holds as recursive definitions: they are    *)
(* where TLC takes the functions from that Dumper and RoundTrip are given. *)
(***************************************************************************)
EXTENDS Encode, FiniteSetsExt

RECURSIVE Dump(_)
Dump(v) ==
    IF IsContainer(v)
    THEN Header(v) \o FlattenSeq([i \in DOMAIN Children(v) |-> Dump(Children(v)[i])])
    ELSE DumpLeaf(v)

\* The values v holds, directly or not, and v.
RECURSIVE Within(_)
Within(v) == {v} \union UNION {Within(x) : x \in Range(Children(v))}

AllWithin(values) == UNION {Within(v) : v \in values}
=====================================================================
