--------------------------- MODULE Order ----------------------------
(***************************************************************************)
(* An object in the making: members are inserted one after the other, as   *)
(* parse_object_impl does and a program that fills a MsgPack::object, into *)
(* a std::map ordered by operator<.  What the map then holds and finds     *)
(* depends on operator< and operator== being an order and its equality.    *)
(***************************************************************************)
EXTENDS StdMap, Wire

CONSTANTS
    Keys,           \* the keys that may be inserted
    Ordinary,       \* those of them that operator< is meant to order
    Equal(_, _),    \* operator== on values
    MaxKeys         \* how many of the keys are inserted, at most

ASSUME MaxKeysAssumption == MaxKeys \in Nat
ASSUME OrdinaryAssumption == Ordinary \subseteq Keys

VARIABLES
    object,     \* the std::map, and the key of the member to insert
    inserted    \* the keys of all members inserted so far

ovars == <<object, inserted>>

OInit ==
    /\ object = [items |-> <<>>, keys |-> <<>>, key |-> Nil]
    /\ inserted = {}

InsertMember ==
    \E key \in Keys, p \in 0..Len(object.keys) :
        /\ key \in inserted \/ Cardinality(inserted) < MaxKeys
        /\ Ends(object.keys, key, p)
        /\ object' = Insert([object EXCEPT !.key = key], p, Nil)
        /\ inserted' = inserted \union {key}

ONext == InsertMember

OSpec == OInit /\ [][ONext]_ovars
---------------------------------------------------------------------
\* What must hold.

\* Every member that was inserted is found by its key, or by another spelling of
\* the same key: the key that is found equals the one looked for.
EveryKeyFound ==
    inserted \subseteq Ordinary =>
        \A key \in inserted, p \in 1..(Len(object.keys) + 1) :
            Reaches(object.keys, key, p) =>
                Finds(object.keys, key, p) /\ Equal(object.keys[p], key)

\* The map does not depend on the order of insertion: it has one key of each
\* class of equal ones, each less than the next.
SameInAnyOrder ==
    inserted \subseteq Ordinary =>
        /\ \A i, j \in DOMAIN object.keys : i < j => Less(object.keys[i], object.keys[j])
        /\ Len(object.keys) =
              Cardinality({{k \in inserted : Equal(k, key)} : key \in inserted})

\* Whatever is inserted in whatever order, numbers that are NaN or that only doubles
\* tell apart among it, no two members of an object have equal keys.  This is of the
\* keys the run lists: containers that hold such numbers are not among them.
NoKeyTwice ==
    \A i, j \in DOMAIN object.keys :
        i # j => ~Equal(object.keys[i], object.keys[j])
=====================================================================
