--------------------------- MODULE StdMap ---------------------------
(***************************************************************************)
(* The std::map that holds the members of an object: its keys in order,    *)
(* its mapped values (items) beside them, and the way it looks for a key.  *)
(***************************************************************************)
EXTENDS Integers, SequencesExt

CONSTANT Less(_, _)     \* operator< on values, which orders the keys

\* What a std::map asks of its comparison: a key is not less than one that is less
\* than it, and of two that are in order one is in order with any third.
StrictWeakOrder(S) ==
    \A a, b, c \in S : Less(a, b) => ~Less(b, a) /\ (Less(a, c) \/ Less(c, b))

\* operator== is the equivalence of that order.
OrdersAs(S, Equal(_, _)) ==
    /\ StrictWeakOrder(S)
    /\ \A a, b \in S : Equal(a, b) <=> ~Less(a, b) /\ ~Less(b, a)

\* The search for key goes down the tree, right of the keys that key is not less
\* than and left of the others, and ends after the p-th key.  When Less is a
\* strict weak order on the keys there is one such p.
Ends(keys, key, p) ==
    /\ p > 0 => ~Less(key, keys[p])
    /\ p < Len(keys) => Less(key, keys[p + 1])

\* Mutant of Insert: an equivalent key takes the new value, as res[key] does.
InsertOrAssign(b, p, value) ==
    IF p = 0 \/ Less(b.keys[p], b.key)
    THEN [b EXCEPT !.keys = InsertAt(@, p + 1, b.key), !.items = InsertAt(@, p + 1, value)]
    ELSE [b EXCEPT !.items[p] = value]

\* Mutant of Insert: equivalent keys are all kept, as in a multimap.
InsertAll(b, p, value) ==
    [b EXCEPT !.keys = InsertAt(@, p + 1, b.key), !.items = InsertAt(@, p + 1, value)]

\* std::map::insert of b.key and value where the search ended: nothing happens
\* when the p-th key is not less than b.key, for then the two are equivalent.
Insert(b, p, value) ==
    IF p = 0 \/ Less(b.keys[p], b.key)
    THEN [b EXCEPT !.keys = InsertAt(@, p + 1, b.key), !.items = InsertAt(@, p + 1, value)]
    ELSE b

\* std::map::find: this search goes left of the keys that are not less than key
\* and ends at the p-th key, or behind them all.
Reaches(keys, key, p) ==
    /\ p > 1 => Less(keys[p - 1], key)
    /\ p <= Len(keys) => ~Less(keys[p], key)

Finds(keys, key, p) == p <= Len(keys) /\ ~Less(key, keys[p])
=====================================================================
