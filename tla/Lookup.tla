--------------------------- MODULE Lookup ---------------------------
(***************************************************************************)
(* A program that goes through a value it got: it follows operator[] from  *)
(* a root to the elements and members below it, gets numbers on the way    *)
(* and at the end tests the shape of what it has reached.                  *)
(***************************************************************************)
EXTENDS Accessors, Folds

CONSTANTS
    Roots,       \* the values a program may hold
    Indices,     \* the indices and
    Names,       \* the keys it asks for
    Shapes,      \* the shapes it tests
    MaxSteps     \* how many steps a program takes from the root

VARIABLES
    root,        \* the value
    path,        \* the indices and keys asked for so far
    cursor,      \* what the last operator[] gave a reference to
    shape,       \* the shape it tests, <<>> before
    answer,      \* what has_shape says of cursor, "none" before
    err          \* what has_shape leaves in err

lvars == <<root, path, cursor, shape, answer, err>>

ExpectedObject == "expected MessagePack object"
BadType(name) == <<"bad type for ", name>>

Moved(step, v) ==
    /\ answer = "none" /\ Len(path) < MaxSteps
    /\ path' = Append(path, step)
    /\ cursor' = v
    /\ UNCHANGED <<root, shape, answer, err>>

\* A step is a record that holds an index or a key.
ByIndex(i) == [index |-> i, key |-> Nil]
ByKey(key) == [index |-> -1, key |-> key]

AskIndex == \E i \in Indices : Moved(ByIndex(i), At(cursor, i))
AskKey == \E name \in Names : Moved(ByKey(name), Field(cursor, name))

\* has_shape looks for the items of the shape one by one and stops at the first
\* that is missing or of another type.
AskShape ==
    /\ answer = "none"
    /\ \E s \in Shapes : \E bad \in {BadItems(cursor, s)} :
          /\ shape' = s
          /\ answer' = IF is_object(cursor) /\ bad = {} THEN "yes" ELSE "no"
          /\ err' = IF ~is_object(cursor) THEN <<ExpectedObject>>
                    ELSE IF bad = {} THEN err ELSE BadType(s[Min(bad)].name)
          /\ UNCHANGED <<root, path, cursor>>

LInit ==
    /\ root \in Roots
    /\ path = <<>>
    /\ cursor = root
    /\ shape = <<>>
    /\ answer = "none"
    /\ err = <<>>

LNext == AskIndex \/ AskKey \/ AskShape

LSpec == LInit /\ [][LNext]_lvars
---------------------------------------------------------------------
\* What must hold.

\* What a step leads to by the contents of v alone, however it is looked up.
Contents(v, step) ==
    LET hit == {j \in DOMAIN v.items :
                   IF step.key = Nil THEN v.type = "ARRAY" /\ j = step.index + 1
                   ELSE v.type = "OBJECT" /\ v.keys[j] = step.key}
    IN  IF hit = {} THEN Nil ELSE v.items[CHOOSE j \in hit : TRUE]

\* A chain of operator[] leads to the element that its indices and keys name,
\* and to null from the first step on that names none: no step reaches out of
\* the value, and none that is there is missed.
ChainLeadsThere == cursor = FoldLeft(Contents, root, path)

\* A program that tested a shape may rely on it: each item whose type is not NUL
\* is a member of the object, and asking for it again gives that member.
ShapeHolds ==
    answer = "yes" =>
        \A i \in DOMAIN shape : shape[i].type # "NUL" =>
            \E j \in DOMAIN cursor.keys :
                /\ cursor.keys[j] = shape[i].name /\ cursor.items[j].type = shape[i].type
                /\ \A got \in {Field(cursor, shape[i].name)} : got = cursor.items[j]

\* Two numbers that are equal by operator==, of whatever types, are the same to
\* a getter: the one of either's type gives of the other what either holds.  This
\* is of the elements of one array, where all of them are integers that
\* doubles hold exactly.
EqualNumbersGetAlike ==
    root.type = "ARRAY" /\ path = <<>> =>
        \A a, b \in {root.items[i] : i \in DOMAIN root.items} :
            a.type \in NumberTypes /\ b.type \in IntTypes /\ MsgEqual(a, b) =>
                Gets(a, b.type) = {b.bytes}

\* "Return true if this is a JSON object and, for each item in types, has a
\* field of the given type" (msgpack11.hpp:232): has_shape accepts no
\* object that lacks one of the fields.
HasEveryField ==
    answer = "yes" =>
        \A i \in DOMAIN shape : \E j \in DOMAIN cursor.keys : cursor.keys[j] = shape[i].name

\* "NB: all ints are numbers" (msgpack11.hpp:33) and "has a field of the given
\* type" (msgpack11.hpp:232): a field that is a number, or an int, has the
\* type NUMBER, or INT, of the enumeration.
NumbersAreNumbers ==
    answer = "no" /\ is_object(cursor) =>
        \E i \in DOMAIN shape : \E got \in {Field(cursor, shape[i].name)} :
            CASE shape[i].type = "NUMBER" -> ~is_number(got)
              [] shape[i].type = "INT" -> ~is_int(got)
              [] OTHER -> got.type # shape[i].type
=====================================================================
