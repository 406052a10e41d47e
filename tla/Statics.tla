-------------------------- MODULE Statics ---------------------------
(***************************************************************************)
(* The objects that msgpack11.cpp makes on first use: statics() with the   *)
(* shared null and the empty defaults, static_null() with the MsgPack that *)
(* operator[] refers to, and the table "parsers" in parse_msgpack; beside  *)
(* them the static MsgPacks of a program.  Several threads may be the      *)
(* first to use one, and its construction may use another.  Of the         *)
(* constructors of MsgPack only those of null and of bool use statics().   *)
(*                                                                         *)
(* C++11 guards each of them: one thread constructs it and the others      *)
(* wait, and at exit they are destroyed in the reverse of the order in     *)
(* which their constructions ended.                                        *)
(***************************************************************************)
EXTENDS Integers, Sequences

CONSTANTS
    Threads,     \* the threads of the program
    Globals,     \* its static MsgPacks
    NullOrBool,  \* those of them that are, or in which there is, a null or a bool
    NoOne        \* no thread

ASSUME NoOneAssumption == NoOne \notin Threads
ASSUME NullOrBoolAssumption == NullOrBool \subseteq Globals

Library == {"statics", "static_null", "parsers"}
Static == Library \union Globals

VARIABLES
    owner,       \* the thread that constructs an object, or NoOne
    alive,       \* the objects that are constructed, in the order they were
    calls,       \* calls[t]: what t is entering or constructing, the innermost last
    exiting      \* the program runs its destructors

svars == <<owner, alive, calls, exiting>>

\* Those whose MsgPack, or one inside, shares the null or a bool of statics().
Sharing == {"static_null"} \union NullOrBool

\* Mutant of Needs: the null MsgPack is a member of Statics, whose constructor
\* then asks for statics().
NeedsInside(s) == IF s \in {"statics"} \union Sharing THEN {"statics"} ELSE {}

\* Mutant of Needs: each null and bool gets a value of its own from make_shared.
NeedsNothing(s) == {}

\* What the construction of s uses: MsgPack() and MsgPack(bool) take a pointer of
\* statics().  A string, number or container makes its value itself, and an object
\* of the program that has no null or bool in it uses none of the three.
Needs(s) == IF s \in Sharing THEN {"statics"} ELSE {}

Frame == [static : Static, at : {"enter", "construct"}]
Entering(s) == [static |-> s, at |-> "enter"]
Constructing(s) == [static |-> s, at |-> "construct"]

Alive(s) == \E i \in DOMAIN alive : alive[i] = s

Top(t) == calls[t][Len(calls[t])]
Below(t) == SubSeq(calls[t], 1, Len(calls[t]) - 1)
At(t, at) == calls[t] # <<>> /\ Top(t).at = at

\* A thread uses an object: it calls the function that returns it.
Use(t) ==
    /\ ~exiting /\ calls[t] = <<>>
    /\ \E s \in Static : calls' = [calls EXCEPT ![t] = <<Entering(s)>>]
    /\ UNCHANGED <<owner, alive, exiting>>

\* The object is there.
Find(t) ==
    /\ At(t, "enter") /\ Alive(Top(t).static)
    /\ calls' = [calls EXCEPT ![t] = Below(t)]
    /\ UNCHANGED <<owner, alive, exiting>>

\* t makes s, and begins with what the construction uses (one object at most).
Constructs(t, s) ==
    \/ Needs(s) = {} /\ calls' = [calls EXCEPT ![t] = Append(Below(t), Constructing(s))]
    \/ \E n \in Needs(s) :
          calls' = [calls EXCEPT ![t] = Append(Append(Below(t), Constructing(s)), Entering(n))]

\* Mutant of Claim: the guard is not looked at.
ClaimUnguarded(t) ==
    /\ At(t, "enter") /\ ~Alive(Top(t).static)
    /\ owner' = [owner EXCEPT ![Top(t).static] = t]
    /\ Constructs(t, Top(t).static)
    /\ UNCHANGED <<alive, exiting>>

\* The object is not there and no thread is making it: t does.  A thread that
\* finds another one at it waits.
Claim(t) ==
    /\ At(t, "enter") /\ ~Alive(Top(t).static) /\ owner[Top(t).static] = NoOne
    /\ owner' = [owner EXCEPT ![Top(t).static] = t]
    /\ Constructs(t, Top(t).static)
    /\ UNCHANGED <<alive, exiting>>

\* The construction is over, and with it the call that found nothing there.
Construct(t) ==
    /\ At(t, "construct")
    /\ alive' = Append(alive, Top(t).static)
    /\ owner' = [owner EXCEPT ![Top(t).static] = NoOne]
    /\ calls' = [calls EXCEPT ![t] = Below(t)]
    /\ UNCHANGED exiting

\* main returns when no other thread is at work.
Exit ==
    /\ ~exiting /\ exiting' = TRUE
    /\ \A t \in Threads : calls[t] = <<>>
    /\ UNCHANGED <<owner, alive, calls>>

\* The last one made goes ("parsers" has no destructor: its turn does nothing).
Destroy ==
    /\ exiting /\ alive # <<>>
    /\ alive' = SubSeq(alive, 1, Len(alive) - 1)
    /\ UNCHANGED <<owner, calls, exiting>>

Init ==
    /\ owner = [s \in Static |-> NoOne]
    /\ alive = <<>>
    /\ calls = [t \in Threads |-> <<>>]
    /\ exiting = FALSE

Running(t) == Find(t) \/ Claim(t) \/ Construct(t)

Next == Exit \/ Destroy \/ \E t \in Threads : Use(t) \/ Running(t)

\* A thread that can go on does; nothing makes it use an object, or end.
Spec == Init /\ [][Next]_svars /\ \A t \in Threads : WF_svars(Running(t))
---------------------------------------------------------------------
\* What must hold.

TypeOK ==
    /\ owner \in [Static -> Threads \union {NoOne}]
    /\ alive \in Seq(Static)
    /\ calls \in [Threads -> Seq(Frame)]
    /\ exiting \in BOOLEAN

\* However many threads are the first to use an object, it is constructed once,
\* and no thread is given it while another one is still constructing it.
ConstructedOnce ==
    /\ \A i, j \in DOMAIN alive : alive[i] = alive[j] => i = j
    /\ \A t, u \in Threads : \A i \in DOMAIN calls[t], j \in DOMAIN calls[u] :
          /\ calls[t][i].at = "construct" /\ calls[u][j].at = "construct"
          /\ calls[t][i].static = calls[u][j].static
          => t = u /\ i = j
    /\ \A t \in Threads : \A i \in DOMAIN calls[t] :
          calls[t][i].at = "construct" => ~Alive(calls[t][i].static)

\* "Static globals - static-init-safe" (msgpack11.cpp:671): whatever is used first,
\* whichever thread comes first and while the program ends, as long as msgpack_null
\* or a static null or bool of the program is there, so are the defaults in
\* statics() that its getters refer to (msgpack11.cpp:764-768).  A static string,
\* number or container without a null or bool in it has no such promise: it may be
\* constructed before statics() and destroyed after it.
DefaultsOutliveNulls == \A s \in Sharing : Alive(s) => Alive("statics")

\* Every use of an object comes back: no thread waits for itself, and no two for
\* each other.
EveryUseReturns == \A t \in Threads : calls[t] # <<>> ~> calls[t] = <<>>
=====================================================================
