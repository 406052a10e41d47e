---------------------------- MODULE Iterate -------------------------
(***************************************************************************)
(* Iteration: what is left of a recursive definition once the recursion is *)
(* on a number.  Start and Step are given by the module that instantiates  *)
(* this one, and Unfolds is what it may say of the result.                 *)
(***************************************************************************)
EXTENDS Naturals, WellFoundedInduction, TLAPS

CONSTANTS
    Start(_),      \* what the iteration of an x begins with
    Step(_, _)     \* what follows on what it has come to

Iterate(x) ==
    LET f[n \in Nat] == IF n = 0 THEN Start(x) ELSE Step(x, f[n - 1])
    IN  f
---------------------------------------------------------------------
\* Induction, for sets: the least number that is not in S has none before it.
LEMMA Induction ==
    ASSUME NEW S, 0 \in S, \A n \in Nat : n \in S => n + 1 \in S
    PROVE  Nat \subseteq S
<1> DEFINE T == Nat \ S
           R == OpToRel(<, Nat)
<1>1. SUFFICES ASSUME T # {} PROVE FALSE
      OBVIOUS
<1>2. PICK x \in T : \A y \in T : <<y, x>> \notin R
      <2>1. IsWellFoundedOn(R, Nat)
            BY NatLessThanWellFounded
      <2> HIDE DEF R
      <2>2. QED BY <1>1, <2>1, WFMin
<1>3. x # 0 /\ x \in Nat /\ x - 1 \in Nat /\ x - 1 < x
      OBVIOUS
<1>4. <<x - 1, x>> \in R
      BY <1>3 DEF OpToRel
<1>5. x - 1 \in S
      BY <1>2, <1>3, <1>4
<1>6. QED BY <1>3, <1>5

\* f is the iteration of x as far as n.
UpTo(f, x, n) == f = [i \in 0..n |-> IF i = 0 THEN Start(x) ELSE Step(x, f[i - 1])]

\* There is one as far as any number,
LEMMA SomeUpTo == \A x : \A n \in Nat : \E f : UpTo(f, x, n)
<1> SUFFICES ASSUME NEW x PROVE \A n \in Nat : \E f : UpTo(f, x, n)
    OBVIOUS
<1> DEFINE S == {n \in Nat : \E f : UpTo(f, x, n)}
<1>1. 0 \in S
      <2>1. UpTo([i \in 0..0 |-> Start(x)], x, 0)
            BY DEF UpTo
      <2>2. QED BY <2>1
<1>2. ASSUME NEW n \in Nat, n \in S PROVE n + 1 \in S
      <2>1. PICK f : UpTo(f, x, n)
            BY <1>2
      <2> DEFINE g == [i \in 0..(n + 1) |-> IF i <= n THEN f[i] ELSE Step(x, f[n])]
      <2>2. \A i \in 0..(n + 1) : g[i] = IF i = 0 THEN Start(x) ELSE Step(x, g[i - 1])
            BY <2>1 DEF UpTo
      <2> HIDE DEF g
      <2>3. g = [i \in 0..(n + 1) |-> IF i = 0 THEN Start(x) ELSE Step(x, g[i - 1])]
            BY <2>2 DEF g
      <2>4. UpTo(g, x, n + 1)
            BY <2>3 DEF UpTo
      <2>5. QED BY <2>4
<1> HIDE DEF S
<1>3. Nat \subseteq S
      BY <1>1, <1>2, Induction
<1>4. QED BY <1>3 DEF S

\* and those that go further agree with it.
LEMMA OneUpTo ==
    \A x : \A n, m \in Nat : \A f, g :
        n <= m /\ UpTo(f, x, n) /\ UpTo(g, x, m) => f[n] = g[n]
<1> SUFFICES ASSUME NEW x, NEW m \in Nat, NEW g, UpTo(g, x, m)
             PROVE  \A n \in Nat : \A f : n <= m /\ UpTo(f, x, n) => f[n] = g[n]
    OBVIOUS
<1> DEFINE S == {n \in Nat : \A f : n <= m /\ UpTo(f, x, n) => f[n] = g[n]}
<1>1. 0 \in S
      BY DEF UpTo
<1>2. ASSUME NEW n \in Nat, n \in S PROVE n + 1 \in S
      <2> SUFFICES ASSUME NEW f, n + 1 <= m, UpTo(f, x, n + 1)
                   PROVE  f[n + 1] = g[n + 1]
          OBVIOUS
      <2> DEFINE h == [i \in 0..n |-> f[i]]
      <2>1. UpTo(h, x, n)
            BY DEF UpTo
      <2>2. h[n] = g[n]
            BY <1>2, <2>1
      <2>3. f[n + 1] = Step(x, f[n]) /\ g[n + 1] = Step(x, g[n])
            BY DEF UpTo
      <2>4. QED BY <2>2, <2>3
<1> HIDE DEF S
<1>3. Nat \subseteq S
      BY <1>1, <1>2, Induction
<1>4. QED BY <1>3 DEF S

\* Iterate(x) is what it is meant to be: its definition by CHOOSE picks the one
\* function that does what it says.
THEOREM Unfolds ==
    \A x : /\ Iterate(x)[0] = Start(x)
           /\ \A n \in Nat : Iterate(x)[n + 1] = Step(x, Iterate(x)[n])
<1> SUFFICES ASSUME NEW x
             PROVE  /\ Iterate(x)[0] = Start(x)
                    /\ \A n \in Nat : Iterate(x)[n + 1] = Step(x, Iterate(x)[n])
    OBVIOUS
<1> DEFINE up(n) == CHOOSE f : UpTo(f, x, n)
           F == [n \in Nat |-> up(n)[n]]
<1>1. \A n \in Nat : UpTo(up(n), x, n)
      BY SomeUpTo
<1> HIDE DEF up
<1>2. F[0] = Start(x)
      BY <1>1 DEF UpTo
<1>3. ASSUME NEW n \in Nat PROVE F[n + 1] = Step(x, F[n])
      <2>1. up(n + 1)[n + 1] = Step(x, up(n + 1)[n])
            BY <1>1 DEF UpTo
      <2>2. up(n + 1)[n] = up(n)[n]
            BY <1>1, OneUpTo
      <2>3. QED BY <2>1, <2>2
<1> HIDE DEF F
<1>4. F = [n \in Nat |-> IF n = 0 THEN Start(x) ELSE Step(x, F[n - 1])]
      <2>1. \A n \in Nat : F[n] = IF n = 0 THEN Start(x) ELSE Step(x, F[n - 1])
            BY <1>2, <1>3
      <2>2. QED BY <2>1 DEF F
<1>5. Iterate(x) = [n \in Nat |-> IF n = 0 THEN Start(x) ELSE Step(x, Iterate(x)[n - 1])]
      BY <1>4 DEF Iterate
<1>6. QED BY <1>5
=====================================================================
