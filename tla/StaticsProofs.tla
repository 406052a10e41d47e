------------------------ MODULE StaticsProofs -----------------------
(***************************************************************************)
(* The static objects are constructed once, and live no longer than what   *)
(* they are made from, for every set of threads and of static objects of a *)
(* program.                                                                *)
(*                                                                         *)
(* The invariant says what a call in the middle of a construction relies   *)
(* on: its thread owns the object, which is not alive and which no other   *)
(* call of the thread constructs, and what the object is made from is      *)
(* alive or is what the next inner call is after.                          *)
(***************************************************************************)
EXTENDS Statics, TLAPS, SequenceTheorems

IsConstructing(t, i) == calls[t][i].at = "construct"

Owned == \A t \in Threads : \A i \in DOMAIN calls[t] :
            IsConstructing(t, i) =>
                owner[calls[t][i].static] = t /\ ~Alive(calls[t][i].static)

OncePerThread == \A t \in Threads : \A i, j \in DOMAIN calls[t] :
                    IsConstructing(t, i) /\ IsConstructing(t, j)
                    /\ calls[t][i].static = calls[t][j].static => i = j

Supplied == \A t \in Threads : \A i \in DOMAIN calls[t] :
               IsConstructing(t, i) => \A n \in Needs(calls[t][i].static) :
                   Alive(n) \/ (i < Len(calls[t]) /\ calls[t][i + 1].static = n)

AliveOnce == \A i, j \in DOMAIN alive : alive[i] = alive[j] => i = j

MadeFromTheLiving == \A i \in DOMAIN alive : \A s \in Needs(alive[i]) :
                        \E j \in 1..(i - 1) : alive[j] = s

Quiet == exiting => \A t \in Threads : calls[t] = <<>>

Guarded == TypeOK /\ Owned /\ OncePerThread /\ Supplied /\ AliveOnce
           /\ MadeFromTheLiving /\ Quiet
---------------------------------------------------------------------
\* A sequence that gains or loses its last element keeps the others.

LEMMA Pushed ==
    ASSUME NEW S, NEW s \in Seq(S), NEW x \in S
    PROVE  /\ Append(s, x) \in Seq(S)
           /\ Len(Append(s, x)) = Len(s) + 1
           /\ DOMAIN Append(s, x) = 1..(Len(s) + 1)
           /\ DOMAIN s = 1..Len(s) /\ Len(s) \in Nat
           /\ \A i \in 1..Len(s) : Append(s, x)[i] = s[i]
           /\ Append(s, x)[Len(s) + 1] = x
OBVIOUS

LEMMA Popped ==
    ASSUME NEW S, NEW s \in Seq(S), s # <<>>
    PROVE  /\ SubSeq(s, 1, Len(s) - 1) \in Seq(S)
           /\ Len(SubSeq(s, 1, Len(s) - 1)) = Len(s) - 1
           /\ DOMAIN SubSeq(s, 1, Len(s) - 1) = 1..(Len(s) - 1)
           /\ DOMAIN s = 1..Len(s) /\ Len(s) \in Nat \ {0}
           /\ \A i \in 1..(Len(s) - 1) : SubSeq(s, 1, Len(s) - 1)[i] = s[i]
<1> DEFINE n == Len(s) - 1
<1>1. Len(s) \in Nat \ {0} /\ DOMAIN s = 1..Len(s)
      BY EmptySeq, LenProperties
<1>2. 1 \in 1..(Len(s) + 1) /\ n \in (1 - 1)..Len(s) /\ n - 1 + 1 = n
      BY <1>1
<1>3. /\ SubSeq(s, 1, n) \in Seq(S)
      /\ Len(SubSeq(s, 1, n)) = IF 1 <= n THEN n - 1 + 1 ELSE 0
      /\ \A i \in 1..(n - 1 + 1) : SubSeq(s, 1, n)[i] = s[1 + i - 1]
      BY <1>1, <1>2, SubSeqProperties
<1>4. Len(SubSeq(s, 1, n)) = n
      BY <1>1, <1>3
<1>5. DOMAIN SubSeq(s, 1, n) = 1..n
      BY <1>3, <1>4, LenProperties
<1>6. \A i \in 1..n : SubSeq(s, 1, n)[i] = s[i]
      BY <1>1, <1>3
<1>7. QED BY <1>1, <1>3, <1>4, <1>5, <1>6

LEMMA NeedsStatics ==
    ASSUME NEW s, NEW n \in Needs(s)
    PROVE  n = "statics" /\ n \in Static
BY DEF Needs, Static, Library

LEMMA TopIsAFrame ==
    ASSUME TypeOK, NEW t \in Threads, calls[t] # <<>>
    PROVE  /\ calls[t] \in Seq(Frame)
           /\ Len(calls[t]) \in Nat \ {0}
           /\ Top(t) = calls[t][Len(calls[t])]
           /\ Top(t) \in Frame /\ Top(t).static \in Static
<1>1. calls[t] \in Seq(Frame)
      BY DEF TypeOK
<1>2. Len(calls[t]) \in Nat \ {0}
      BY <1>1, EmptySeq
<1>3. calls[t][Len(calls[t])] \in Frame
      BY <1>1, <1>2, ElementOfSeq
<1>4. QED BY <1>1, <1>2, <1>3 DEF Top, Frame

---------------------------------------------------------------------
\* One lemma per kind of change to a thread's calls.

\* The innermost call of a thread goes, and the objects that are alive stay so.
LEMMA ReturnKeeps ==
    ASSUME Guarded, NEW t \in Threads, calls[t] # <<>>,
           calls' = [calls EXCEPT ![t] = Below(t)],
           NEW s \in Static, s = Top(t).static,
           \A n \in Static : Alive(n)' <=> Alive(n) \/ n = s,
           owner' \in [Static -> Threads \union {NoOne}],
           \A n \in Static : n # s => owner'[n] = owner[n],
           \A u \in Threads : \A i \in DOMAIN calls'[u] :
               calls'[u][i].at = "construct" => calls'[u][i].static # s
    PROVE  /\ calls' \in [Threads -> Seq(Frame)]
           /\ Owned' /\ OncePerThread' /\ Supplied'
<1>1. /\ calls[t] \in Seq(Frame)
      /\ calls \in [Threads -> Seq(Frame)]
      BY DEF Guarded, TypeOK
<1> DEFINE n == Len(calls[t])
<1>2. /\ Below(t) \in Seq(Frame) /\ Len(Below(t)) = n - 1
      /\ DOMAIN Below(t) = 1..(n - 1) /\ DOMAIN calls[t] = 1..n /\ n \in Nat \ {0}
      /\ \A i \in 1..(n - 1) : Below(t)[i] = calls[t][i]
      BY <1>1, Popped DEF Below
<1>3. calls' \in [Threads -> Seq(Frame)] /\ calls'[t] = Below(t)
      /\ \A u \in Threads : u # t => calls'[u] = calls[u]
      BY <1>1, <1>2
<1>4. \A u \in Threads : \A i \in DOMAIN calls'[u] :
         i \in DOMAIN calls[u] /\ calls'[u][i] = calls[u][i] /\ calls[u][i].static \in Static
      <2>1. ASSUME NEW u \in Threads, NEW i \in DOMAIN calls'[u]
            PROVE  i \in DOMAIN calls[u] /\ calls'[u][i] = calls[u][i]
            BY <1>2, <1>3, <2>1
      <2>2. ASSUME NEW u \in Threads, NEW i \in DOMAIN calls[u]
            PROVE  calls[u][i].static \in Static
            <3>1. calls[u] \in Seq(Frame) /\ i \in 1..Len(calls[u])
                  BY <1>1, <2>2, LenProperties
            <3>2. calls[u][i] \in Frame
                  BY <3>1, ElementOfSeq
            <3>3. QED BY <3>2 DEF Frame
      <2>3. QED BY <2>1, <2>2
<1>5. Owned'
      BY <1>4 DEF Guarded, Owned, IsConstructing
<1>6. OncePerThread'
      BY <1>4 DEF Guarded, OncePerThread, IsConstructing
<1>7. ASSUME NEW u \in Threads, NEW i \in DOMAIN calls'[u], calls'[u][i].at = "construct",
             NEW m \in Needs(calls'[u][i].static)
      PROVE  Alive(m)' \/ (i < Len(calls'[u]) /\ calls'[u][i + 1].static = m)
      <2>1. m \in Static
            BY NeedsStatics, <1>7
      <2>2. Alive(m) \/ (i < Len(calls[u]) /\ calls[u][i + 1].static = m)
            BY <1>4, <1>7 DEF Guarded, Supplied, IsConstructing
      <2>3. CASE Alive(m)
            BY <2>1, <2>3
      <2>4. CASE i < Len(calls[u]) /\ calls[u][i + 1].static = m /\ u # t
            BY <1>3, <2>4
      <2>5. CASE i < Len(calls[u]) /\ calls[u][i + 1].static = m /\ u = t
            <3>1. i \in 1..(n - 1)
                  BY <1>2, <1>3, <1>7, <2>5
            <3>2. CASE i + 1 = n
                  BY <2>1, <2>5, <3>2 DEF Top
            <3>3. CASE i + 1 # n
                  BY <1>2, <1>3, <2>5, <3>1, <3>3
            <3>4. QED BY <3>2, <3>3
      <2>6. QED BY <2>2, <2>3, <2>4, <2>5
<1>8. Supplied'
      BY <1>7 DEF Supplied, IsConstructing
<1>9. QED BY <1>3, <1>5, <1>6, <1>8

\* A thread finds the object it is after.
LEMMA FindKeeps ==
    ASSUME Guarded, NEW t \in Threads, Find(t)
    PROVE  Guarded'
<1>1. /\ calls[t] # <<>> /\ Top(t).at = "enter" /\ Alive(Top(t).static)
      /\ calls' = [calls EXCEPT ![t] = Below(t)]
      /\ owner' = owner /\ alive' = alive /\ exiting' = exiting
      BY DEF Find, At
<1>2. Top(t).static \in Static
      BY <1>1, TopIsAFrame DEF Guarded
<1>3. \A n \in Static : Alive(n)' <=> Alive(n) \/ n = Top(t).static
      BY <1>1 DEF Alive
<1>4. \A u \in Threads : \A i \in DOMAIN calls'[u] :
         i \in DOMAIN calls[u] /\ calls'[u][i] = calls[u][i]
      BY <1>1, Popped DEF Guarded, TypeOK, Below
<1>5. \A u \in Threads : \A i \in DOMAIN calls'[u] :
         calls'[u][i].at = "construct" => calls'[u][i].static # Top(t).static
      BY <1>1, <1>4 DEF Guarded, Owned, IsConstructing
<1>6. owner' \in [Static -> Threads \union {NoOne}]
      BY <1>1 DEF Guarded, TypeOK
<1>7. calls' \in [Threads -> Seq(Frame)] /\ Owned' /\ OncePerThread' /\ Supplied'
      BY <1>1, <1>2, <1>3, <1>5, <1>6, ReturnKeeps
<1>8. TypeOK' /\ AliveOnce' /\ MadeFromTheLiving'
      BY <1>1, <1>7 DEF Guarded, TypeOK, AliveOnce, MadeFromTheLiving
<1>9. Quiet'
      BY <1>1 DEF Guarded, Quiet
<1>10. QED BY <1>7, <1>8, <1>9 DEF Guarded

\* A thread has made the object it owns.
LEMMA ConstructKeeps ==
    ASSUME Guarded, NEW t \in Threads, Construct(t)
    PROVE  Guarded'
<1> DEFINE s == Top(t).static
           n == Len(calls[t])
<1>1. /\ calls[t] # <<>> /\ Top(t).at = "construct"
      /\ calls' = [calls EXCEPT ![t] = Below(t)]
      /\ owner' = [owner EXCEPT ![s] = NoOne]
      /\ alive' = Append(alive, s) /\ exiting' = exiting
      BY DEF Construct, At
<1>2. s \in Static /\ n \in Nat \ {0} /\ calls[t] \in Seq(Frame) /\ Top(t) = calls[t][n]
      /\ n \in DOMAIN calls[t]
      BY <1>1, TopIsAFrame DEF Guarded
<1>3. /\ alive' \in Seq(Static) /\ DOMAIN alive' = 1..(Len(alive) + 1)
      /\ DOMAIN alive = 1..Len(alive) /\ Len(alive) \in Nat
      /\ \A i \in 1..Len(alive) : alive'[i] = alive[i]
      /\ alive'[Len(alive) + 1] = s
      BY <1>1, <1>2, Pushed DEF Guarded, TypeOK
<1>4. \A m \in Static : Alive(m)' <=> Alive(m) \/ m = s
      BY <1>3 DEF Alive
<1>5. /\ \A u \in Threads : u # t => calls'[u] = calls[u]
      /\ calls'[t] = Below(t) /\ DOMAIN Below(t) = 1..(n - 1)
      /\ DOMAIN calls[t] = 1..n
      /\ \A i \in 1..(n - 1) : Below(t)[i] = calls[t][i]
      BY <1>1, <1>2, Popped DEF Guarded, TypeOK, Below
<1>6. \A u \in Threads : \A i \in DOMAIN calls'[u] :
         calls'[u][i].at = "construct" => calls'[u][i].static # s
      <2>1. ~Alive(s) /\ owner[s] = t
            BY <1>1, <1>2 DEF Guarded, Owned, IsConstructing
      <2>2. \A i \in 1..(n - 1) : calls[t][i].at = "construct" => calls[t][i].static # s
            BY <1>1, <1>2, <1>5 DEF Guarded, OncePerThread, IsConstructing
      <2>3. \A u \in Threads : u # t => \A i \in DOMAIN calls[u] :
               calls[u][i].at = "construct" => calls[u][i].static # s
            BY <2>1 DEF Guarded, Owned, IsConstructing
      <2>4. QED BY <1>5, <2>2, <2>3
<1>7. /\ owner' \in [Static -> Threads \union {NoOne}]
      /\ \A m \in Static : m # s => owner'[m] = owner[m]
      BY <1>1, <1>2 DEF Guarded, TypeOK
<1>8. calls' \in [Threads -> Seq(Frame)] /\ Owned' /\ OncePerThread' /\ Supplied'
      BY <1>1, <1>2, <1>4, <1>6, <1>7, ReturnKeeps
<1>9. TypeOK'
      BY <1>1, <1>3, <1>7, <1>8 DEF Guarded, TypeOK
<1>10. AliveOnce'
      <2>1. \A i \in 1..Len(alive) : alive[i] # s
            BY <1>1, <1>2, <1>3 DEF Guarded, Owned, IsConstructing, Alive
      <2>2. QED BY <1>3, <2>1 DEF Guarded, AliveOnce
<1>11. MadeFromTheLiving'
      <2>1. ASSUME NEW i \in DOMAIN alive', NEW m \in Needs(alive'[i])
            PROVE  \E j \in 1..(i - 1) : alive'[j] = m
            <3>1. CASE i \in 1..Len(alive)
                  BY <1>3, <2>1, <3>1 DEF Guarded, MadeFromTheLiving
            <3>2. CASE i = Len(alive) + 1
                  <4>1. Alive(m)
                        BY <1>1, <1>2, <1>3, <2>1, <3>2 DEF Guarded, Supplied, IsConstructing
                  <4>2. QED BY <1>3, <3>2, <4>1 DEF Alive
            <3>3. QED BY <1>3, <2>1, <3>1, <3>2
      <2>2. QED BY <2>1 DEF MadeFromTheLiving
<1>12. Quiet'
      BY <1>1 DEF Guarded, Quiet
<1>13. QED BY <1>8, <1>9, <1>10, <1>11, <1>12 DEF Guarded

\* A thread owns the object it found missing, and goes after what that needs.
LEMMA ClaimKeeps ==
    ASSUME Guarded, NEW t \in Threads, Claim(t)
    PROVE  Guarded'
<1> DEFINE s == Top(t).static
           n == Len(calls[t])
           B == Append(Below(t), Constructing(s))
<1>1. /\ calls[t] # <<>> /\ Top(t).at = "enter" /\ ~Alive(s) /\ owner[s] = NoOne
      /\ owner' = [owner EXCEPT ![s] = t]
      /\ alive' = alive /\ exiting' = exiting
      BY DEF Claim, At
<1>2. s \in Static /\ n \in Nat \ {0} /\ calls[t] \in Seq(Frame) /\ Top(t) = calls[t][n]
      BY <1>1, TopIsAFrame DEF Guarded
<1>3. /\ Below(t) \in Seq(Frame) /\ Len(Below(t)) = n - 1
      /\ DOMAIN calls[t] = 1..n
      /\ \A i \in 1..(n - 1) : Below(t)[i] = calls[t][i]
      BY <1>1, <1>2, Popped DEF Below
<1>4. Constructing(s) \in Frame /\ Constructing(s).at = "construct" /\ Constructing(s).static = s
      BY <1>2 DEF Constructing, Frame
<1>5. /\ B \in Seq(Frame) /\ Len(B) = n /\ DOMAIN B = 1..n
      /\ \A i \in 1..(n - 1) : B[i] = calls[t][i]
      /\ B[n] = Constructing(s)
      <2>1. /\ B \in Seq(Frame) /\ Len(B) = Len(Below(t)) + 1
            /\ DOMAIN B = 1..(Len(Below(t)) + 1)
            /\ \A i \in 1..Len(Below(t)) : B[i] = Below(t)[i]
            /\ B[Len(Below(t)) + 1] = Constructing(s)
            BY <1>3, <1>4, Pushed
      <2>2. QED BY <1>2, <1>3, <2>1
<1> DEFINE Grown(C) ==
              /\ calls' = [calls EXCEPT ![t] = C]
              /\ Len(C) \in Nat \ {0} /\ n <= Len(C) /\ DOMAIN C = 1..Len(C)
              /\ \A i \in 1..n : C[i] = B[i]
              /\ \A i \in DOMAIN C : i > n => C[i].at = "enter"
              /\ \A m \in Needs(s) : n < Len(C) /\ C[n + 1].static = m
<1>6. \E C \in Seq(Frame) : Grown(C)
      <2>1. CASE Needs(s) = {} /\ calls' = [calls EXCEPT ![t] = B]
            <3>1. Grown(B)
                  BY <1>2, <1>5, <2>1
            <3>2. QED BY <1>5, <3>1
      <2>2. ASSUME NEW m \in Needs(s), calls' = [calls EXCEPT ![t] = Append(B, Entering(m))]
            PROVE  \E C \in Seq(Frame) : Grown(C)
            <3>1. Entering(m) \in Frame /\ Entering(m).at = "enter" /\ Entering(m).static = m
                  BY NeedsStatics DEF Entering, Frame
            <3>2. /\ Append(B, Entering(m)) \in Seq(Frame)
                  /\ Len(Append(B, Entering(m))) = n + 1
                  /\ DOMAIN Append(B, Entering(m)) = 1..(n + 1)
                  /\ \A i \in 1..n : Append(B, Entering(m))[i] = B[i]
                  /\ Append(B, Entering(m))[n + 1] = Entering(m)
                  BY <1>5, <3>1, Pushed
            <3>3. \A k \in Needs(s) : k = m
                  BY NeedsStatics
            <3>4. Grown(Append(B, Entering(m)))
                  BY <1>2, <2>2, <3>1, <3>2, <3>3
            <3>5. QED BY <3>2, <3>4
      <2>3. QED BY <2>1, <2>2 DEF Claim, Constructs
<1>7. PICK C \in Seq(Frame) : Grown(C)
      BY <1>6
<1>8. /\ calls' \in [Threads -> Seq(Frame)] /\ calls'[t] = C
      /\ \A u \in Threads : u # t => calls'[u] = calls[u]
      /\ owner' \in [Static -> Threads \union {NoOne}] /\ owner'[s] = t
      /\ \A m \in Static : m # s => owner'[m] = owner[m]
      BY <1>1, <1>2, <1>7 DEF Guarded, TypeOK
<1>9. \A m : Alive(m)' <=> Alive(m)
      BY <1>1 DEF Alive
<1>10. \A u \in Threads : \A i \in DOMAIN calls[u] :
          calls[u][i].at = "construct" =>
              calls[u][i].static # s /\ calls[u][i].static \in Static
      <2>1. ASSUME NEW u \in Threads, NEW i \in DOMAIN calls[u], calls[u][i].at = "construct"
            PROVE  calls[u][i].static # s
            BY <1>1, <2>1, NoOneAssumption DEF Guarded, Owned, IsConstructing
      <2>2. ASSUME NEW u \in Threads, NEW i \in DOMAIN calls[u]
            PROVE  calls[u][i].static \in Static
            <3>1. calls[u] \in Seq(Frame) /\ i \in 1..Len(calls[u])
                  BY <2>2, LenProperties DEF Guarded, TypeOK
            <3>2. calls[u][i] \in Frame
                  BY <3>1, ElementOfSeq
            <3>3. QED BY <3>2 DEF Frame
      <2>3. QED BY <2>1, <2>2
<1>11. \A i \in DOMAIN C : C[i].at = "construct" =>
          \/ i = n /\ C[i].static = s
          \/ i \in 1..(n - 1) /\ i \in DOMAIN calls[t] /\ C[i] = calls[t][i]
      BY <1>2, <1>3, <1>4, <1>5, <1>7
<1>12. n \in DOMAIN C /\ C[n].static = s
      BY <1>2, <1>4, <1>5, <1>7
<1>13. Owned'
      <2>1. ASSUME NEW i \in DOMAIN C, C[i].at = "construct"
            PROVE  owner'[C[i].static] = t /\ ~Alive(C[i].static)
            <3>1. CASE i = n
                  BY <1>1, <1>8, <1>12, <3>1
            <3>2. CASE i # n
                  <4>1. i \in DOMAIN calls[t] /\ C[i] = calls[t][i]
                        BY <1>11, <2>1, <3>2
                  <4>2. owner[calls[t][i].static] = t /\ ~Alive(calls[t][i].static)
                        BY <2>1, <4>1 DEF Guarded, Owned, IsConstructing
                  <4>3. QED BY <1>8, <1>10, <2>1, <4>1, <4>2
            <3>3. QED BY <3>1, <3>2
      <2>2. ASSUME NEW u \in Threads, u # t, NEW i \in DOMAIN calls[u], calls[u][i].at = "construct"
            PROVE  owner'[calls[u][i].static] = u /\ ~Alive(calls[u][i].static)
            <3>1. owner[calls[u][i].static] = u /\ ~Alive(calls[u][i].static)
                  BY <2>2 DEF Guarded, Owned, IsConstructing
            <3>2. QED BY <1>8, <1>10, <2>2, <3>1
      <2>3. QED BY <1>8, <1>9, <2>1, <2>2 DEF Owned, IsConstructing
<1>14. OncePerThread'
      <2>1. ASSUME NEW i \in DOMAIN C, NEW j \in DOMAIN C, C[i].at = "construct",
                   C[j].at = "construct", C[i].static = C[j].static
            PROVE  i = j
            BY <1>10, <1>11, <2>1 DEF Guarded, OncePerThread, IsConstructing
      <2>2. QED BY <1>8, <2>1 DEF Guarded, OncePerThread, IsConstructing
<1>15. Supplied'
      <2>1. ASSUME NEW i \in DOMAIN C, C[i].at = "construct", NEW m \in Needs(C[i].static)
            PROVE  Alive(m) \/ (i < Len(C) /\ C[i + 1].static = m)
            <3>1. CASE i = n
                  BY <1>7, <1>12, <2>1, <3>1
            <3>2. CASE i # n
                  <4>1. i \in 1..(n - 1) /\ i \in DOMAIN calls[t] /\ C[i] = calls[t][i]
                        BY <1>11, <2>1, <3>2
                  <4>2. Alive(m) \/ calls[t][i + 1].static = m
                        BY <2>1, <4>1 DEF Guarded, Supplied, IsConstructing
                  <4>3. C[i + 1].static = calls[t][i + 1].static /\ i < Len(C)
                        <5>1. CASE i + 1 = n
                              BY <1>2, <1>7, <1>12, <4>1, <5>1
                        <5>2. CASE i + 1 # n
                              <6>1. i + 1 \in 1..(n - 1) /\ i + 1 \in 1..n
                                    BY <1>2, <4>1, <5>2
                              <6>2. C[i + 1] = B[i + 1]
                                    BY <1>7, <6>1
                              <6>3. B[i + 1] = calls[t][i + 1]
                                    BY <1>5, <6>1
                              <6>4. n <= Len(C) /\ Len(C) \in Nat
                                    BY <1>7
                              <6>5. i < Len(C)
                                    BY <1>2, <6>1, <6>4
                              <6>6. QED BY <6>2, <6>3, <6>5
                        <5>3. QED BY <5>1, <5>2
                  <4>4. QED BY <4>2, <4>3
            <3>3. QED BY <3>1, <3>2
      <2>2. ASSUME NEW u \in Threads, u # t, NEW i \in DOMAIN calls[u], calls[u][i].at = "construct",
                   NEW m \in Needs(calls[u][i].static)
            PROVE  Alive(m) \/ (i < Len(calls[u]) /\ calls[u][i + 1].static = m)
            BY <2>2 DEF Guarded, Supplied, IsConstructing
      <2>3. QED BY <1>8, <1>9, <2>1, <2>2 DEF Supplied, IsConstructing
<1>16. TypeOK' /\ AliveOnce' /\ MadeFromTheLiving' /\ Quiet'
      BY <1>1, <1>8 DEF Guarded, TypeOK, AliveOnce, MadeFromTheLiving, Quiet, Claim
<1>17. QED BY <1>13, <1>14, <1>15, <1>16 DEF Guarded

\* A thread goes after an object.
LEMMA UseKeeps ==
    ASSUME Guarded, NEW t \in Threads, Use(t)
    PROVE  Guarded'
<1>1. PICK s \in Static : calls' = [calls EXCEPT ![t] = <<Entering(s)>>]
      BY DEF Use
<1>2. ~exiting /\ owner' = owner /\ alive' = alive /\ exiting' = exiting
      BY DEF Use
<1>3. Entering(s) \in Frame /\ Entering(s).at = "enter"
      BY DEF Entering, Frame
<1>4. /\ calls' \in [Threads -> Seq(Frame)]
      /\ \A u \in Threads : u # t => calls'[u] = calls[u]
      /\ calls'[t] = <<Entering(s)>>
      BY <1>1, <1>3 DEF Guarded, TypeOK
<1>5. \A i \in DOMAIN calls'[t] : calls'[t][i].at # "construct"
      BY <1>3, <1>4
<1>6. \A m : Alive(m)' <=> Alive(m)
      BY <1>2 DEF Alive
<1>7. \A u \in Threads : \A i \in DOMAIN calls'[u] :
         calls'[u][i].at = "construct" => calls'[u] = calls[u]
      BY <1>4, <1>5
<1>8. Owned'
      BY <1>2, <1>6, <1>7 DEF Guarded, Owned, IsConstructing
<1>9. OncePerThread'
      BY <1>7 DEF Guarded, OncePerThread, IsConstructing
<1>10. Supplied'
      BY <1>6, <1>7 DEF Guarded, Supplied, IsConstructing
<1>11. Quiet'
      BY <1>2 DEF Quiet
<1>12. QED BY <1>2, <1>4, <1>8, <1>9, <1>10, <1>11
                DEF Guarded, TypeOK, AliveOnce, MadeFromTheLiving

\* An object is destroyed.
LEMMA DestroyKeeps ==
    ASSUME Guarded, Destroy
    PROVE  Guarded'
<1>1. /\ exiting /\ alive # <<>> /\ alive' = SubSeq(alive, 1, Len(alive) - 1)
      /\ owner' = owner /\ calls' = calls /\ exiting' = exiting
      BY DEF Destroy
<1>2. /\ alive' \in Seq(Static) /\ DOMAIN alive' = 1..(Len(alive) - 1)
      /\ DOMAIN alive = 1..Len(alive) /\ Len(alive) \in Nat \ {0}
      /\ \A i \in 1..(Len(alive) - 1) : alive'[i] = alive[i]
      BY <1>1, Popped DEF Guarded, TypeOK
<1>3. \A t \in Threads : DOMAIN calls[t] = {}
      BY <1>1 DEF Guarded, Quiet
<1>4. Owned' /\ OncePerThread' /\ Supplied'
      BY <1>1, <1>3 DEF Owned, OncePerThread, Supplied
<1>5. AliveOnce'
      BY <1>2 DEF Guarded, AliveOnce
<1>6. MadeFromTheLiving'
      <2>1. ASSUME NEW i \in DOMAIN alive', NEW m \in Needs(alive'[i])
            PROVE  \E j \in 1..(i - 1) : alive'[j] = m
            <3>1. PICK j \in 1..(i - 1) : alive[j] = m
                  BY <1>2, <2>1 DEF Guarded, MadeFromTheLiving
            <3>2. QED BY <1>2, <2>1, <3>1
      <2>2. QED BY <2>1 DEF MadeFromTheLiving
<1>7. QED BY <1>1, <1>2, <1>4, <1>5, <1>6 DEF Guarded, TypeOK, Quiet

\* main returns.
LEMMA ExitKeeps ==
    ASSUME Guarded, Exit
    PROVE  Guarded'
<1>1. /\ owner' = owner /\ alive' = alive /\ calls' = calls /\ exiting' = TRUE
      /\ \A t \in Threads : calls[t] = <<>>
      BY DEF Exit
<1>2. \A m : Alive(m)' <=> Alive(m)
      BY <1>1 DEF Alive
<1>3. QED BY <1>1, <1>2 DEF Guarded, TypeOK, Owned, OncePerThread, Supplied, IsConstructing,
                         AliveOnce, MadeFromTheLiving, Quiet
---------------------------------------------------------------------

LEMMA Inductive == Spec => []Guarded
<1>1. Init => Guarded
      <2>1. SUFFICES ASSUME Init PROVE Guarded
            OBVIOUS
      <2>2. TypeOK
            BY <2>1, EmptySeq DEF Init, TypeOK
      <2>3. DOMAIN alive = {} /\ \A t \in Threads : DOMAIN calls[t] = {}
            BY <2>1 DEF Init
      <2>4. Owned /\ OncePerThread /\ Supplied
            BY <2>3 DEF Owned, OncePerThread, Supplied
      <2>5. AliveOnce /\ MadeFromTheLiving
            BY <2>3 DEF AliveOnce, MadeFromTheLiving
      <2>6. QED BY <2>1, <2>2, <2>4, <2>5 DEF Init, Guarded, Quiet
<1>2. Guarded /\ [Next]_svars => Guarded'
      <2>1. SUFFICES ASSUME Guarded, [Next]_svars PROVE Guarded'
            OBVIOUS
      <2>2. CASE UNCHANGED svars
            <3>1. \A m : Alive(m)' <=> Alive(m)
                  BY <2>2 DEF Alive, svars
            <3>2. QED BY <2>1, <2>2, <3>1 DEF svars, Guarded, TypeOK, Owned, OncePerThread,
                         Supplied, IsConstructing, AliveOnce, MadeFromTheLiving, Quiet
      <2>3. CASE Next
            BY <2>1, <2>3, ExitKeeps, DestroyKeeps, UseKeeps, FindKeeps, ClaimKeeps, ConstructKeeps
               DEF Next, Running
      <2>4. QED BY <2>1, <2>2, <2>3
<1>3. QED BY <1>1, <1>2, PTL DEF Spec

\* Whatever the threads and the static objects of a program are: an object has
\* one constructor at a time and one in its life, and no object that is alive
\* is still being constructed (statics, static_null, parsers).
THEOREM EachIsConstructedOnce == Spec => []ConstructedOnce
<1>1. Guarded => ConstructedOnce
      <2>1. SUFFICES ASSUME Guarded PROVE ConstructedOnce
            OBVIOUS
      <2>2. ASSUME NEW t \in Threads, NEW u \in Threads,
                   NEW i \in DOMAIN calls[t], NEW j \in DOMAIN calls[u],
                   calls[t][i].at = "construct", calls[u][j].at = "construct",
                   calls[t][i].static = calls[u][j].static
            PROVE  t = u /\ i = j
            <3>1. t = u
                  BY <2>1, <2>2 DEF Guarded, Owned, IsConstructing
            <3>2. QED BY <2>1, <2>2, <3>1 DEF Guarded, OncePerThread, IsConstructing
      <2>3. QED BY <2>1, <2>2 DEF Guarded, AliveOnce, Owned, IsConstructing, ConstructedOnce
<1>2. QED BY <1>1, Inductive, PTL

\* Whatever is used first and by whichever thread, and for any static MsgPacks of
\* the program: where msgpack_null or a null or bool of the program is still there,
\* statics() is too, since it was constructed before and is destroyed after them.
THEOREM OrderOfLives == Spec => []DefaultsOutliveNulls
<1>1. Guarded => DefaultsOutliveNulls
      <2>1. SUFFICES ASSUME Guarded, NEW s \in Sharing, NEW i \in DOMAIN alive, alive[i] = s
                     PROVE  Alive("statics")
            BY DEF DefaultsOutliveNulls, Alive
      <2>2. "statics" \in Needs(alive[i])
            BY <2>1 DEF Needs
      <2>3. PICK j \in 1..(i - 1) : alive[j] = "statics"
            BY <2>1, <2>2 DEF Guarded, MadeFromTheLiving
      <2>4. j \in DOMAIN alive
            <3>1. DOMAIN alive = 1..Len(alive) /\ Len(alive) \in Nat
                  BY <2>1, LenProperties DEF Guarded, TypeOK
            <3>2. QED BY <2>1, <2>3, <3>1
      <2>5. QED BY <2>3, <2>4 DEF Alive
<1>2. QED BY <1>1, Inductive, PTL
=====================================================================
