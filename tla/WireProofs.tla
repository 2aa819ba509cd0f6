----------------------------- MODULE WireProofs ------------------------------
(***************************************************************************)
(* What the messages' formats give back of what was put in, for every file *)
(* and every request: the code's serialize and deserialize are inverse, and *)
(* client and server count the same pieces in a request.                   *)
(*                                                                         *)
(* The readers take element after element, as Many does, and FlattenSeq is *)
(* what the writers make of a sequence of elements. Both recur over a      *)
(* sequence; what they compute is proved by the least counterexample       *)
(* (WFMin), which NatInd and IntervalInd put as induction over a set.      *)
(***************************************************************************)
EXTENDS Wire, WellFoundedInduction, SequenceTheorems, TLAPS

\* A set of numbers that is not empty has a least one.
LEMMA LeastNat ==
  ASSUME NEW S \in SUBSET Nat, S # {}
  PROVE  \E n \in S : \A m \in S : n <= m
<1>1. PICK n \in S : \A m \in S : <<m, n>> \notin OpToRel(<, Nat)
  BY NatLessThanWellFounded, WFMin, Zenon
<1>2. \A m \in S : ~(m < n)
  BY <1>1 DEF OpToRel
<1>3. QED
  BY <1>2

\* Induction over the numbers, on a set instead of a predicate: a least number
\* that is not in it would follow one that is.
LEMMA NatInd ==
  ASSUME NEW S, 0 \in S, \A n \in Nat : n \in S => n + 1 \in S
  PROVE  Nat \subseteq S
<1> SUFFICES ASSUME Nat \ S # {} PROVE FALSE
  OBVIOUS
<1>1. PICK n \in Nat \ S : \A m \in Nat \ S : n <= m
  BY LeastNat
<1>2. n - 1 \in Nat /\ n - 1 \in S
  BY <1>1
<1>3. QED
  BY <1>2


\* Induction up to a bound.
LEMMA IntervalInd ==
  ASSUME NEW n \in Nat, NEW S, 1 \in S, \A i \in 1 .. n - 1 : i \in S => i + 1 \in S
  PROVE  1 .. n \subseteq S
<1> DEFINE E == {i \in Nat : i \in 1 .. n => i \in S}
<1>1. 0 \in E
  OBVIOUS
<1>2. ASSUME NEW i \in Nat, i \in E
      PROVE  i + 1 \in E
  <2>1. CASE i = 0
    BY <2>1
  <2>2. CASE i \in 1 .. n - 1
    <3>1. i \in S
      BY <1>2, <2>2
    <3>2. QED
      BY <2>2, <3>1
  <2>3. CASE i >= n
    BY <2>3
  <2>4. QED
    BY <2>1, <2>2, <2>3
<1> HIDE DEF E
<1>3. Nat \subseteq E
  BY <1>1, <1>2, NatInd
<1>4. QED
  BY <1>3 DEF E

\* The functions that a recursion over 0 .. n defines.
Iterates(D, base, Next, n) ==
  {f \in [0 .. n -> D] :
     f[0] = base /\ \A i \in 0 .. n - 1 : f[i + 1] = Next[i][f[i]]}

\* There is such a function.
LEMMA Recursion ==
  ASSUME NEW D, NEW base \in D, NEW Next \in [Nat -> [D -> D]], NEW m \in Nat
  PROVE  \E f : f \in Iterates(D, base, Next, m)
<1> DEFINE G(f, n) == /\ f \in [0 .. n -> D]
                      /\ f[0] = base
                      /\ \A i \in 0 .. n - 1 : f[i + 1] = Next[i][f[i]]
           S == {n \in Nat : \E f : G(f, n)}
<1>1. 0 \in S
  <2>1. G([i \in 0 .. 0 |-> base], 0)
    OBVIOUS
  <2>2. QED
    BY <2>1
<1>2. ASSUME NEW n \in Nat, n \in S
      PROVE  n + 1 \in S
  <2>1. PICK f : G(f, n)
    BY <1>2
  <2> DEFINE g == [i \in 0 .. n + 1 |-> IF i = n + 1 THEN Next[n][f[n]] ELSE f[i]]
  <2>2. \A i \in 0 .. n + 1 : g[i] = IF i = n + 1 THEN Next[n][f[n]] ELSE f[i]
    OBVIOUS
  <2>3. f[n] \in D /\ Next[n][f[n]] \in D
    BY <2>1
  <2>4. g \in [0 .. n + 1 -> D]
    BY <2>1, <2>3
  <2> HIDE DEF g
  <2>5. g[0] = base
    BY <2>1, <2>2
  <2>6. ASSUME NEW i \in 0 .. n
        PROVE  g[i + 1] = Next[i][g[i]]
    <3>1. g[i] = f[i]
      BY <2>2
    <3>2. CASE i = n
      BY <2>2, <3>1, <3>2
    <3>3. CASE i # n
      <4>1. i \in 0 .. n - 1 /\ i + 1 \in 0 .. n + 1 /\ i + 1 # n + 1
        BY <3>3
      <4>2. f[i + 1] = Next[i][f[i]]
        BY <2>1, <4>1
      <4>3. QED
        BY <2>2, <3>1, <4>1, <4>2
    <3>4. QED
      BY <3>2, <3>3
  <2>7. G(g, n + 1)
    BY <2>4, <2>5, <2>6
  <2>8. QED
    BY <2>7
<1> HIDE DEF S
<1>3. Nat \subseteq S
  BY <1>1, <1>2, NatInd
<1>4. QED
  BY <1>3 DEF S, Iterates

\* FlattenSeq by its recursion.
Partials(T, s) ==
  {f \in [1 .. Len(s) -> Seq(T)] :
     f[1] = s[1] /\ \A i \in 1 .. Len(s) - 1 : f[i + 1] = f[i] \o s[i + 1]}

\* What FlattenSeq of the community modules chooses.
LEMMA FlattenDef ==
  ASSUME NEW T, NEW s \in Seq(Seq(T)), Len(s) # 0
  PROVE  \E f \in Partials(T, s) : FlattenSeq(s) = f[Len(s)]
<1> DEFINE n == Len(s) - 1
           Step == [i \in Nat |-> [x \in Seq(T) |-> IF i < n THEN x \o s[i + 2] ELSE x]]
<1>0. n \in Nat /\ Len(s) = n + 1 /\ \A i \in 1 .. n + 1 : s[i] \in Seq(T)
  OBVIOUS
<1> HIDE DEF n
<1>1. Step \in [Nat -> [Seq(T) -> Seq(T)]]
  <2>1. ASSUME NEW i \in Nat, NEW x \in Seq(T)
        PROVE  (IF i < n THEN x \o s[i + 2] ELSE x) \in Seq(T)
    <3>1. CASE i < n
      <4>1. i + 2 \in 1 .. n + 1
        BY <1>0, <3>1
      <4>2. s[i + 2] \in Seq(T)
        BY <1>0, <4>1
      <4>3. QED
        BY <3>1, <4>2
    <3>2. QED
      BY <3>1
  <2>2. QED
    BY <2>1
<1>2. \A i \in Nat : \A x \in Seq(T) : Step[i][x] = IF i < n THEN x \o s[i + 2] ELSE x
  OBVIOUS
<1> HIDE DEF Step
<1>3. PICK g : /\ g \in [0 .. n -> Seq(T)]
               /\ g[0] = s[1]
               /\ \A i \in 0 .. n - 1 : g[i + 1] = Step[i][g[i]]
  <2> DEFINE D == Seq(T)
             first == s[1]
  <2>1. first \in D /\ Step \in [Nat -> [D -> D]] /\ n \in Nat
    BY <1>0, <1>1
  <2> HIDE DEF D, first, n
  <2>2. PICK g : g \in Iterates(D, first, Step, n)
    BY <2>1, Recursion
  <2>3. QED
    BY <2>2 DEF D, first, Iterates
<1>4. ASSUME NEW i \in 0 .. n - 1
      PROVE  g[i + 1] = g[i] \o s[i + 2]
  <2>1. g[i] \in Seq(T) /\ i \in Nat /\ i < n
    BY <1>0, <1>3
  <2>2. Step[i][g[i]] = g[i] \o s[i + 2]
    BY <1>2, <2>1
  <2>3. QED
    BY <1>3, <2>2
<1> DEFINE h == [i \in 1 .. n + 1 |-> g[i - 1]]
<1>5. h \in [1 .. n + 1 -> Seq(T)] /\ h[1] = s[1]
  BY <1>0, <1>3
<1>6. ASSUME NEW i \in 1 .. n + 1, i # 1
      PROVE  h[i] = h[i - 1] \o s[i]
  <2>1. i - 2 \in 0 .. n - 1 /\ i - 1 \in 1 .. n + 1 /\ i - 1 = (i - 2) + 1 /\ i = (i - 2) + 2
    BY <1>0, <1>6
  <2>2. g[i - 1] = g[i - 2] \o s[i]
    BY <1>4, <2>1
  <2>3. h[i] = g[i - 1] /\ h[i - 1] = g[i - 2]
    BY <1>0, <2>1
  <2>4. QED
    BY <2>2, <2>3
<1>7. \A i \in 1 .. n + 1 : h[i] = IF i = 1 THEN s[i] ELSE h[i - 1] \o s[i]
  BY <1>5, <1>6
<1>8. h = [i \in 1 .. n + 1 |-> IF i = 1 THEN s[i] ELSE h[i - 1] \o s[i]]
  <2> HIDE DEF h
  <2> DEFINE k == [i \in 1 .. n + 1 |-> IF i = 1 THEN s[i] ELSE h[i - 1] \o s[i]]
  <2>1. \A i \in 1 .. n + 1 : k[i] = h[i]
    BY <1>7
  <2>2. DOMAIN k = 1 .. n + 1 /\ k = [i \in DOMAIN k |-> k[i]]
    OBVIOUS
  <2> HIDE DEF k
  <2>3. k = h
    BY <1>5, <2>1, <2>2
  <2>4. QED
    BY <2>3 DEF k
<1> HIDE DEF h
<1> DEFINE f == CHOOSE f : f = [i \in 1 .. Len(s) |-> IF i = 1 THEN s[i] ELSE f[i - 1] \o s[i]]
<1>9. f = [i \in 1 .. Len(s) |-> IF i = 1 THEN s[i] ELSE f[i - 1] \o s[i]]
  BY <1>0, <1>8
<1>10. FlattenSeq(s) = f[Len(s)]
  BY DEF FlattenSeq
<1> HIDE DEF f
<1>11. \A i \in 1 .. n + 1 : f[i] = IF i = 1 THEN s[i] ELSE f[i - 1] \o s[i]
  BY <1>0, <1>9
<1>12. f[1] = s[1]
  BY <1>0, <1>11
<1>13. ASSUME NEW i \in 1 .. n
       PROVE f[i + 1] = f[i] \o s[i + 1]
  <2>1. i + 1 \in 1 .. n + 1 /\ i + 1 # 1 /\ (i + 1) - 1 = i
    BY <1>0
  <2>2. QED
    BY <1>11, <2>1
<1>14. \A i \in 1 .. n + 1 : f[i] = h[i]
  <2> DEFINE E == {i \in Nat : i <= n => f[i + 1] = h[i + 1]}
  <2>1. 0 \in E
    BY <1>5, <1>12
  <2>2. ASSUME NEW i \in Nat, i \in E
        PROVE  i + 1 \in E
    <3> SUFFICES ASSUME i + 1 <= n
                 PROVE  f[i + 2] = h[i + 2]
      OBVIOUS
    <3>1. f[i + 1] = h[i + 1]
      BY <1>0, <2>2
    <3>2. i + 2 \in 1 .. n + 1 /\ i + 2 # 1 /\ (i + 2) - 1 = i + 1
      BY <1>0
    <3>3. QED
      BY <1>7, <1>11, <3>1, <3>2
  <2> HIDE DEF E
  <2>3. Nat \subseteq E
    BY <2>1, <2>2, NatInd
  <2>4. ASSUME NEW i \in 1 .. n + 1
        PROVE  f[i] = h[i]
    <3>1. i - 1 \in Nat /\ i - 1 <= n /\ (i - 1) + 1 = i
      BY <1>0
    <3>2. QED
      BY <2>3, <3>1 DEF E
  <2>5. QED
    BY <2>4
<1>15. ASSUME NEW i \in 1 .. n
       PROVE  h[i + 1] = h[i] \o s[i + 1]
  <2>1. i \in 1 .. n + 1 /\ i + 1 \in 1 .. n + 1
    BY <1>0
  <2>2. QED
    BY <1>13, <1>14, <2>1
<1>16. FlattenSeq(s) = h[n + 1]
  BY <1>0, <1>10, <1>14
<1>17. Len(s) - 1 = n
  BY <1>0
<1>18. QED
  BY <1>0, <1>5, <1>15, <1>16, <1>17 DEF Partials

\* Concatenation can be regrouped.
LEMMA Assoc ==
  ASSUME NEW T, NEW a \in Seq(T), NEW b \in Seq(T), NEW c \in Seq(T)
  PROVE  (a \o b) \o c = a \o (b \o c)
OBVIOUS

\* Sequences of T, put together, are a sequence of T.
LEMMA FlattenType ==
  ASSUME NEW T, NEW s \in Seq(Seq(T))
  PROVE  FlattenSeq(s) \in Seq(T)
<1>1. CASE Len(s) = 0
  BY <1>1 DEF FlattenSeq
<1>2. CASE Len(s) # 0
  <2>1. PICK f \in Partials(T, s) : FlattenSeq(s) = f[Len(s)]
    BY <1>2, FlattenDef
  <2>2. Len(s) \in 1 .. Len(s)
    BY <1>2
  <2>3. QED
    BY <2>1, <2>2 DEF Partials
<1>3. QED
  BY <1>1, <1>2

\* The first sequence comes first.
LEMMA FlattenCons ==
  ASSUME NEW T, NEW s \in Seq(Seq(T)), s # << >>
  PROVE  FlattenSeq(s) = s[1] \o FlattenSeq(Tail(s))
<1> DEFINE n == Len(s) - 1
           t == Tail(s)
           a == s[1]
<1>1. n \in Nat /\ Len(s) = n + 1 /\ Len(s) # 0 /\ a \in Seq(T)
  OBVIOUS
<1>2. t \in Seq(Seq(T)) /\ Len(t) = n /\ \A i \in 1 .. n : t[i] = s[i + 1] /\ t[i] \in Seq(T)
  OBVIOUS
<1>3. PICK f \in Partials(T, s) : FlattenSeq(s) = f[Len(s)]
  BY <1>1, FlattenDef
<1> HIDE DEF n
<1>4. f[1] = a /\ \A i \in 1 .. n : f[i + 1] = f[i] \o t[i]
  <2>1. Len(s) - 1 = n
    BY <1>1
  <2>2. QED
    BY <1>2, <1>3, <2>1 DEF Partials
<1> HIDE DEF t, a
<1>5. CASE n = 0
  <2>1. FlattenSeq(t) = << >>
    BY <1>2, <1>5 DEF FlattenSeq
  <2>2. FlattenSeq(s) = a
    BY <1>1, <1>3, <1>4, <1>5
  <2>3. a = a \o << >>
    BY <1>1
  <2>4. QED
    BY <2>1, <2>2, <2>3 DEF a, t
<1>6. CASE n # 0
  <2>1. PICK g \in Partials(T, t) : FlattenSeq(t) = g[n]
    BY <1>2, <1>6, FlattenDef
  <2>2. /\ g \in [1 .. n -> Seq(T)] /\ g[1] = t[1]
        /\ \A i \in 1 .. n - 1 : g[i + 1] = g[i] \o t[i + 1]
    BY <1>2, <2>1 DEF Partials
  <2> DEFINE E == {i \in 1 .. n : f[i + 1] = a \o g[i]}
  <2>3. 1 \in E
    <3>1. 1 \in 1 .. n
      BY <1>1, <1>6
    <3>2. f[1 + 1] = a \o g[1]
      BY <1>4, <2>2, <3>1
    <3>3. QED
      BY <3>1, <3>2
  <2>4. ASSUME NEW i \in 1 .. n - 1, i \in E
        PROVE  i + 1 \in E
    <3>1. i + 1 \in 1 .. n /\ i \in 1 .. n
      BY <1>1
    <3> DEFINE b == g[i]
               c == t[i + 1]
    <3>2. f[i + 1] = a \o b
      BY <2>4
    <3>3. b \in Seq(T) /\ c \in Seq(T)
      BY <1>2, <2>2, <3>1
    <3>4. f[(i + 1) + 1] = f[i + 1] \o c
      BY <1>4, <3>1
    <3>5. g[i + 1] = b \o c
      BY <2>2
    <3> HIDE DEF b, c
    <3>6. (a \o b) \o c = a \o (b \o c)
      BY <1>1, <3>3
    <3>7. f[(i + 1) + 1] = a \o g[i + 1]
      BY <3>2, <3>4, <3>5, <3>6
    <3>8. QED
      BY <3>1, <3>7
  <2> HIDE DEF E
  <2>5. 1 .. n \subseteq E
    BY <1>1, <2>3, <2>4, IntervalInd
  <2>6. f[n + 1] = a \o g[n]
    <3>1. n \in 1 .. n
      BY <1>1, <1>6
    <3>2. QED
      BY <2>5, <3>1 DEF E
  <2>7. QED
    BY <1>1, <1>3, <2>1, <2>6 DEF t, a
<1>7. QED
  BY <1>5, <1>6

\* As many cells are read as were written, and the rest is left.
LEMMA CellsFirst ==
  ASSUME NEW T, NEW a \in Seq(T), NEW b \in Seq(T)
  PROVE  Cells(Len(a), a \o b) = [value |-> a, rest |-> b]
<1>1. SubSeq(a \o b, 1, Len(a)) = a
  OBVIOUS
<1>2. SubSeq(a \o b, Len(a) + 1, Len(a \o b)) = b
  OBVIOUS
<1>3. QED
  BY <1>1, <1>2 DEF Cells

\* What is written behind its length is read back by it.
LEMMA SizedFirst ==
  ASSUME NEW T, Nat \subseteq T, NEW a \in Seq(T), NEW b \in Seq(T)
  PROVE  /\ SizedCells(Sized(a) \o b) = [value |-> a, rest |-> b]
         /\ Sized(a) \in Seq(T)
<1>1. Sized(a) \in Seq(T)
  BY DEF Sized
<1>2. Head(Sized(a) \o b) = Len(a) /\ Tail(Sized(a) \o b) = a \o b
  BY DEF Sized
<1>3. QED
  BY <1>1, <1>2, CellsFirst DEF SizedCells

\* Two functions that start alike and go on alike are alike.
LEMMA SameUpTo ==
  ASSUME NEW n \in Nat, NEW f, NEW h, f[0] = h[0],
         \A i \in 0 .. n - 1 : f[i] = h[i] => f[i + 1] = h[i + 1]
  PROVE  f[n] = h[n]
<1> DEFINE E == {i \in Nat : i <= n => f[i] = h[i]}
<1>1. 0 \in E
  OBVIOUS
<1>2. ASSUME NEW i \in Nat, i \in E
      PROVE  i + 1 \in E
  <2> SUFFICES ASSUME i + 1 <= n
               PROVE  f[i + 1] = h[i + 1]
    OBVIOUS
  <2>1. i \in 0 .. n - 1 /\ f[i] = h[i]
    BY <1>2
  <2>2. QED
    BY <2>1
<1> HIDE DEF E
<1>3. Nat \subseteq E
  BY <1>1, <1>2, NatInd
<1>4. QED
  BY <1>3 DEF E

\* The elements behind the first i, one after the other.
Rest(s, i) == FlattenSeq(SubSeq(s, i + 1, Len(s)))

\* What is left of a sequence has a first element, and more behind it.
LEMMA SubSeqCons ==
  ASSUME NEW T, NEW s \in Seq(T), NEW i \in Nat, i < Len(s)
  PROVE  LET t == SubSeq(s, i + 1, Len(s))
         IN  /\ t \in Seq(T) /\ t # << >> /\ t[1] = s[i + 1] /\ s[i + 1] \in T
             /\ Tail(t) = SubSeq(s, (i + 1) + 1, Len(s)) /\ Tail(t) \in Seq(T)
<1> DEFINE t == SubSeq(s, i + 1, Len(s))
<1>1. t \in Seq(T) /\ Len(t) = Len(s) - i
  OBVIOUS
<1>2. t # << >> /\ t[1] = s[i + 1] /\ s[i + 1] \in T
  <2>1. Len(t) # 0 /\ i + 1 \in 1 .. Len(s) /\ 1 \in 1 .. Len(t)
    BY <1>1
  <2>2. t[1] = s[i + 1]
    BY <2>1
  <2>3. s[i + 1] \in T
    BY <2>1
  <2>4. t # << >>
    <3> HIDE DEF t
    <3>1. QED
      BY <2>1
  <2>5. QED
    BY <2>2, <2>3, <2>4
<1>3. Tail(t) = SubSeq(s, (i + 1) + 1, Len(s)) /\ Tail(t) \in Seq(T)
  <2>1. Tail(t) \in Seq(T) /\ Len(Tail(t)) = Len(s) - i - 1
    BY <1>1, <1>2
  <2> DEFINE u == SubSeq(s, (i + 1) + 1, Len(s))
  <2>2. u \in Seq(T) /\ Len(u) = Len(s) - i - 1
    OBVIOUS
  <2>3. ASSUME NEW j \in 1 .. Len(s) - i - 1
        PROVE  Tail(t)[j] = u[j]
    <3>1. Tail(t)[j] = t[j + 1] /\ t[j + 1] = s[i + 1 + j]
      BY <1>1, <1>2, <2>1
    <3>2. u[j] = s[i + 1 + j]
      OBVIOUS
    <3>3. QED
      BY <3>1, <3>2
  <2> HIDE DEF u, t
  <2>4. Tail(t) = u
    BY <2>1, <2>2, <2>3, SeqEqual
  <2>5. QED
    BY <2>1, <2>4 DEF u
<1>4. QED
  BY <1>1, <1>2, <1>3

\* One element less is left.
LEMMA RestStep ==
  ASSUME NEW T, NEW s \in Seq(Seq(T)), NEW i \in Nat, i < Len(s)
  PROVE  /\ Rest(s, i) = s[i + 1] \o Rest(s, i + 1)
         /\ Rest(s, i + 1) \in Seq(T) /\ s[i + 1] \in Seq(T)
<1> DEFINE t == SubSeq(s, i + 1, Len(s))
           U == Seq(T)
<1>1. /\ t \in Seq(U) /\ t # << >> /\ t[1] = s[i + 1] /\ s[i + 1] \in U
      /\ Tail(t) = SubSeq(s, (i + 1) + 1, Len(s)) /\ Tail(t) \in Seq(U)
  <2> HIDE DEF U
  <2>1. s \in Seq(U)
    BY DEF U
  <2>2. QED
    BY <2>1, SubSeqCons
<1> HIDE DEF t
<1>2. FlattenSeq(t) = t[1] \o FlattenSeq(Tail(t))
  BY <1>1, FlattenCons
<1>3. FlattenSeq(Tail(t)) \in Seq(T)
  BY <1>1, FlattenType
<1>4. QED
  BY <1>1, <1>2, <1>3 DEF Rest, t

\* All are left at first, and none in the end.
LEMMA RestEnds ==
  ASSUME NEW T, NEW s \in Seq(Seq(T))
  PROVE  Rest(s, 0) = FlattenSeq(s) /\ Rest(s, Len(s)) = << >>
<1>1. SubSeq(s, 0 + 1, Len(s)) = s /\ SubSeq(s, Len(s) + 1, Len(s)) = << >>
  OBVIOUS
<1>2. FlattenSeq(<< >>) = << >>
  BY DEF FlattenSeq
<1>3. QED
  BY <1>1, <1>2, Zenon DEF Rest

\* The step a reader makes from i values to i + 1.
Splits(T, v, e, tail, i) ==
  LET b == Rest(e, i + 1) \o tail
  IN  /\ Rest(e, i) \o tail = e[i + 1] \o b
      /\ e[i + 1] \in Seq(T) /\ b \in Seq(T)
      /\ Append(SubSeq(v, 1, i), v[i + 1]) = SubSeq(v, 1, i + 1)

\* Every reader of elements one after the other makes that step.
LEMMA RestSplit ==
  ASSUME NEW T, NEW U, NEW v \in Seq(U), NEW e \in Seq(Seq(T)), Len(v) = Len(e),
         NEW tail \in Seq(T), NEW i \in Nat, i < Len(e)
  PROVE  Splits(T, v, e, tail, i)
<1>1. Append(SubSeq(v, 1, i), v[i + 1]) = SubSeq(v, 1, i + 1)
  OBVIOUS
<1> DEFINE a == e[i + 1]
           b == Rest(e, i + 1)
           r == Rest(e, i)
<1>2. r = a \o b /\ a \in Seq(T) /\ b \in Seq(T)
  BY RestStep
<1> HIDE DEF a, b, r
<1>3. b \o tail \in Seq(T)
  BY <1>2
<1>4. (a \o b) \o tail = a \o (b \o tail)
  <2>1. a \in Seq(T) /\ b \in Seq(T) /\ tail \in Seq(T)
    BY <1>2
  <2>2. QED
    BY <2>1, SMTT(20)
<1>5. QED
  BY <1>1, <1>2, <1>3, <1>4 DEF a, b, r, Splits

\* What a reader of the values v has when it has read i of them.
Sofar(v, e, tail, i) == [value |-> SubSeq(v, 1, i), rest |-> Rest(e, i) \o tail]

\* A reader starts with nothing and ends with all the values.
LEMMA SofarEnds ==
  ASSUME NEW T, NEW U, NEW v \in Seq(U), NEW e \in Seq(Seq(T)), Len(v) = Len(e),
         NEW tail \in Seq(T)
  PROVE  /\ Sofar(v, e, tail, 0) = [value |-> << >>, rest |-> FlattenSeq(e) \o tail]
         /\ Sofar(v, e, tail, Len(v)) = [value |-> v, rest |-> tail]
<1>1. SubSeq(v, 1, 0) = << >> /\ SubSeq(v, 1, Len(v)) = v /\ << >> \o tail = tail
  OBVIOUS
<1>2. Rest(e, 0) = FlattenSeq(e) /\ Rest(e, Len(e)) = << >>
  BY RestEnds
<1>3. QED
  BY <1>1, <1>2 DEF Sofar

\* Elements of one width, written one after the other, are read back by Many.
LEMMA ManyCells ==
  ASSUME NEW T, NEW w \in Nat, NEW s \in Seq(Seq(T)), \A i \in 1 .. Len(s) : Len(s[i]) = w,
         NEW tail \in Seq(T)
  PROVE  Many(Len(s), FlattenSeq(s) \o tail, LAMBDA x : Cells(w, x))
           = [value |-> s, rest |-> tail]
<1> DEFINE n == Len(s)
           stream == FlattenSeq(s) \o tail
           Next(x) == [value |-> Append(x.value, Cells(w, x.rest).value),
                       rest |-> Cells(w, x.rest).rest]
           First == [value |-> << >>, rest |-> stream]
           h == [i \in 0 .. n |-> Sofar(s, s, tail, i)]
           f == CHOOSE f : f = [i \in 0 .. n |-> IF i = 0 THEN First ELSE Next(f[i - 1])]
<1>1. Many(n, stream, LAMBDA x : Cells(w, x)) = f[n]
  BY DEF Many
<1>2. n \in Nat
  OBVIOUS
<1>3. h[0] = First
  <2>1. h[0] = Sofar(s, s, tail, 0)
    BY <1>2
  <2>2. s \in Seq(Seq(T)) /\ Len(s) = Len(s)
    OBVIOUS
  <2>3. Sofar(s, s, tail, 0) = First
    BY <2>2, SofarEnds
  <2>4. QED
    BY <2>1, <2>3
<1>4. ASSUME NEW i \in 0 .. n - 1
      PROVE  h[i + 1] = Next(h[i])
  <2> DEFINE a == s[i + 1]
             b == Rest(s, i + 1) \o tail
             r == Rest(s, i) \o tail
  <2>0. /\ i \in Nat /\ i < Len(s) /\ i + 1 \in 1 .. Len(s)
        /\ i \in 0 .. n /\ i + 1 \in 0 .. n
    BY <1>2
  <2>1. /\ r = a \o b /\ a \in Seq(T) /\ b \in Seq(T)
        /\ Append(SubSeq(s, 1, i), a) = SubSeq(s, 1, i + 1)
    <3>1. Splits(T, s, s, tail, i)
      BY <2>0, RestSplit
    <3>2. QED
      BY <3>1 DEF Splits
  <2>2. h[i] = [value |-> SubSeq(s, 1, i), rest |-> r]
    BY <2>0 DEF Sofar
  <2>3. h[i + 1] = [value |-> SubSeq(s, 1, i + 1), rest |-> b]
    BY <2>0 DEF Sofar
  <2> HIDE DEF a, b, r, h
  <2>4. Cells(w, r) = [value |-> a, rest |-> b]
    <3>1. Len(a) = w
      BY <2>0 DEF a
    <3>2. QED
      BY <2>1, <3>1, CellsFirst
  <2>5. Next(h[i]) = [value |-> Append(SubSeq(s, 1, i), a), rest |-> b]
    <3>1. h[i].value = SubSeq(s, 1, i) /\ h[i].rest = r
      BY <2>2
    <3>2. Cells(w, h[i].rest).value = a /\ Cells(w, h[i].rest).rest = b
      BY <2>4, <3>1
    <3>3. QED
      BY <3>1, <3>2
  <2>6. QED
    BY <2>1, <2>3, <2>5
<1> HIDE DEF First, Next
<1>5. h = [i \in 0 .. n |-> IF i = 0 THEN First ELSE Next(h[i - 1])]
  <2>1. ASSUME NEW i \in 0 .. n
        PROVE  h[i] = IF i = 0 THEN First ELSE Next(h[i - 1])
    <3>1. CASE i = 0
      BY <1>3, <3>1
    <3>2. CASE i # 0
      <4>1. i - 1 \in 0 .. n - 1 /\ (i - 1) + 1 = i
        BY <1>2, <3>2
      <4>2. QED
        BY <1>4, <3>2, <4>1
    <3>3. QED
      BY <3>1, <3>2
  <2>2. h = [i \in 0 .. n |-> h[i]]
    OBVIOUS
  <2> HIDE DEF h
  <2>3. QED
    BY <2>1, <2>2
<1> HIDE DEF h
<1>6. f = [i \in 0 .. n |-> IF i = 0 THEN First ELSE Next(f[i - 1])]
  BY <1>5
<1> HIDE DEF f
<1>7. f[n] = h[n]
  <2>1. f[0] = h[0]
    BY <1>2, <1>3, <1>6
  <2>2. ASSUME NEW i \in 0 .. n - 1, f[i] = h[i]
        PROVE  f[i + 1] = h[i + 1]
    <3>1. i + 1 \in 0 .. n /\ i + 1 # 0 /\ (i + 1) - 1 = i
      BY <1>2
    <3>2. f[i + 1] = Next(f[i])
      BY <1>6, <3>1
    <3>3. QED
      BY <1>4, <2>2, <3>2
  <2>3. QED
    BY <1>2, <2>1, <2>2, SameUpTo
<1>8. h[n] = [value |-> s, rest |-> tail]
  BY <1>2, SofarEnds DEF h
<1>9. QED
  BY <1>1, <1>7, <1>8

\* And elements of any width, each behind its length.
LEMMA ManySized ==
  ASSUME NEW T, Nat \subseteq T, NEW s \in Seq(Seq(T)), NEW tail \in Seq(T)
  PROVE  Many(Len(s), FlattenSeq([i \in 1 .. Len(s) |-> Sized(s[i])]) \o tail, SizedCells)
           = [value |-> s, rest |-> tail]
<1> DEFINE n == Len(s)
           e == [i \in 1 .. n |-> Sized(s[i])]
           stream == FlattenSeq(e) \o tail
           Next(x) == [value |-> Append(x.value, SizedCells(x.rest).value),
                       rest |-> SizedCells(x.rest).rest]
           First == [value |-> << >>, rest |-> stream]
           h == [i \in 0 .. n |-> Sofar(s, e, tail, i)]
           f == CHOOSE f : f = [i \in 0 .. n |-> IF i = 0 THEN First ELSE Next(f[i - 1])]
<1>1. Many(n, stream, SizedCells) = f[n]
  BY DEF Many
<1>2. n \in Nat /\ e \in Seq(Seq(T)) /\ Len(e) = n
  <2>1. \A i \in 1 .. n : Sized(s[i]) \in Seq(T)
    BY SizedFirst
  <2>2. QED
    BY <2>1
<1>0. \A i \in 1 .. n : e[i] = Sized(s[i])
  OBVIOUS
<1> HIDE DEF e
<1>3. h[0] = First
  <2>1. h[0] = Sofar(s, e, tail, 0)
    BY <1>2
  <2>2. QED
    BY <1>2, <2>1, SofarEnds
<1>4. ASSUME NEW i \in 0 .. n - 1
      PROVE  h[i + 1] = Next(h[i])
  <2> DEFINE a == s[i + 1]
             c == e[i + 1]
             b == Rest(e, i + 1) \o tail
             r == Rest(e, i) \o tail
  <2>0. /\ i \in Nat /\ i < Len(e) /\ i + 1 \in 1 .. n
        /\ i \in 0 .. n /\ i + 1 \in 0 .. n
    BY <1>2
  <2>1. /\ r = c \o b /\ b \in Seq(T)
        /\ Append(SubSeq(s, 1, i), a) = SubSeq(s, 1, i + 1)
    <3>1. Splits(T, s, e, tail, i)
      BY <1>2, <2>0, RestSplit
    <3>2. QED
      BY <3>1 DEF Splits
  <2>2. h[i] = [value |-> SubSeq(s, 1, i), rest |-> r]
    BY <2>0 DEF Sofar
  <2>3. h[i + 1] = [value |-> SubSeq(s, 1, i + 1), rest |-> b]
    BY <2>0 DEF Sofar
  <2> HIDE DEF b, r, h
  <2>4. SizedCells(r) = [value |-> a, rest |-> b]
    <3>1. a \in Seq(T) /\ c = Sized(a)
      BY <1>0, <2>0
    <3> HIDE DEF a, c
    <3>2. QED
      BY <2>1, <3>1, SizedFirst
  <2>5. Next(h[i]) = [value |-> Append(SubSeq(s, 1, i), a), rest |-> b]
    <3>1. h[i].value = SubSeq(s, 1, i) /\ h[i].rest = r
      BY <2>2
    <3>2. SizedCells(h[i].rest).value = a /\ SizedCells(h[i].rest).rest = b
      BY <2>4, <3>1
    <3>3. QED
      BY <3>1, <3>2
  <2>6. QED
    BY <2>1, <2>3, <2>5
<1> HIDE DEF First, Next
<1>5. h = [i \in 0 .. n |-> IF i = 0 THEN First ELSE Next(h[i - 1])]
  <2>1. ASSUME NEW i \in 0 .. n
        PROVE  h[i] = IF i = 0 THEN First ELSE Next(h[i - 1])
    <3>1. CASE i = 0
      BY <1>3, <3>1
    <3>2. CASE i # 0
      <4>1. i - 1 \in 0 .. n - 1 /\ (i - 1) + 1 = i
        BY <1>2, <3>2
      <4>2. QED
        BY <1>4, <3>2, <4>1
    <3>3. QED
      BY <3>1, <3>2
  <2>2. h = [i \in 0 .. n |-> h[i]]
    OBVIOUS
  <2> HIDE DEF h
  <2>3. QED
    BY <2>1, <2>2
<1> HIDE DEF h
<1>6. f = [i \in 0 .. n |-> IF i = 0 THEN First ELSE Next(f[i - 1])]
  BY <1>5
<1> HIDE DEF f
<1>7. f[n] = h[n]
  <2>1. f[0] = h[0]
    BY <1>2, <1>3, <1>6
  <2>2. ASSUME NEW i \in 0 .. n - 1, f[i] = h[i]
        PROVE  f[i + 1] = h[i + 1]
    <3>1. i + 1 \in 0 .. n /\ i + 1 # 0 /\ (i + 1) - 1 = i
      BY <1>2
    <3>2. f[i + 1] = Next(f[i])
      BY <1>6, <3>1
    <3>3. QED
      BY <1>4, <2>2, <3>2
  <2>3. QED
    BY <1>2, <2>1, <2>2, SameUpTo
<1>8. h[n] = [value |-> s, rest |-> tail]
  BY <1>2, SofarEnds DEF h
<1>9. QED
  BY <1>1, <1>7, <1>8 DEF e

\* The metadata of a piece: addresses of a fixed width, and its checksum.
PieceMetas ==
  [srcs : Seq({ip \in Seq(Nat) : Len(ip) = IP4_LENGTH}), checksum : Seq(Nat)]

\* A function on 1 .. n is a sequence.
LEMMA AsSequence ==
  ASSUME NEW n \in Nat, NEW U, NEW e, e \in [1 .. n -> U]
  PROVE  e \in Seq(U) /\ Len(e) = n
OBVIOUS

\* SizedFirst for bytes.
LEMMA SizedNat ==
  ASSUME NEW k \in Seq(Nat), NEW tail \in Seq(Nat)
  PROVE  Sized(k) \in Seq(Nat) /\ SizedCells(Sized(k) \o tail) = [value |-> k, rest |-> tail]
<1>1. Nat \subseteq Nat
  OBVIOUS
<1>2. QED
  BY <1>1, SizedFirst

\* SizedFirst with nothing behind.
LEMMA SizedAlone ==
  ASSUME NEW k \in Seq(Nat)
  PROVE  SizedCells(Sized(k)) = [value |-> k, rest |-> << >>]
<1>1. << >> \in Seq(Nat)
  OBVIOUS
<1>2. SizedCells(Sized(k) \o << >>) = [value |-> k, rest |-> << >>] /\ Sized(k) \in Seq(Nat)
  BY <1>1, SizedNat
<1> DEFINE t == Sized(k)
<1> HIDE DEF t
<1>3. t \in Seq(Nat)
  BY <1>2 DEF t
<1>4. t \o << >> = t
  BY <1>3
<1>5. QED
  BY <1>2, <1>4 DEF t

\* ManySized for bytes, with nothing behind.
LEMMA ManySizedNat ==
  ASSUME NEW s \in Seq(Seq(Nat))
  PROVE  Many(Len(s), FlattenSeq([i \in 1 .. Len(s) |-> Sized(s[i])]), SizedCells).value = s
<1> DEFINE n == Len(s)
           flat == FlattenSeq([i \in 1 .. Len(s) |-> Sized(s[i])])
<1>1. Many(n, flat \o << >>, SizedCells) = [value |-> s, rest |-> << >>]
  <2>1. Nat \subseteq Nat /\ << >> \in Seq(Nat)
    OBVIOUS
  <2>2. QED
    BY <2>1, ManySized
<1>2. flat \in Seq(Nat)
  <2> DEFINE e == [i \in 1 .. Len(s) |-> Sized(s[i])]
  <2>1. \A i \in 1 .. Len(s) : Sized(s[i]) \in Seq(Nat)
    <3>1. \A i \in 1 .. Len(s) : s[i] \in Seq(Nat)
      OBVIOUS
    <3>2. << >> \in Seq(Nat)
      OBVIOUS
    <3>3. QED
      BY <3>1, <3>2, SizedNat
  <2>2. e \in [1 .. Len(s) -> Seq(Nat)] /\ Len(s) \in Nat
    BY <2>1
  <2> HIDE DEF e
  <2>3. e \in Seq(Seq(Nat))
    BY <2>2, AsSequence
  <2>4. FlattenSeq(e) \in Seq(Nat)
    BY <2>3, FlattenType
  <2>5. QED
    BY <2>4 DEF e
<1> HIDE DEF flat
<1>3. flat \o << >> = flat
  BY <1>2
<1>4. QED
  BY <1>1, <1>3 DEF flat

\* Addresses, one after the other, are read back.
LEMMA FieldsNat ==
  ASSUME NEW s \in Seq(Seq(Nat)), \A i \in 1 .. Len(s) : Len(s[i]) = IP4_LENGTH,
         NEW tail \in Seq(Nat)
  PROVE  Many(Len(s), FlattenSeq(s) \o tail, Address) = [value |-> s, rest |-> tail]
<1>1. Many(Len(s), FlattenSeq(s) \o tail, LAMBDA x : Cells(IP4_LENGTH, x)) = [value |-> s, rest |-> tail]
  <2>1. IP4_LENGTH \in Nat
    BY WireAssumption
  <2>2. QED
    BY <2>1, ManyCells
<1>2. QED
  BY <1>1 DEF Address, Many

\* A number in front.
LEMMA OneCell ==
  ASSUME NEW n \in Nat, NEW a \in Seq(Nat), NEW b \in Seq(Nat)
  PROVE  /\ <<n>> \o a \o b \in Seq(Nat) /\ Head(<<n>> \o a \o b) = n
         /\ Tail(<<n>> \o a \o b) = a \o b
OBVIOUS

\* A piece's record, from its parts.
LEMMA PieceStream ==
  ASSUME NEW s \in Seq(Seq(Nat)), \A i \in 1 .. Len(s) : Len(s[i]) = IP4_LENGTH,
         NEW k \in Seq(Nat)
  PROVE  /\ <<Len(s)>> \o FlattenSeq(s) \o Sized(k) \in Seq(Nat)
         /\ DeserializePiece(<<Len(s)>> \o FlattenSeq(s) \o Sized(k)) = [srcs |-> s, checksum |-> k]
<1> DEFINE tail == Sized(k)
           flat == FlattenSeq(s)
           stream == <<Len(s)>> \o flat \o tail
<1>1. tail \in Seq(Nat)
  <2>1. << >> \in Seq(Nat)
    OBVIOUS
  <2>2. QED
    BY <2>1, SizedNat
<1>2. flat \in Seq(Nat) /\ Len(s) \in Nat
  BY FlattenType
<1>3. Many(Len(s), flat \o tail, Address) = [value |-> s, rest |-> tail]
  BY <1>1, FieldsNat
<1>4. SizedCells(tail).value = k
  BY SizedAlone
<1> HIDE DEF tail, flat
<1>5. stream \in Seq(Nat) /\ Head(stream) = Len(s) /\ Tail(stream) = flat \o tail
  BY <1>1, <1>2, OneCell
<1> HIDE DEF stream
<1>6. SizedMany(stream, Address) = Many(Len(s), flat \o tail, Address)
  BY <1>5 DEF SizedMany
<1>7. SizedMany(stream, Address) = [value |-> s, rest |-> tail]
  BY <1>3, <1>6
<1>8. DeserializePiece(stream) = [srcs |-> s, checksum |-> k]
  BY <1>4, <1>7 DEF DeserializePiece
<1>9. QED
  BY <1>5, <1>8 DEF stream, tail, flat

\* PieceMetaData::deserialize reads what PieceMetaData::serialize wrote.
LEMMA PieceCodec ==
  ASSUME NEW m \in PieceMetas
  PROVE  /\ SerializePiece(m) \in Seq(Nat)
         /\ DeserializePiece(SerializePiece(m)) = m
<1>1. \A i \in 1 .. Len(m.srcs) : m.srcs[i] \in Seq(Nat) /\ Len(m.srcs[i]) = IP4_LENGTH
  BY DEF PieceMetas
<1>2. m.srcs \in Seq(Seq(Nat)) /\ m.checksum \in Seq(Nat)
  BY <1>1 DEF PieceMetas
<1>3. m = [srcs |-> m.srcs, checksum |-> m.checksum]
  BY DEF PieceMetas
<1>4. SerializePiece(m) = <<Len(m.srcs)>> \o FlattenSeq(m.srcs) \o Sized(m.checksum)
  BY DEF SerializePiece
<1>5. QED
  BY <1>1, <1>2, <1>3, <1>4, PieceStream

\* The metadata of a file: it counts its pieces.
FileMetas ==
  {m \in [fileId : Seq(Nat), filename : Seq(Nat), fileSize : Nat, numPieces : Nat,
          pieces : Seq(PieceMetas)] : m.numPieces = Len(m.pieces)}

\* Four parts of a stream, as they are written and as they are read.
Regroups(a, b, c, d) == ((a \o b) \o c) \o d = a \o (b \o (c \o d))

\* It makes no difference.
LEMMA Regroup ==
  ASSUME NEW T, NEW a \in Seq(T), NEW b \in Seq(T), NEW c \in Seq(T), NEW d \in Seq(T)
  PROVE  Regroups(a, b, c, d)
BY DEF Regroups

\* The pieces' records, each behind its length.
Blobs(s) == FlattenSeq([i \in 1 .. Len(s) |-> Sized(s[i])])

\* A file's record, from its parts.
LEMMA FileStream ==
  ASSUME NEW id \in Seq(Nat), NEW name \in Seq(Nat), NEW size \in Nat, NEW blobs \in Seq(Seq(Nat))
  PROVE  DeserializeFile(Sized(id) \o Sized(name) \o <<size, Len(blobs)>> \o Blobs(blobs))
           = [fileId |-> id, filename |-> name, fileSize |-> size, numPieces |-> Len(blobs),
              pieces |-> [i \in DOMAIN blobs |-> DeserializePiece(blobs[i])]]
<1> DEFINE n == Len(blobs)
           flat == Blobs(blobs)
           a == Sized(id)
           b == Sized(name)
           c == <<size, n>>
           r2 == c \o flat
           r1 == b \o r2
           stream == ((a \o b) \o c) \o flat
<1>0. n \in Nat /\ << >> \in Seq(Nat)
  OBVIOUS
<1>1. a \in Seq(Nat) /\ b \in Seq(Nat)
  BY <1>0, SizedNat
<1>2. flat \in Seq(Nat)
  <2> DEFINE e == [i \in 1 .. Len(blobs) |-> Sized(blobs[i])]
  <2>1. \A i \in 1 .. n : Sized(blobs[i]) \in Seq(Nat)
    <3>1. \A i \in 1 .. n : blobs[i] \in Seq(Nat)
      OBVIOUS
    <3>2. QED
      BY <1>0, <3>1, SizedNat
  <2>2. e \in [1 .. n -> Seq(Nat)]
    BY <2>1
  <2> HIDE DEF e
  <2>3. FlattenSeq(e) \in Seq(Nat)
    BY <1>0, <2>2, AsSequence, FlattenType
  <2>4. QED
    BY <2>3 DEF e, Blobs
<1>3. Many(n, flat, SizedCells).value = blobs
  BY ManySizedNat DEF Blobs
<1> HIDE DEF flat, n
<1>5. c \in Seq(Nat)
  BY <1>0
<1>6. /\ r2 \in Seq(Nat)
      /\ Head(r2) = size /\ Head(Tail(r2)) = n /\ Tail(Tail(r2)) = flat
  <2>1. /\ r2 \in Seq(Nat) /\ Len(r2) = Len(flat) + 2
        /\ r2[1] = size /\ r2[2] = n /\ \A i \in 1 .. Len(flat) : r2[i + 2] = flat[i]
    BY <1>0, <1>2
  <2> HIDE DEF r2
  <2>2. /\ Tail(r2) \in Seq(Nat) /\ Len(Tail(r2)) = Len(flat) + 1
        /\ \A i \in 1 .. Len(flat) + 1 : Tail(r2)[i] = r2[i + 1]
    BY <1>2, <2>1
  <2> DEFINE t == Tail(r2)
  <2> HIDE DEF t
  <2>3. t \in Seq(Nat) /\ Len(t) = Len(flat) + 1 /\ t[1] = n
        /\ \A i \in 1 .. Len(flat) : t[i + 1] = flat[i]
    BY <1>2, <2>1, <2>2 DEF t
  <2>4. Head(r2) = size /\ Head(t) = n
    BY <1>2, <2>1, <2>3
  <2>5. Tail(t) = flat
    <3>1. Tail(t) \in Seq(Nat) /\ Len(Tail(t)) = Len(flat)
      BY <1>2, <2>3
    <3>2. \A i \in 1 .. Len(flat) : Tail(t)[i] = flat[i]
      BY <1>2, <2>3
    <3>3. QED
      BY <1>2, <3>1, <3>2, SeqEqual
  <2>6. QED
    BY <2>1, <2>4, <2>5 DEF t
<1> HIDE DEF r2
<1>7. SizedCells(r1) = [value |-> name, rest |-> r2]
  BY <1>6, SizedNat
<1> HIDE DEF a, b, c
<1>8. r1 \in Seq(Nat)
  BY <1>1, <1>6
<1> HIDE DEF r1
<1>9. SizedCells(a \o r1) = [value |-> id, rest |-> r1]
  BY <1>8, SizedNat DEF a
<1>10. stream = a \o (b \o (c \o flat))
  <2>1. a \in Seq(Nat) /\ b \in Seq(Nat) /\ c \in Seq(Nat) /\ flat \in Seq(Nat)
    BY <1>1, <1>2, <1>5
  <2>2. Regroups(a, b, c, flat)
    BY <2>1, Regroup
  <2>3. QED
    BY <2>2 DEF Regroups
<1>11. stream = a \o r1
  BY <1>10 DEF r1, r2
<1> HIDE DEF stream
<1>12. SizedCells(stream).value = id /\ SizedCells(stream).rest = r1
  BY <1>9, <1>11
<1>13. SizedCells(r1).value = name /\ SizedCells(r1).rest = r2
  BY <1>7
<1>14. Number(r2).value = size /\ Number(r2).rest = Tail(r2)
  BY <1>6 DEF Number
<1>15. Number(Tail(r2)).value = n /\ Number(Tail(r2)).rest = flat
  BY <1>6 DEF Number
<1>17. DeserializeFile(stream)
         = [fileId |-> id, filename |-> name, fileSize |-> size, numPieces |-> n,
            pieces |-> [i \in DOMAIN blobs |-> DeserializePiece(blobs[i])]]
  BY <1>3, <1>12, <1>13, <1>14, <1>15 DEF DeserializeFile
<1>18. QED
  BY <1>17 DEF n, stream, a, b, c, flat

\* FileMetaData::deserialize reads what FileMetaData::serialize wrote, of every
\* file, with every number of pieces and of addresses for each.
THEOREM FileCodec ==
  ASSUME NEW m \in FileMetas
  PROVE  DeserializeFile(SerializeFile(m)) = m
<1> DEFINE n == m.numPieces
           ps == m.pieces
           blobs == [i \in 1 .. n |-> SerializePiece(ps[i])]
<1>1. /\ m = [fileId |-> m.fileId, filename |-> m.filename, fileSize |-> m.fileSize,
              numPieces |-> n, pieces |-> ps]
      /\ m.fileId \in Seq(Nat) /\ m.filename \in Seq(Nat) /\ m.fileSize \in Nat /\ n \in Nat
      /\ ps \in Seq(PieceMetas) /\ Len(ps) = n
  BY DEF FileMetas
<1> HIDE DEF n, ps
<1>2. \A i \in 1 .. n : ps[i] \in PieceMetas
  BY <1>1
<1>3. \A i \in 1 .. n : SerializePiece(ps[i]) \in Seq(Nat) /\ DeserializePiece(SerializePiece(ps[i])) = ps[i]
  BY <1>2, PieceCodec
<1>4. blobs \in Seq(Seq(Nat)) /\ Len(blobs) = n
  BY <1>1, <1>3, AsSequence
<1>5. \A i \in 1 .. n : blobs[i] = SerializePiece(ps[i])
  OBVIOUS
<1>6. Blobs(blobs) = FlattenSeq([i \in DOMAIN ps |-> Sized(SerializePiece(ps[i]))])
  <2>1. DOMAIN ps = 1 .. n
    BY <1>1
  <2> HIDE DEF blobs
  <2>2. [i \in 1 .. Len(blobs) |-> Sized(blobs[i])] = [i \in DOMAIN ps |-> Sized(SerializePiece(ps[i]))]
    BY <1>4, <1>5, <2>1
  <2>3. QED
    BY <2>2 DEF Blobs
<1> HIDE DEF blobs
<1>7. SerializeFile(m) = Sized(m.fileId) \o Sized(m.filename) \o <<m.fileSize, Len(blobs)>> \o Blobs(blobs)
  BY <1>4, <1>6 DEF SerializeFile, n, ps
<1>8. [i \in DOMAIN blobs |-> DeserializePiece(blobs[i])] = ps
  <2>1. DOMAIN blobs = 1 .. n /\ ps = [i \in 1 .. n |-> ps[i]]
    BY <1>1, <1>4
  <2>2. QED
    BY <1>3, <1>5, <2>1
<1> DEFINE Read == [i \in DOMAIN blobs |-> DeserializePiece(blobs[i])]
           Cut == Sized(m.fileId) \o Sized(m.filename) \o <<m.fileSize, Len(blobs)>> \o Blobs(blobs)
<1>9. DeserializeFile(Cut)
        = [fileId |-> m.fileId, filename |-> m.filename, fileSize |-> m.fileSize,
           numPieces |-> Len(blobs), pieces |-> Read]
  BY <1>1, <1>4, FileStream
<1> HIDE DEF Read, Cut
<1>10. SerializeFile(m) = Cut /\ Read = ps
  BY <1>7, <1>8 DEF Read, Cut
<1>11. QED
  BY <1>1, <1>4, <1>9, <1>10

\* The requests serialize_piece_request takes.
Requests ==
  [single : {s \in Seq(Nat) : Len(s) <= 1}, ranges : Seq({r \in Seq(Nat) : Len(r) = 2}),
   pieces : Seq(Nat)]

\* The three parts of a request, as DeserializeRequest reads them by the flags.
ReadSingle(stream) ==
  IF "single" \in Head(stream) THEN Cells(1, Tail(stream))
  ELSE [value |-> << >>, rest |-> Tail(stream)]
\* The ranges, if the flags say there are any.
ReadRanges(flags, stream) ==
  IF "ranges" \in flags THEN Many(Head(stream), Tail(stream), LAMBDA x : Cells(2, x))
  ELSE [value |-> << >>, rest |-> stream]
\* The pieces named one by one, if the flags say there are any.
ReadPieces(flags, stream) ==
  IF "pieces" \in flags THEN SizedCells(stream)
  ELSE [value |-> << >>, rest |-> stream]

\* DeserializeRequest is these three.
LEMMA RequestReading ==
  ASSUME NEW stream
  PROVE  DeserializeRequest(stream)
         = LET a == ReadSingle(stream)
               b == ReadRanges(Head(stream), a.rest)
               c == ReadPieces(Head(stream), b.rest)
           IN  [single |-> a.value, ranges |-> b.value, pieces |-> c.value]
BY DEF DeserializeRequest, ReadSingle, ReadRanges, ReadPieces, SizedMany

\* A sequence of at most one element, but not of none, has one.
LEMMA OneElement ==
  ASSUME NEW T, NEW s \in Seq(T), s # << >>, Len(s) <= 1
  PROVE  Len(s) = 1
<1>1. Len(s) # 0
  BY EmptySeq
<1>2. Len(s) \in Nat
  OBVIOUS
<1>3. QED
  BY <1>1, <1>2

\* The single piece is read back.
LEMMA SingleCodec ==
  ASSUME NEW s \in Seq(Nat), Len(s) <= 1, NEW F, "single" \in F <=> s # << >>,
         NEW r \in Seq(Nat), NEW stream, Head(stream) = F, Tail(stream) = s \o r
  PROVE  ReadSingle(stream) = [value |-> s, rest |-> r]
<1>1. CASE s = << >>
  <2>1. s \o r = r
    BY <1>1
  <2>2. QED
    BY <1>1, <2>1 DEF ReadSingle
<1>2. CASE s # << >>
  <2>2. Len(s) = 1
    BY <1>2, OneElement, Zenon
  <2>3. Cells(1, s \o r) = [value |-> s, rest |-> r]
    BY <2>2, CellsFirst
  <2>4. QED
    BY <1>2, <2>3 DEF ReadSingle
<1>3. QED
  BY <1>1, <1>2

\* What is written of the ranges.
RangesCells(s) == IF s = << >> THEN << >> ELSE <<Len(s)>> \o FlattenSeq(s)
\* What is written of the pieces named one by one.
PiecesCells(s) == IF s = << >> THEN << >> ELSE Sized(s)

\* Ranges behind their number.
LEMMA SizedRanges ==
  ASSUME NEW s \in Seq(Seq(Nat)), \A i \in 1 .. Len(s) : Len(s[i]) = 2, NEW r \in Seq(Nat)
  PROVE  /\ <<Len(s)>> \o FlattenSeq(s) \in Seq(Nat)
         /\ Head(<<Len(s)>> \o FlattenSeq(s) \o r) = Len(s)
         /\ Many(Len(s), Tail(<<Len(s)>> \o FlattenSeq(s) \o r), LAMBDA x : Cells(2, x))
              = [value |-> s, rest |-> r]
<1> DEFINE flat == FlattenSeq(s)
<1>1. 2 \in Nat
  OBVIOUS
<1>2. Many(Len(s), FlattenSeq(s) \o r, LAMBDA x : Cells(2, x)) = [value |-> s, rest |-> r]
  BY <1>1, ManyCells
<1>3. flat \in Seq(Nat) /\ Len(s) \in Nat
  BY FlattenType
<1> HIDE DEF flat
<1>4. <<Len(s)>> \o flat \in Seq(Nat)
  BY <1>3
<1>5. /\ Head(<<Len(s)>> \o flat \o r) = Len(s)
      /\ Tail(<<Len(s)>> \o flat \o r) = flat \o r
  BY <1>3, OneCell
<1>6. QED
  BY <1>2, <1>4, <1>5 DEF flat

\* The ranges are read back.
LEMMA RangesCodec ==
  ASSUME NEW s \in Seq(Seq(Nat)), \A i \in 1 .. Len(s) : Len(s[i]) = 2,
         NEW F, "ranges" \in F <=> s # << >>, NEW r \in Seq(Nat)
  PROVE  /\ RangesCells(s) \in Seq(Nat)
         /\ ReadRanges(F, RangesCells(s) \o r) = [value |-> s, rest |-> r]
<1>1. CASE s = << >>
  <2>1. << >> \o r = r
    OBVIOUS
  <2>2. QED
    BY <1>1, <2>1 DEF ReadRanges, RangesCells
<1>2. CASE s # << >>
  BY <1>2, SizedRanges DEF ReadRanges, RangesCells
<1>3. QED
  BY <1>1, <1>2

\* And the pieces named one by one.
LEMMA PiecesCodec ==
  ASSUME NEW s \in Seq(Nat), NEW F, "pieces" \in F <=> s # << >>
  PROVE  /\ PiecesCells(s) \in Seq(Nat)
         /\ ReadPieces(F, PiecesCells(s)) = [value |-> s, rest |-> << >>]
<1>1. CASE s = << >>
  BY <1>1 DEF ReadPieces, PiecesCells
<1>2. CASE s # << >>
  <2>1. << >> \in Seq(Nat)
    OBVIOUS
  <2>2. Sized(s) \in Seq(Nat)
    BY <2>1, SizedNat
  <2>3. SizedCells(Sized(s)) = [value |-> s, rest |-> << >>]
    BY SizedAlone
  <2>4. QED
    BY <1>2, <2>2, <2>3 DEF ReadPieces, PiecesCells
<1>3. QED
  BY <1>1, <1>2

\* A sequence over a set is one over a larger set.
LEMMA Widen ==
  ASSUME NEW S, NEW T, S \subseteq T, NEW a \in Seq(S)
  PROVE  a \in Seq(T)
OBVIOUS

\* A request begins with its flags, and three parts follow.
Flagged(F, a, b, c) ==
  /\ Head(<<F>> \o a \o b \o c) = F
  /\ Tail(<<F>> \o a \o b \o c) = a \o (b \o c)

\* Every stream of that form does.
LEMMA FlagsFirst ==
  ASSUME NEW F, NEW a \in Seq(Nat), NEW b \in Seq(Nat), NEW c \in Seq(Nat)
  PROVE  Flagged(F, a, b, c)
<1> DEFINE T == Nat \cup {F}
           f == <<F>>
<1>1. f \in Seq(T) /\ a \in Seq(T) /\ b \in Seq(T) /\ c \in Seq(T)
  <2>1. Nat \subseteq T
    OBVIOUS
  <2>2. f \in Seq(T)
    OBVIOUS
  <2> HIDE DEF T
  <2>3. QED
    BY <2>1, <2>2, Widen
<1>2. Regroups(f, a, b, c)
  <2> HIDE DEF T, f
  <2>1. QED
    BY <1>1, Regroup
<1>3. <<F>> \o a \o b \o c = <<F>> \o (a \o (b \o c))
  BY <1>2 DEF Regroups
<1> DEFINE x == a \o (b \o c)
<1>4. x \in Seq(Nat)
  OBVIOUS
<1> HIDE DEF x
<1>5. Head(<<F>> \o x) = F /\ Tail(<<F>> \o x) = x
  BY <1>4
<1>6. QED
  BY <1>3, <1>5 DEF x, Flagged

\* The parts of a request.
LEMMA RequestFields ==
  ASSUME NEW req \in Requests
  PROVE  /\ req = [single |-> req.single, ranges |-> req.ranges, pieces |-> req.pieces]
         /\ req.single \in Seq(Nat) /\ Len(req.single) <= 1
         /\ req.ranges \in Seq(Seq(Nat))
         /\ \A i \in 1 .. Len(req.ranges) : Len(req.ranges[i]) = 2
         /\ req.pieces \in Seq(Nat)
<1> DEFINE b == req.ranges
<1>1. b \in Seq({r \in Seq(Nat) : Len(r) = 2})
  BY DEF Requests
<1> HIDE DEF b
<1>2. \A i \in 1 .. Len(b) : b[i] \in Seq(Nat) /\ Len(b[i]) = 2
  BY <1>1
<1>3. b \in Seq(Seq(Nat))
  BY <1>1, <1>2
<1>4. QED
  BY <1>2, <1>3 DEF b, Requests

\* deserialize_piece_request reads what serialize_piece_request wrote, of every
\* request: one piece or none, any ranges, any pieces named one by one.
THEOREM RequestCodec ==
  ASSUME NEW req \in Requests
  PROVE  DeserializeRequest(SerializeRequest(req)) = req
<1> DEFINE a == req.single
           b == req.ranges
           c == req.pieces
           F == types(req)
           bs == RangesCells(b)
           cs == PiecesCells(c)
           stream == <<F>> \o a \o bs \o cs
<1>1. /\ req = [single |-> a, ranges |-> b, pieces |-> c]
      /\ a \in Seq(Nat) /\ Len(a) <= 1 /\ c \in Seq(Nat)
      /\ b \in Seq(Seq(Nat)) /\ \A i \in 1 .. Len(b) : Len(b[i]) = 2
  BY RequestFields
<1>2. /\ "single" \in F <=> a # << >>
      /\ "ranges" \in F <=> b # << >>
      /\ "pieces" \in F <=> c # << >>
  BY DEF types, Requests
<1>3. SerializeRequest(req) = stream
  BY <1>1, <1>2 DEF SerializeRequest, RangesCells, PiecesCells
<1> HIDE DEF a, b, c, F
<1>4. cs \in Seq(Nat) /\ ReadPieces(F, cs) = [value |-> c, rest |-> << >>]
  BY <1>1, <1>2, PiecesCodec
<1> HIDE DEF cs
<1>5. bs \in Seq(Nat) /\ ReadRanges(F, bs \o cs) = [value |-> b, rest |-> cs]
  BY <1>1, <1>2, <1>4, RangesCodec
<1> HIDE DEF bs
<1>6. Head(stream) = F /\ Tail(stream) = a \o (bs \o cs)
  <2>1. Flagged(F, a, bs, cs)
    BY <1>1, <1>4, <1>5, FlagsFirst
  <2>2. QED
    BY <2>1 DEF Flagged
<1> HIDE DEF stream
<1> DEFINE r == bs \o cs
<1>7. r \in Seq(Nat)
  BY <1>4, <1>5
<1>8. Tail(stream) = a \o r /\ ReadRanges(F, r) = [value |-> b, rest |-> cs]
  BY <1>5, <1>6
<1> HIDE DEF r
<1>9. ReadSingle(stream) = [value |-> a, rest |-> r]
  BY <1>1, <1>2, <1>6, <1>7, <1>8, SingleCodec
<1>10. /\ Head(stream) = F /\ ReadSingle(stream).value = a /\ ReadSingle(stream).rest = r
       /\ ReadRanges(F, r).value = b /\ ReadRanges(F, r).rest = cs
       /\ ReadPieces(F, cs).value = c
  BY <1>4, <1>6, <1>8, <1>9
<1>11. DeserializeRequest(stream) = [single |-> a, ranges |-> b, pieces |-> c]
  BY <1>10, RequestReading
<1>12. QED
  BY <1>1, <1>3, <1>11

\* The pieces in their order.
InOrder(n) == [k \in 1 .. n |-> k - 1]
\* A request for all of n pieces: start()'s range, and a mixture of all forms.
Whole(n) == [single |-> << >>, ranges |-> <<<<0, n - 1>>>>, pieces |-> << >>]
\* The mixture.
Mixed(n) ==
  [single |-> <<0>>,
   ranges |-> IF n > 2 THEN <<<<1, n - 2>>>> ELSE << >>,
   pieces |-> IF n > 1 THEN <<n - 1>> ELSE << >>]

\* RequestCodec applies to them.
LEMMA WholeAndMixedAreRequests ==
  ASSUME NEW n \in Nat \ {0}
  PROVE  Whole(n) \in Requests /\ Mixed(n) \in Requests
<1>1. << >> \in Seq(Nat) /\ Len(<< >>) = 0 /\ <<0>> \in Seq(Nat) /\ Len(<<0>>) = 1
  OBVIOUS
<1>2. <<n - 1>> \in Seq(Nat)
  OBVIOUS
<1>3. <<0, n - 1>> \in {r \in Seq(Nat) : Len(r) = 2}
  OBVIOUS
<1>4. n > 2 => <<1, n - 2>> \in {r \in Seq(Nat) : Len(r) = 2}
  OBVIOUS
<1> DEFINE P == {r \in Seq(Nat) : Len(r) = 2}
<1> HIDE DEF P
<1>5. <<<<0, n - 1>>>> \in Seq(P)
  BY <1>3 DEF P
<1>6. (IF n > 2 THEN <<<<1, n - 2>>>> ELSE << >>) \in Seq(P)
  <2>1. CASE n > 2
    <3> DEFINE x == <<1, n - 2>>
    <3>1. x \in P
      BY <1>4, <2>1 DEF P
    <3> HIDE DEF x
    <3>2. <<x>> \in Seq(P)
      BY <3>1
    <3>3. QED
      BY <2>1, <3>2 DEF x
  <2>2. CASE ~(n > 2)
    BY <2>2
  <2>3. QED
    BY <2>1, <2>2
<1>7. (IF n > 1 THEN <<n - 1>> ELSE << >>) \in Seq(Nat)
  BY <1>1, <1>2
<1>8. Whole(n) \in Requests
  BY <1>1, <1>5 DEF Whole, Requests, P
<1>9. Mixed(n) \in Requests
  BY <1>1, <1>6, <1>7 DEF Mixed, Requests, P
<1>10. QED
  BY <1>8, <1>9

\* One sequence put together is itself.
LEMMA FlattenOne ==
  ASSUME NEW T, NEW a \in Seq(T), NEW s, s = <<a>>
  PROVE  FlattenSeq(s) = a
<1>1. s \in Seq(Seq(T)) /\ s # << >> /\ s[1] = a /\ Tail(s) = << >>
  OBVIOUS
<1>2. FlattenSeq(s) = a \o FlattenSeq(<< >>)
  <2>1. FlattenSeq(s) = s[1] \o FlattenSeq(Tail(s))
    BY <1>1, FlattenCons
  <2>2. QED
    BY <1>1, <2>1
<1>3. FlattenSeq(<< >>) = << >>
  BY DEF FlattenSeq
<1>4. QED
  BY <1>2, <1>3

\* The server goes once through every piece of a range that asks for them all.
THEOREM WholeWalk ==
  ASSUME NEW n \in Nat \ {0}
  PROVE  Walk(Whole(n)) = InOrder(n)
<1> DEFINE w == InOrder(n)
<1>1. w \in [1 .. n -> Nat] /\ w \in Seq(Nat)
  <2>1. w \in [1 .. n -> Nat]
    BY DEF InOrder
  <2>2. QED
    BY <2>1, AsSequence
<1>2. [i \in DOMAIN Whole(n).ranges |-> Interval(Whole(n).ranges[i])] = <<w>>
  <2>1. Interval(<<0, n - 1>>) = w
    BY DEF Interval, InOrder
  <2> HIDE DEF w
  <2> DEFINE r == <<0, n - 1>>
  <2> HIDE DEF r
  <2>2. [i \in DOMAIN <<r>> |-> Interval(<<r>>[i])] = <<Interval(r)>>
    OBVIOUS
  <2>3. Whole(n).ranges = <<r>>
    BY DEF Whole, r
  <2>4. QED
    BY <2>1, <2>2, <2>3 DEF r
<1> HIDE DEF w
<1>3. FlattenSeq([i \in DOMAIN Whole(n).ranges |-> Interval(Whole(n).ranges[i])]) = w
  BY <1>1, <1>2, FlattenOne
<1>4. (<< >> \o w) \o << >> = w
  BY <1>1
<1>5. QED
  BY <1>3, <1>4 DEF Walk, w, Whole

\* And of a mixture: no piece is left out or sent twice where its parts meet.
THEOREM MixedWalk ==
  ASSUME NEW n \in Nat \ {0}
  PROVE  Walk(Mixed(n)) = InOrder(n)
<1> DEFINE first == <<0>>
           last == IF n > 1 THEN <<n - 1>> ELSE << >>
           middle == [i \in 1 .. n - 2 |-> i]
           w == InOrder(n)
<1>1. Walk(Mixed(n)) = first \o FlattenSeq([i \in DOMAIN Mixed(n).ranges |-> Interval(Mixed(n).ranges[i])]) \o last
  BY DEF Walk, Mixed
<1>2. FlattenSeq(<< >>) = << >>
  BY DEF FlattenSeq
<1>3. n <= 2 => FlattenSeq([i \in DOMAIN Mixed(n).ranges |-> Interval(Mixed(n).ranges[i])]) = << >>
  <2> HAVE n <= 2
  <2>1. Mixed(n).ranges = << >>
    BY DEF Mixed
  <2>2. [i \in DOMAIN Mixed(n).ranges |-> Interval(Mixed(n).ranges[i])] = << >>
    BY <2>1
  <2>3. QED
    BY <1>2, <2>2
<1>4. CASE n = 1
  <2>1. Walk(Mixed(n)) = first \o << >> \o last
    BY <1>1, <1>3, <1>4
  <2>2. InOrder(1) = <<0>>
    BY DEF InOrder
  <2>3. <<0>> \o << >> \o << >> = <<0>>
    OBVIOUS
  <2>4. QED
    BY <1>4, <2>1, <2>2, <2>3
<1>5. CASE n > 1
  <2>1. middle \in [1 .. n - 2 -> Nat] /\ middle \in Seq(Nat) /\ n - 2 \in Nat
    <3>1. middle \in [1 .. n - 2 -> Nat] /\ n - 2 \in Nat
      BY <1>5
    <3> HIDE DEF middle
    <3>2. QED
      BY <3>1, AsSequence
  <2>2. n > 2 => [i \in DOMAIN Mixed(n).ranges |-> Interval(Mixed(n).ranges[i])] = <<middle>>
    <3> HAVE n > 2
    <3> DEFINE r == <<1, n - 2>>
    <3>1. Interval(r) = middle
      BY DEF Interval
    <3> HIDE DEF middle
    <3>2. Mixed(n).ranges = <<r>>
      BY DEF Mixed
    <3> HIDE DEF r
    <3>3. [i \in DOMAIN <<r>> |-> Interval(<<r>>[i])] = <<Interval(r)>>
      OBVIOUS
    <3>4. QED
      BY <3>1, <3>2, <3>3
  <2>3. \A i \in 1 .. n - 2 : middle[i] = i
    OBVIOUS
  <2> HIDE DEF middle
  <2>4. FlattenSeq([i \in DOMAIN Mixed(n).ranges |-> Interval(Mixed(n).ranges[i])]) = middle
    <3>1. CASE n > 2
      BY <2>1, <2>2, <3>1, FlattenOne
    <3>2. CASE n = 2
      <4>1. middle = << >>
        BY <2>1, <3>2, EmptySeq
      <4>2. QED
        BY <1>3, <3>2, <4>1
    <3>3. QED
      BY <1>5, <3>1, <3>2
  <2>5. Walk(Mixed(n)) = first \o middle \o <<n - 1>>
    <3>1. last = <<n - 1>>
      BY <1>5
    <3> HIDE DEF first, last
    <3>2. QED
      BY <1>1, <2>4, <3>1
  <2>6. w \in Seq(Nat) /\ Len(w) = n /\ \A k \in 1 .. n : w[k] = k - 1
    <3>1. w \in [1 .. n -> Nat] /\ n \in Nat /\ \A k \in 1 .. n : w[k] = k - 1
      BY DEF InOrder
    <3> HIDE DEF w
    <3>2. QED
      BY <3>1, AsSequence
  <2>7. Len(middle) = n - 2
    BY <2>1
  <2> HIDE DEF w
  <2> DEFINE v == first \o middle \o <<n - 1>>
  <2>8. v \in Seq(Nat) /\ Len(v) = n
    BY <2>1, <2>7
  <2>9. ASSUME NEW k \in 1 .. n
        PROVE  v[k] = k - 1
    <3>1. CASE k = 1
      BY <2>1, <2>7, <3>1
    <3>2. CASE k = n
      BY <1>5, <2>1, <2>7, <3>2
    <3>3. CASE k # 1 /\ k # n
      <4>1. k - 1 \in 1 .. n - 2
        BY <3>3
      <4>2. v[k] = middle[k - 1]
        BY <2>1, <2>7, <4>1
      <4>3. QED
        BY <2>3, <4>1, <4>2
    <3>4. QED
      BY <3>1, <3>2, <3>3
  <2> HIDE DEF v
  <2>10. v = w
    BY <2>6, <2>8, <2>9, SeqEqual
  <2>11. QED
    BY <2>5, <2>10 DEF v, w
<1>6. QED
  BY <1>4, <1>5

\* How a sequence of sequences grows as they are put together.
LEMMA FlattenLength ==
  ASSUME NEW T, NEW v \in Seq(Seq(T))
  PROVE  \E l \in [0 .. Len(v) -> Nat] :
           /\ l[0] = 0 /\ l[Len(v)] = Len(FlattenSeq(v))
           /\ \A i \in 0 .. Len(v) - 1 : l[i + 1] = l[i] + Len(v[i + 1])
<1> DEFINE n == Len(v)
<1>1. n \in Nat /\ \A i \in 1 .. n : v[i] \in Seq(T)
  OBVIOUS
<1>2. CASE n = 0
  <2>1. Len(FlattenSeq(v)) = 0
    BY <1>2 DEF FlattenSeq
  <2> DEFINE z == [i \in 0 .. n |-> 0]
  <2>2. z \in [0 .. n -> Nat] /\ z[0] = 0 /\ z[n] = 0
    BY <1>2
  <2> HIDE DEF z
  <2>3. \A i \in 0 .. n - 1 : z[i + 1] = z[i] + Len(v[i + 1])
    BY <1>2
  <2>4. QED
    BY <2>1, <2>2, <2>3
<1>3. CASE n # 0
  <2>1. PICK f \in Partials(T, v) : FlattenSeq(v) = f[n]
    BY <1>3, FlattenDef
  <2>2. /\ f \in [1 .. n -> Seq(T)] /\ f[1] = v[1]
        /\ \A i \in 1 .. n - 1 : f[i + 1] = f[i] \o v[i + 1]
    BY <2>1 DEF Partials
  <2> HIDE DEF n
  <2> DEFINE l == [i \in 0 .. n |-> IF i = 0 THEN 0 ELSE Len(f[i])]
  <2>3. \A i \in 1 .. n : Len(f[i]) \in Nat
    BY <2>2
  <2>4. l \in [0 .. n -> Nat]
    BY <1>1, <2>3
  <2>5. l[0] = 0 /\ \A i \in 1 .. n : l[i] = Len(f[i])
    BY <1>1
  <2> HIDE DEF l
  <2>6. ASSUME NEW i \in 0 .. n - 1
        PROVE  l[i + 1] = l[i] + Len(v[i + 1])
    <3>1. l[i + 1] = Len(f[i + 1]) /\ Len(v[i + 1]) \in Nat
      BY <1>1, <2>5
    <3>2. CASE i = 0
      BY <2>2, <2>5, <3>1, <3>2
    <3>3. CASE i # 0
      <4>1. i \in 1 .. n - 1 /\ i \in 1 .. n /\ i + 1 \in 1 .. n
        BY <1>1, <3>3
      <4>2. f[i] \in Seq(T) /\ v[i + 1] \in Seq(T) /\ f[i + 1] = f[i] \o v[i + 1]
        BY <1>1, <2>2, <4>1
      <4>3. Len(f[i] \o v[i + 1]) = Len(f[i]) + Len(v[i + 1])
        BY <4>2
      <4>4. l[i] = Len(f[i])
        BY <2>5, <4>1
      <4>5. QED
        BY <3>1, <4>2, <4>3, <4>4
    <3>4. QED
      BY <3>2, <3>3
  <2>7. l[n] = Len(FlattenSeq(v))
    BY <1>1, <1>3, <2>1, <2>5
  <2>8. QED
    BY <2>4, <2>5, <2>6, <2>7 DEF n
<1>4. QED
  BY <1>2, <1>3

\* What rises step by step is never more than in the end.
LEMMA Rising ==
  ASSUME NEW n \in Nat, NEW l \in [0 .. n -> Nat], \A i \in 0 .. n - 1 : l[i] <= l[i + 1]
  PROVE  \A i \in 0 .. n : l[i] <= l[n]
<1> DEFINE E == {j \in Nat : j <= n => l[n - j] <= l[n]}
<1>1. 0 \in E
  OBVIOUS
<1>2. ASSUME NEW j \in Nat, j \in E
      PROVE  j + 1 \in E
  <2> SUFFICES ASSUME j + 1 <= n PROVE l[n - (j + 1)] <= l[n]
    OBVIOUS
  <2>1. n - (j + 1) \in 0 .. n - 1 /\ (n - (j + 1)) + 1 = n - j /\ n - j \in 0 .. n
    OBVIOUS
  <2>2. l[n - (j + 1)] <= l[n - j]
    BY <2>1
  <2>3. l[n - j] <= l[n]
    BY <1>2
  <2>4. l[n - (j + 1)] \in Nat /\ l[n - j] \in Nat /\ l[n] \in Nat
    BY <2>1
  <2>5. QED
    BY <2>2, <2>3, <2>4
<1> HIDE DEF E
<1>3. Nat \subseteq E
  BY <1>1, <1>2, NatInd
<1>4. ASSUME NEW i \in 0 .. n
      PROVE  l[i] <= l[n]
  <2>1. n - i \in Nat /\ n - i <= n /\ n - (n - i) = i
    OBVIOUS
  <2>2. QED
    BY <1>3, <2>1 DEF E
<1>5. QED
  BY <1>4

\* The pieces of a range, which has none if it ends just before its start.
LEMMA Intervals ==
  ASSUME NEW r \in Seq(Nat), Len(r) = 2, r[1] <= r[2] + 1
  PROVE  /\ Interval(r) \in Seq(Nat)
         /\ r[2] - r[1] + 1 \in Nat /\ Len(Interval(r)) = r[2] - r[1] + 1
<1> DEFINE m == r[2] - r[1] + 1
<1>1. r[1] \in Nat /\ r[2] \in Nat /\ m \in Nat
  <2>1. r[1] \in Nat /\ r[2] \in Nat
    OBVIOUS
  <2>2. \A a, b \in Nat : a <= b + 1 => b - a + 1 \in Nat
    OBVIOUS
  <2>3. QED
    BY <2>1, <2>2
<1>2. Interval(r) \in [1 .. m -> Nat]
  <2>1. \A i \in 1 .. m : r[1] + i - 1 \in Nat
    BY <1>1
  <2>2. QED
    BY <2>1 DEF Interval
<1> HIDE DEF m
<1>3. QED
  BY <1>1, <1>2, AsSequence DEF m

\* The client counts what the server goes through, whatever the request, if the
\* number fits the width that it is counted in.
THEOREM CountIsWalk ==
  ASSUME NEW req \in Requests, Len(Walk(req)) < SizeMod,
         \A i \in 1 .. Len(req.ranges) : req.ranges[i][1] <= req.ranges[i][2] + 1
  PROVE  total_pieces(req) = Len(Walk(req))
<1> DEFINE n == Len(req.ranges)
           first == Len(req.single)
           last == Len(req.pieces)
           v == [i \in DOMAIN req.ranges |-> Interval(req.ranges[i])]
<1>1. /\ n \in Nat /\ first \in Nat /\ last \in Nat
      /\ req.single \in Seq(Nat) /\ req.pieces \in Seq(Nat) /\ DOMAIN req.ranges = 1 .. n
  BY RequestFields
<1>2. \A i \in 1 .. n : /\ Interval(req.ranges[i]) \in Seq(Nat)
                        /\ req.ranges[i][2] - req.ranges[i][1] + 1 \in Nat
                        /\ Len(Interval(req.ranges[i])) = req.ranges[i][2] - req.ranges[i][1] + 1
  BY RequestFields, Intervals
<1>3. v \in Seq(Seq(Nat)) /\ Len(v) = n /\ \A i \in 1 .. n : v[i] = Interval(req.ranges[i])
  <2>1. v \in [1 .. n -> Seq(Nat)] /\ \A i \in 1 .. n : v[i] = Interval(req.ranges[i])
    BY <1>1, <1>2
  <2> HIDE DEF v, n
  <2>2. QED
    BY <1>1, <2>1, AsSequence
<1>4. Walk(req) = req.single \o FlattenSeq(v) \o req.pieces
  BY DEF Walk
<1> HIDE DEF v
<1>5. PICK l \in [0 .. n -> Nat] :
        /\ l[0] = 0 /\ l[n] = Len(FlattenSeq(v))
        /\ \A i \in 0 .. n - 1 : l[i + 1] = l[i] + Len(v[i + 1])
  BY <1>3, FlattenLength
<1>6. Len(Walk(req)) = first + l[n] + last
  <2>1. FlattenSeq(v) \in Seq(Nat)
    BY <1>3, FlattenType
  <2>2. QED
    BY <1>1, <1>4, <1>5, <2>1
<1> HIDE DEF n, first, last
<1>7. \A i \in 0 .. n - 1 : Len(v[i + 1]) \in Nat
  BY <1>1, <1>3
<1>8. \A i \in 0 .. n : l[i] \in Nat /\ l[i] <= l[n]
  <2>1. ASSUME NEW i \in 0 .. n - 1
        PROVE  l[i] <= l[i + 1]
    <3>1. l[i] \in Nat /\ Len(v[i + 1]) \in Nat /\ l[i + 1] = l[i] + Len(v[i + 1])
      BY <1>1, <1>5, <1>7
    <3>2. QED
      BY <3>1
  <2>2. QED
    BY <1>1, <1>5, <2>1, Rising
<1> DEFINE g == [i \in 0 .. n |-> first + l[i]]
<1>9. \A i \in 0 .. n : g[i] = first + l[i]
  OBVIOUS
<1>10. DOMAIN g = 0 .. n /\ g = [i \in 0 .. n |-> g[i]]
  OBVIOUS
<1> HIDE DEF g
<1>11. ASSUME NEW i \in 1 .. n
       PROVE  g[i] = (g[i - 1] + RangeSize(req.ranges[i])) % SizeMod
  <2> DEFINE size == req.ranges[i][2] - req.ranges[i][1] + 1
  <2>1. i - 1 \in 0 .. n - 1 /\ (i - 1) + 1 = i /\ i \in 0 .. n /\ i - 1 \in 0 .. n
    BY <1>1
  <2>2. Len(v[i]) = size /\ size \in Nat
    BY <1>2, <1>3
  <2>3. l[i] = l[i - 1] + size
    BY <1>5, <2>1, <2>2
  <2> HIDE DEF size
  <2>4. RangeSize(req.ranges[i]) = size % SizeMod
    BY DEF RangeSize, size
  <2>5. SizeMod \in Nat /\ first + l[n] + last < SizeMod
    BY <1>6, WireAssumption
  <2>6. l[i - 1] \in Nat /\ l[i] \in Nat /\ l[i] <= l[n] /\ l[n] \in Nat
    BY <1>1, <1>8, <2>1
  <2>7. size < SizeMod /\ first + l[i] \in 0 .. SizeMod - 1
    <3>1. first \in Nat /\ last \in Nat /\ size \in Nat
      BY <1>1, <2>2
    <3>2. \A a, b, c, d, s \in Nat :
            (b = a + s /\ b <= c /\ first + c + d < SizeMod)
              => s < SizeMod /\ first + b \in 0 .. SizeMod - 1
      BY <2>5, <3>1
    <3>3. QED
      BY <2>3, <2>5, <2>6, <3>1, <3>2
  <2>8. \A m \in 0 .. SizeMod - 1 : m % SizeMod = m
    BY <2>5
  <2>9. RangeSize(req.ranges[i]) = size
    <3>1. size \in 0 .. SizeMod - 1
      BY <2>2, <2>5, <2>7
    <3>2. size % SizeMod = size
      BY <2>8, <3>1
    <3>3. QED
      BY <2>4, <3>2, Zenon
  <2>10. g[i] = first + l[i] /\ g[i - 1] = first + l[i - 1]
    BY <1>9, <2>1
  <2>11. g[i] = g[i - 1] + size
    BY <1>1, <2>2, <2>3, <2>6, <2>10
  <2>12. g[i] % SizeMod = g[i]
    <3>1. g[i] \in 0 .. SizeMod - 1
      BY <2>7, <2>10
    <3>2. QED
      BY <2>8, <3>1
  <2>13. QED
    BY <2>9, <2>11, <2>12
<1>12. g[0] = first
  BY <1>1, <1>5, <1>9
<1> DEFINE f == CHOOSE f : f = [i \in 0 .. Len(req.ranges) |->
                                 IF i = 0 THEN Len(req.single)
                                 ELSE (f[i - 1] + RangeSize(req.ranges[i])) % SizeMod]
<1>13. total_pieces(req) = f[n] + last
  BY DEF total_pieces, n, last
<1>14. f = [i \in 0 .. n |-> IF i = 0 THEN first
                             ELSE (f[i - 1] + RangeSize(req.ranges[i])) % SizeMod]
  <2> DEFINE h == [i \in 0 .. n |-> IF i = 0 THEN first
                                    ELSE (g[i - 1] + RangeSize(req.ranges[i])) % SizeMod]
  <2>1. \A i \in 0 .. n : i = 0 \/ i \in 1 .. n
    BY <1>1
  <2>2. \A i \in 0 .. n : h[i] = IF i = 0 THEN first
                                 ELSE (g[i - 1] + RangeSize(req.ranges[i])) % SizeMod
    OBVIOUS
  <2>3. DOMAIN h = 0 .. n /\ h = [i \in 0 .. n |-> h[i]]
    OBVIOUS
  <2> HIDE DEF h
  <2>4. \A i \in 0 .. n : h[i] = g[i]
    BY <1>11, <1>12, <2>1, <2>2
  <2>5. g = h
    BY <1>10, <2>3, <2>4
  <2>6. g = [i \in 0 .. n |-> IF i = 0 THEN first
                              ELSE (g[i - 1] + RangeSize(req.ranges[i])) % SizeMod]
    BY <2>5 DEF h
  <2>7. QED
    BY <2>6 DEF n, first
<1> HIDE DEF f
<1>15. f[0] = first /\ \A i \in 1 .. n : f[i] = (f[i - 1] + RangeSize(req.ranges[i])) % SizeMod
  BY <1>1, <1>14
<1>16. f[n] = g[n]
  <2>1. ASSUME NEW i \in 0 .. n - 1, f[i] = g[i]
        PROVE  f[i + 1] = g[i + 1]
    <3>1. i + 1 \in 1 .. n /\ (i + 1) - 1 = i
      BY <1>1
    <3>2. QED
      BY <1>11, <1>15, <2>1, <3>1
  <2>2. f[0] = g[0]
    BY <1>12, <1>15
  <2>3. QED
    BY <1>1, <2>1, <2>2, SameUpTo
<1>17. QED
  BY <1>1, <1>6, <1>9, <1>13, <1>16

\* So it waits for as many answers as there are pieces.
THEOREM WholeAndMixedCount ==
  ASSUME NEW n \in Nat \ {0}, n < SizeMod
  PROVE  total_pieces(Whole(n)) = n /\ total_pieces(Mixed(n)) = n
<1>1. Whole(n) \in Requests /\ Mixed(n) \in Requests
  BY WholeAndMixedAreRequests
<1>2. Walk(Whole(n)) = InOrder(n) /\ Walk(Mixed(n)) = InOrder(n)
  BY WholeWalk, MixedWalk
<1>3. Len(InOrder(n)) = n
  <2>1. InOrder(n) \in [1 .. n -> Nat]
    BY DEF InOrder
  <2>2. QED
    BY <2>1, AsSequence
<1>4. \A i \in 1 .. Len(Whole(n).ranges) : Whole(n).ranges[i][1] <= Whole(n).ranges[i][2] + 1
  BY DEF Whole
<1>5. \A i \in 1 .. Len(Mixed(n).ranges) : Mixed(n).ranges[i][1] <= Mixed(n).ranges[i][2] + 1
  <2>1. CASE n > 2
    <3>1. Mixed(n).ranges = <<<<1, n - 2>>>>
      BY <2>1 DEF Mixed
    <3>2. QED
      BY <2>1, <3>1
  <2>2. CASE n <= 2
    BY <2>2 DEF Mixed
  <2>3. QED
    BY <2>1, <2>2
<1> HIDE DEF Requests
<1>6. QED
  BY <1>1, <1>2, <1>3, <1>4, <1>5, CountIsWalk
==============================================================================
