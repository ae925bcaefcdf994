----------------------------- MODULE LogProofs -----------------------------
(***************************************************************************)
(* Proofs about what HubLink sends of the logs, for every log and every    *)
(* bound: cutting a log into chunks keeps every line of it and its place,  *)
(* no chunk is larger than it may be, all types and bounds hold, and the   *)
(* Hub gets the lines in their order.  Sums, the flattening of sequences   *)
(* and the cutting of a log are recursive functions: what is proved about  *)
(* them is proved by induction, which is drawn here from the fact that the *)
(* order of the natural numbers is well-founded.                           *)
(***************************************************************************)
EXTENDS HubLinkProofs, WellFoundedInduction

-----------------------------------------------------------------------------
(* Induction and sums. *)

\* Induction over the natural numbers, for a set: the numbers that are not in it have no least
\* one.
LEMMA NatInduct ==
    ASSUME NEW S \in SUBSET Nat, 0 \in S, \A n \in S : n + 1 \in S
    PROVE  S = Nat
<1>1. SUFFICES ASSUME S # Nat PROVE FALSE
  OBVIOUS
<1> DEFINE T == Nat \ S
<1>2. T \subseteq Nat /\ T # {}
  BY <1>1
<1>3. PICK x \in T : \A y \in T : ~ (<<y, x>> \in OpToRel(<, Nat))
  BY <1>2, NatLessThanWellFounded, WFMin
<1>4. \A y \in T : ~(y < x)
  BY <1>2, <1>3 DEF OpToRel
<1>5. x # 0 /\ x \in Nat
  BY <1>2
<1>6. x - 1 \in Nat /\ x - 1 < x
  BY <1>5
<1>7. x - 1 \in S
  BY <1>4, <1>6
<1>8. (x - 1) + 1 \in S
  BY <1>7
<1>9. QED
  BY <1>8, <1>5

\* A function that starts with `base' and makes the step n to come to n.
Iterates(f, m, base, step) == f[0] = base /\ \A n \in 1..m : f[n] = step[n][f[n - 1]]
Steps(m, S) == [1..m -> [S -> S]]

\* There is a function that makes m steps.
LEMMA Recursion ==
    ASSUME NEW m \in Nat, NEW S, NEW base \in S, NEW step \in Steps(m, S)
    PROVE  \E f \in [0..m -> S] : Iterates(f, m, base, step)
<1> USE DEF Steps, Iterates
<1> DEFINE Upto(k, f) == f[0] = base /\ \A n \in 1..k : f[n] = step[n][f[n - 1]]
            T == {k \in Nat : k <= m => \E f \in [0..k -> S] : Upto(k, f)}
<1>1. T \in SUBSET Nat
  OBVIOUS
<1>2. 0 \in T
  <2>1. [i \in 0..0 |-> base] \in [0..0 -> S]
    OBVIOUS
  <2>2. Upto(0, [i \in 0..0 |-> base])
    OBVIOUS
  <2> QED
    BY <2>1, <2>2
<1>3. ASSUME NEW k \in T PROVE k + 1 \in T
  <2>1. SUFFICES ASSUME k + 1 <= m PROVE \E f \in [0..(k + 1) -> S] : Upto(k + 1, f)
    BY <1>1
  <2>2. k \in Nat
    BY <1>1
  <2>3. PICK f \in [0..k -> S] : Upto(k, f)
    BY <1>3, <2>1, <2>2
  <2> DEFINE g == [i \in 0..(k + 1) |-> IF i <= k THEN f[i] ELSE step[k + 1][f[k]]]
  <2>4. f[k] \in S /\ k + 1 \in 1..m
    BY <2>1, <2>2
  <2>5. step[k + 1][f[k]] \in S
    BY <2>4
  <2>6. g \in [0..(k + 1) -> S]
    BY <2>2, <2>5
  <2>7. g[0] = base
    BY <2>2, <2>3
  <2>8. ASSUME NEW n \in 1..(k + 1) PROVE g[n] = step[n][g[n - 1]]
    <3>1. CASE n = k + 1
      BY <2>2, <3>1
    <3>2. CASE n # k + 1
      BY <2>2, <2>3, <3>2
    <3> QED
      BY <3>1, <3>2
  <2> HIDE DEF g
  <2> QED
    BY <2>6, <2>7, <2>8
<1>4. T = Nat
  <2> HIDE DEF T
  <2> QED
    BY <1>1, <1>2, <1>3, NatInduct
<1>5. m \in T
  BY <1>4
<1> QED
  BY <1>5

\* A total is what adding the numbers one after the other comes to.
LEMMA TotalUpTo ==
    ASSUME NEW s \in Seq(Nat)
    PROVE  \E f \in [0..Len(s) -> Nat] :
              /\ f[0] = 0 /\ \A n \in 1..Len(s) : f[n] = f[n - 1] + s[n]
              /\ Total(s) = f[Len(s)]
<1> DEFINE Def(g) == g = [n \in 0..Len(s) |-> IF n = 0 THEN 0 ELSE g[n - 1] + s[n]]
<1>1. PICK step : step = [n \in 1..Len(s) |-> [x \in Nat |-> x + s[n]]]
  OBVIOUS
<1>a. Len(s) \in Nat /\ 0 \in Nat /\ \A n \in 1..Len(s) : s[n] \in Nat
  OBVIOUS
<1>b. \A n \in 1..Len(s), x \in Nat : step[n][x] = x + s[n]
  BY <1>1
<1>c. step \in Steps(Len(s), Nat)
  <2>1. \A n \in 1..Len(s) : step[n] \in [Nat -> Nat]
    <3>1. TAKE n \in 1..Len(s)
    <3>2. step[n] = [x \in Nat |-> x + s[n]]
      BY <1>1
    <3>3. \A x \in Nat : x + s[n] \in Nat
      BY <1>a
    <3> QED
      BY <3>2, <3>3
  <2> QED
    BY <2>1, <1>1 DEF Steps
<1>e. \E f \in [0..Len(s) -> Nat] : Iterates(f, Len(s), 0, step)
  BY <1>a, <1>c, Recursion
<1>2. PICK f \in [0..Len(s) -> Nat] : f[0] = 0 /\ \A n \in 1..Len(s) : f[n] = step[n][f[n - 1]]
  BY <1>e DEF Iterates
<1>3. \A n \in 1..Len(s) : f[n] = f[n - 1] + s[n]
  <2>1. TAKE n \in 1..Len(s)
  <2>2. f[n - 1] \in Nat
    BY <1>a
  <2> QED
    BY <2>2, <1>2, <1>b
<1>4. Def(f)
  BY <1>2, <1>3
<1>5. Def(CHOOSE g : Def(g))
  BY <1>4
<1>6. PICK u : u = CHOOSE g : Def(g)
  OBVIOUS
<1>7. Total(s) = u[Len(s)]
  BY <1>6 DEF Total
<1>8. Def(u)
  BY <1>5, <1>6
<1>9. \A n \in 0..Len(s) : u[n] = IF n = 0 THEN 0 ELSE u[n - 1] + s[n]
  BY <1>8
<1> DEFINE T == {n \in Nat : n <= Len(s) => u[n] = f[n]}
<1>10. 0 \in T
  BY <1>9, <1>2
<1>11. ASSUME NEW n \in T PROVE n + 1 \in T
  BY <1>9, <1>2, <1>3
<1>12. T = Nat
  <2>1. T \in SUBSET Nat
    OBVIOUS
  <2> HIDE DEF T
  <2> QED
    BY <2>1, <1>10, <1>11, NatInduct
<1>13. u[Len(s)] = f[Len(s)]
  BY <1>12
<1> QED
  BY <1>2, <1>3, <1>7, <1>13

\* Induction up to a number, for a set.
LEMMA IntervalInduct ==
    ASSUME NEW m \in Nat, NEW T, 0 \in T, \A n \in 1..m : n - 1 \in T => n \in T
    PROVE  \A n \in 0..m : n \in T
<1> DEFINE S == {n \in Nat : n <= m => n \in T}
<1>1. S \in SUBSET Nat /\ 0 \in S
  OBVIOUS
<1>2. ASSUME NEW n \in S PROVE n + 1 \in S
  <2>1. CASE n + 1 <= m
    <3>1. n + 1 \in 1..m /\ (n + 1) - 1 = n /\ n \in T
      BY <1>1, <2>1
    <3> QED
      BY <3>1
  <2>2. CASE ~(n + 1 <= m)
    BY <1>1, <2>2
  <2> QED
    BY <2>1, <2>2
<1>3. S = Nat
  <2> HIDE DEF S
  <2> QED
    BY <1>1, <1>2, NatInduct
<1> QED
  BY <1>3

\* Nothing adds up to 0.
LEMMA TotalEmpty == Total(<< >>) = 0
<1>1. << >> \in Seq(Nat) /\ Len(<< >>) = 0
  OBVIOUS
<1> QED
  BY <1>1, TotalUpTo

\* Natural numbers add up to a natural number.
LEMMA TotalType ==
    ASSUME NEW s \in Seq(Nat)
    PROVE  Total(s) \in Nat
<1>1. Len(s) \in 0..Len(s)
  OBVIOUS
<1> QED
  BY <1>1, TotalUpTo

\* One number more adds that number.
LEMMA TotalAppend ==
    ASSUME NEW s \in Seq(Nat), NEW x \in Nat
    PROVE  Total(Append(s, x)) = Total(s) + x
<1> DEFINE t == Append(s, x)
<1>1. t \in Seq(Nat) /\ Len(t) = Len(s) + 1 /\ Len(s) \in Nat
  OBVIOUS
<1>2. t[Len(s) + 1] = x /\ \A n \in 1..Len(s) : t[n] = s[n]
  OBVIOUS
<1>3. PICK f \in [0..Len(s) -> Nat] :
         /\ f[0] = 0 /\ \A n \in 1..Len(s) : f[n] = f[n - 1] + s[n]
         /\ Total(s) = f[Len(s)]
  BY TotalUpTo
<1>4. PICK g \in [0..Len(t) -> Nat] :
         /\ g[0] = 0 /\ \A n \in 1..Len(t) : g[n] = g[n - 1] + t[n]
         /\ Total(t) = g[Len(t)]
  BY <1>1, TotalUpTo
<1> DEFINE T == {k \in 0..Len(s) : f[k] = g[k]}
<1>5. f[Len(s)] = g[Len(s)]
  <2>1. 0 \in T
    BY <1>1, <1>3, <1>4
  <2>2. ASSUME NEW n \in 1..Len(s), n - 1 \in T PROVE n \in T
    BY <1>1, <1>2, <1>3, <1>4, <2>2
  <2>3. Len(s) \in 0..Len(s)
    BY <1>1
  <2>4. Len(s) \in T
    <3> HIDE DEF T
    <3> QED
      BY <1>1, <2>1, <2>2, <2>3, IntervalInduct
  <2> QED
    BY <2>4
<1>6. g[Len(t)] = g[Len(s)] + x
  BY <1>1, <1>2, <1>4
<1> QED
  BY <1>1, <1>3, <1>4, <1>5, <1>6

\* A total is no less than any of its numbers.
LEMMA TotalBounds ==
    ASSUME NEW s \in Seq(Nat), NEW i \in 1..Len(s)
    PROVE  s[i] <= Total(s)
<1>1. PICK f \in [0..Len(s) -> Nat] :
         /\ f[0] = 0 /\ \A n \in 1..Len(s) : f[n] = f[n - 1] + s[n]
         /\ Total(s) = f[Len(s)]
  BY TotalUpTo
<1> DEFINE T == {k \in 0..Len(s) : i <= k => s[i] <= f[k]}
<1>2. Len(s) \in Nat /\ \A n \in 1..Len(s) : s[n] \in Nat
  OBVIOUS
<1>3. 0 \in T
  BY <1>2
<1>4. ASSUME NEW n \in 1..Len(s), n - 1 \in T PROVE n \in T
  <2>1. n - 1 \in 0..Len(s) /\ n \in 0..Len(s)
    BY <1>2
  <2>2. f[n] = f[n - 1] + s[n] /\ f[n - 1] \in Nat /\ s[n] \in Nat /\ s[i] \in Nat
    BY <1>1, <1>2, <2>1
  <2>3. CASE i = n
    BY <2>1, <2>2, <2>3
  <2>4. CASE i # n
    BY <2>1, <2>2, <2>4, <1>4
  <2> QED
    BY <2>3, <2>4
<1>5. Len(s) \in T
  <2>1. Len(s) \in 0..Len(s)
    BY <1>2
  <2> HIDE DEF T
  <2> QED
    BY <1>2, <1>3, <1>4, <2>1, IntervalInduct
<1> QED
  BY <1>1, <1>2, <1>5

\* Sequences are joined, and many of them one after the other.
Join(s, t) == s \o t
Joins(ss, f) == f[0] = << >> /\ \A n \in 1..Len(ss) : f[n] = Join(f[n - 1], ss[n])

\* It does not matter which sequences are joined first.
LEMMA JoinAssociative ==
    ASSUME NEW A, NEW s \in Seq(A), NEW t \in Seq(A), NEW u \in Seq(A)
    PROVE  Join(Join(s, t), u) = Join(s, Join(t, u))
<1>1. (s \o t) \o u = s \o (t \o u)
  BY ConcatAssociative
<1> QED
  BY <1>1 DEF Join

\* What sequences of sequences are made of.
LEMMA SeqOfSeqs ==
    ASSUME NEW A, NEW ss \in Seq(Seq(A))
    PROVE  /\ Len(ss) \in Nat
           /\ \A n \in 1..Len(ss) : ss[n] \in Seq(A)
           /\ << >> \in Seq(A)
           /\ \A s, t \in Seq(A) : Join(s, t) \in Seq(A)
           /\ \A s \in Seq(A) : Join(<< >>, s) = s /\ Join(s, << >>) = s
           /\ \A s, t, u \in Seq(A) : Join(Join(s, t), u) = Join(s, Join(t, u))
<1>1. Len(ss) \in Nat /\ \A n \in 1..Len(ss) : ss[n] \in Seq(A)
  OBVIOUS
<1>2. << >> \in Seq(A)
  OBVIOUS
<1>3. \A s, t \in Seq(A) : Join(s, t) \in Seq(A)
  BY ConcatProperties DEF Join
<1>4. \A s \in Seq(A) : Join(<< >>, s) = s /\ Join(s, << >>) = s
  BY ConcatEmptySeq DEF Join
<1>5. \A s, t, u \in Seq(A) : Join(Join(s, t), u) = Join(s, Join(t, u))
  BY JoinAssociative
<1> QED
  BY <1>1, <1>2, <1>3, <1>4, <1>5

\* Flattening joins the sequences one after the other.
LEMMA FlattenUpTo ==
    ASSUME NEW A, NEW ss \in Seq(Seq(A))
    PROVE  \E f \in [0..Len(ss) -> Seq(A)] : Joins(ss, f) /\ FlattenSeq(ss) = f[Len(ss)]
<1> DEFINE Def(g) == g = [i \in 1..Len(ss) |-> IF i = 1 THEN ss[i] ELSE g[i - 1] \o ss[i]]
<1>1. PICK m, Q : m = Len(ss) /\ Q = Seq(A)
  OBVIOUS
<1>2. /\ m \in Nat /\ << >> \in Q /\ \A n \in 1..m : ss[n] \in Q
      /\ \A x, y \in Q : Join(x, y) \in Q
      /\ \A x \in Q : Join(<< >>, x) = x
  BY <1>1, SeqOfSeqs
<1>3. PICK step : step = [n \in 1..m |-> [x \in Q |-> Join(x, ss[n])]]
  OBVIOUS
<1>4. \A n \in 1..m, x \in Q : step[n][x] = Join(x, ss[n])
  BY <1>3
<1>5. step \in Steps(m, Q)
  <2>1. \A n \in 1..m : step[n] \in [Q -> Q]
    <3>1. TAKE n \in 1..m
    <3>2. step[n] = [x \in Q |-> Join(x, ss[n])]
      BY <1>3
    <3>3. \A x \in Q : Join(x, ss[n]) \in Q
      BY <1>2
    <3> QED
      BY <3>2, <3>3
  <2> QED
    BY <2>1, <1>3 DEF Steps
<1>6. \E f \in [0..m -> Q] : Iterates(f, m, << >>, step)
  BY <1>2, <1>5, Recursion
<1>7. PICK f \in [0..m -> Q] : f[0] = << >> /\ \A n \in 1..m : f[n] = step[n][f[n - 1]]
  BY <1>6 DEF Iterates
<1>8. \A n \in 1..m : f[n] = Join(f[n - 1], ss[n])
  <2>1. TAKE n \in 1..m
  <2>2. f[n - 1] \in Q
    BY <1>2
  <2> QED
    BY <2>2, <1>4, <1>7
<1>9. Joins(ss, f)
  BY <1>1, <1>7, <1>8 DEF Joins
<1>10. FlattenSeq(ss) = f[m]
  <2>1. CASE m = 0
    <3>1. FlattenSeq(ss) = ss
      BY <1>1, <2>1 DEF FlattenSeq
    <3>2. ss = << >>
      BY <1>1, <2>1, EmptySeq
    <3> QED
      BY <3>1, <3>2, <1>7, <2>1
  <2>2. CASE m # 0
    <3>1. 1 \in 1..m /\ m \in 1..m
      BY <1>2, <2>2
    <3>2. f[1] = ss[1]
      BY <1>2, <1>7, <1>8, <3>1
    <3>3. PICK h : h = [i \in 1..m |-> f[i]]
      OBVIOUS
    <3>4. \A i \in 1..m : h[i] = IF i = 1 THEN ss[i] ELSE Join(h[i - 1], ss[i])
      BY <1>2, <1>8, <3>2, <3>3
    <3>5. h = [i \in 1..m |-> IF i = 1 THEN ss[i] ELSE Join(h[i - 1], ss[i])]
      BY <3>3, <3>4
    <3>6. Def(h)
      BY <3>5, <1>1 DEF Join
    <3>7. Def(CHOOSE g : Def(g))
      BY <3>6
    <3>8. PICK u : u = CHOOSE g : Def(g)
      OBVIOUS
    <3>9. FlattenSeq(ss) = u[m]
      BY <1>1, <2>2, <3>8 DEF FlattenSeq
    <3>10. Def(u)
      BY <3>7, <3>8
    <3>11. u = [i \in 1..m |-> IF i = 1 THEN ss[i] ELSE Join(u[i - 1], ss[i])]
      BY <3>10, <1>1 DEF Join
    <3>12. \A n \in 1..m : u[n] = IF n = 1 THEN ss[n] ELSE Join(u[n - 1], ss[n])
      BY <3>11
    <3> DEFINE T == {n \in 0..m : n # 0 => u[n] = f[n]}
    <3>13. 0 \in T
      BY <1>2
    <3>14. ASSUME NEW n \in 1..m, n - 1 \in T PROVE n \in T
      <4>1. CASE n = 1
        <5>1. u[1] = ss[1]
          BY <3>1, <3>12
        <5>2. 1 \in 0..m /\ u[1] = f[1]
          BY <3>1, <3>2, <5>1
        <5> QED
          BY <4>1, <5>2
      <4>2. CASE n # 1
        <5>1. u[n] = Join(u[n - 1], ss[n]) /\ f[n] = Join(f[n - 1], ss[n])
          BY <4>2, <3>12, <1>8
        <5>2. u[n - 1] = f[n - 1] /\ n \in 0..m
          BY <4>2, <3>14
        <5>3. u[n] = f[n]
          BY <5>1, <5>2
        <5> QED
          BY <5>2, <5>3
      <4> QED
        BY <4>1, <4>2
    <3>15. m \in T
      <4>1. m \in 0..m
        BY <1>2
      <4> HIDE DEF T
      <4> QED
        BY <1>2, <3>13, <3>14, <4>1, IntervalInduct
    <3>16. u[m] = f[m]
      BY <3>1, <3>15
    <3> QED
      BY <3>9, <3>16
  <2> QED
    BY <2>1, <2>2
<1> QED
  BY <1>1, <1>9, <1>10

\* Nothing is flattened to nothing.
LEMMA FlattenEmpty == FlattenSeq(<< >>) = << >>
BY DEF FlattenSeq

\* The elements stay what they are.
LEMMA FlattenType ==
    ASSUME NEW A, NEW ss \in Seq(Seq(A))
    PROVE  FlattenSeq(ss) \in Seq(A)
<1>1. Len(ss) \in 0..Len(ss)
  BY SeqOfSeqs
<1>2. PICK f \in [0..Len(ss) -> Seq(A)] : FlattenSeq(ss) = f[Len(ss)]
  BY FlattenUpTo
<1> QED
  BY <1>1, <1>2

\* The last sequence comes last.
LEMMA FlattenAppend ==
    ASSUME NEW A, NEW ss \in Seq(Seq(A)), NEW x \in Seq(A)
    PROVE  FlattenSeq(Append(ss, x)) = FlattenSeq(ss) \o x
<1>1. PICK t : t = Append(ss, x)
  OBVIOUS
<1>2. /\ t \in Seq(Seq(A)) /\ Len(t) = Len(ss) + 1
      /\ t[Len(ss) + 1] = x /\ \A n \in 1..Len(ss) : t[n] = ss[n]
  BY <1>1
<1>3. PICK m, Q : m = Len(ss) /\ Q = Seq(A)
  OBVIOUS
<1>4. /\ m \in Nat /\ << >> \in Q /\ x \in Q
      /\ \A n \in 1..m : ss[n] \in Q
      /\ Join(<< >>, << >>) = << >>
  BY <1>3, SeqOfSeqs
<1>5. PICK f \in [0..m -> Q] : Joins(ss, f) /\ FlattenSeq(ss) = f[m]
  BY <1>3, FlattenUpTo
<1>6. PICK g \in [0..(m + 1) -> Q] : Joins(t, g) /\ FlattenSeq(t) = g[m + 1]
  BY <1>2, <1>3, FlattenUpTo
<1>7. f[0] = << >> /\ \A n \in 1..m : f[n] = Join(f[n - 1], ss[n])
  BY <1>3, <1>5 DEF Joins
<1>8. g[0] = << >> /\ \A n \in 1..(m + 1) : g[n] = Join(g[n - 1], t[n])
  BY <1>2, <1>3, <1>6 DEF Joins
<1> DEFINE T == {n \in 0..m : g[n] = f[n]}
<1>9. 0 \in T
  BY <1>4, <1>7, <1>8
<1>10. ASSUME NEW n \in 1..m, n - 1 \in T PROVE n \in T
  <2>1. n \in 1..(m + 1) /\ t[n] = ss[n] /\ n \in 0..m
    BY <1>2, <1>3, <1>4
  <2>2. g[n] = Join(g[n - 1], ss[n]) /\ f[n] = Join(f[n - 1], ss[n]) /\ g[n - 1] = f[n - 1]
    BY <1>7, <1>8, <1>10, <2>1
  <2> QED
    BY <2>1, <2>2
<1>11. g[m] = f[m]
  <2>1. m \in 0..m
    BY <1>4
  <2>2. m \in T
    <3> HIDE DEF T
    <3> QED
      BY <1>4, <1>9, <1>10, <2>1, IntervalInduct
  <2> QED
    BY <2>2
<1>12. m + 1 \in 1..(m + 1) /\ (m + 1) - 1 = m /\ t[m + 1] = x
  BY <1>2, <1>3, <1>4
<1>13. g[m + 1] = Join(f[m], x)
  BY <1>8, <1>11, <1>12
<1> QED
  BY <1>1, <1>5, <1>6, <1>13 DEF Join

\* The first sequence comes first.
LEMMA FlattenTail ==
    ASSUME NEW A, NEW ss \in Seq(Seq(A)), ss # << >>
    PROVE  FlattenSeq(ss) = Head(ss) \o FlattenSeq(Tail(ss))
<1>1. PICK t : t = Tail(ss)
  OBVIOUS
<1>2. /\ t \in Seq(Seq(A)) /\ Len(ss) = Len(t) + 1
      /\ Head(ss) = ss[1] /\ \A n \in 1..Len(t) : t[n] = ss[n + 1]
  BY <1>1
<1>3. PICK m, Q : m = Len(t) /\ Q = Seq(A)
  OBVIOUS
<1>4. /\ m \in Nat /\ << >> \in Q /\ (\A n \in 1..m : t[n] \in Q)
      /\ \A x \in Q : Join(<< >>, x) = x /\ Join(x, << >>) = x
  BY <1>2, <1>3, SeqOfSeqs
<1>5. ss[1] \in Q /\ Len(ss) = m + 1
  BY <1>2, <1>3, <1>4, SeqOfSeqs
<1>6. PICK f \in [0..(m + 1) -> Q] : Joins(ss, f) /\ FlattenSeq(ss) = f[m + 1]
  BY <1>3, <1>5, FlattenUpTo
<1>7. PICK g \in [0..m -> Q] : Joins(t, g) /\ FlattenSeq(t) = g[m]
  BY <1>2, <1>3, FlattenUpTo
<1>8. f[0] = << >> /\ \A n \in 1..(m + 1) : f[n] = Join(f[n - 1], ss[n])
  BY <1>5, <1>6 DEF Joins
<1>9. g[0] = << >> /\ \A n \in 1..m : g[n] = Join(g[n - 1], t[n])
  BY <1>3, <1>7 DEF Joins
<1>10. f[1] = Join(ss[1], g[0])
  <2>1. 1 \in 1..(m + 1) /\ 1 - 1 = 0
    BY <1>4
  <2>2. f[1] = Join(f[0], ss[1])
    BY <1>8, <2>1
  <2>3. Join(<< >>, ss[1]) = ss[1] /\ Join(ss[1], << >>) = ss[1]
    BY <1>4, <1>5
  <2> QED
    BY <2>2, <2>3, <1>8, <1>9, Zenon
<1>11. ASSUME NEW n \in 1..m PROVE g[n - 1] \in Seq(A) /\ t[n] \in Seq(A)
  <2>1. n - 1 \in 0..m
    BY <1>4
  <2>2. g[n - 1] \in Q
    BY <1>7, <2>1
  <2>3. t[n] \in Q
    BY <1>4
  <2> QED
    BY <1>3, <2>2, <2>3, Zenon
<1>12. ASSUME NEW n \in 1..m PROVE f[n + 1] = Join(f[n], t[n])
  <2>1. n + 1 \in 1..(m + 1) /\ (n + 1) - 1 = n /\ t[n] = ss[n + 1]
    BY <1>2, <1>3, <1>4
  <2> QED
    BY <2>1, <1>8
<1>13. ss[1] \in Seq(A) /\ \A n \in 1..m : g[n] = Join(g[n - 1], t[n])
  BY <1>3, <1>5, <1>9
<1> DEFINE T == {n \in 0..m : f[n + 1] = Join(ss[1], g[n])}
<1>14. 0 \in T
  BY <1>4, <1>10
<1>15. ASSUME NEW n \in 1..m, n - 1 \in T PROVE n \in T
  <2>1. n \in 0..m /\ (n - 1) + 1 = n
    BY <1>4
  <2>2. f[n] = Join(ss[1], g[n - 1])
    BY <1>15, <2>1
  <2>3. f[n + 1] = Join(Join(ss[1], g[n - 1]), t[n])
    BY <1>12, <2>2
  <2>4. Join(Join(ss[1], g[n - 1]), t[n]) = Join(ss[1], Join(g[n - 1], t[n]))
    BY <1>11, <1>13, JoinAssociative
  <2>5. f[n + 1] = Join(ss[1], g[n])
    BY <1>13, <2>3, <2>4
  <2> QED
    BY <2>1, <2>5
<1>16. f[m + 1] = Join(ss[1], g[m])
  <2>1. m \in 0..m
    BY <1>4
  <2>2. m \in T
    <3> HIDE DEF T
    <3> QED
      BY <1>4, <1>14, <1>15, <2>1, IntervalInduct
  <2> QED
    BY <2>2
<1> QED
  BY <1>1, <1>2, <1>6, <1>7, <1>16 DEF Join
-----------------------------------------------------------------------------
(* Lines, chunks and the cutting of a log. *)

\* The lines of the log, by number, and the state of a scan.
LineNos == 1..Len(podLog)
Scans == [chunks : Seq(Seq(LineNos)), buffer : Seq(LineNos)]
LogOK == podLog \in Seq(Nat \ {0})

\* A line is not empty.
LEMMA LineFacts ==
    ASSUME LogOK
    PROVE  Len(podLog) \in Nat /\ \A line \in LineNos : podLog[line] \in Nat \ {0}
BY DEF LogOK, LineNos

\* No lines have no size.
LEMMA SizeEmpty == Size(<< >>) = 0
<1>1. PICK e : e = [i \in 1..Len(<< >>) |-> podLog[<< >>[i]]]
  OBVIOUS
<1>2. e = << >>
  BY <1>1
<1> QED
  BY <1>1, <1>2, TotalEmpty DEF Size

\* The size of lines is that of the last on top of that of the others.
LEMMA SizeFacts ==
    ASSUME LogOK, NEW lines \in Seq(LineNos), NEW line \in LineNos
    PROVE  /\ Size(<< >>) = 0
           /\ Size(lines) \in Nat
           /\ Size(Append(lines, line)) = Size(lines) + podLog[line]
<1>1. PICK s : s = [i \in 1..Len(lines) |-> podLog[lines[i]]]
  OBVIOUS
<1>2. Len(lines) \in Nat /\ \A i \in 1..Len(lines) : lines[i] \in LineNos
  OBVIOUS
<1>3. s \in Seq(Nat) /\ Len(s) = Len(lines)
  BY <1>1, <1>2, LineFacts
<1>4. Size(lines) = Total(s) /\ Total(s) \in Nat
  BY <1>1, <1>3, TotalType DEF Size
<1>5. PICK longer : longer = Append(lines, line)
  OBVIOUS
<1>6. /\ Len(longer) = Len(lines) + 1
      /\ longer[Len(lines) + 1] = line
      /\ \A i \in 1..Len(lines) : longer[i] = lines[i]
  BY <1>5
<1>7. PICK t : t = [i \in 1..Len(longer) |-> podLog[longer[i]]]
  OBVIOUS
<1>8. podLog[line] \in Nat
  BY LineFacts
<1>9. t = Append(s, podLog[line])
  <2>1. \A i \in 1..(Len(lines) + 1) : t[i] = IF i = Len(lines) + 1 THEN podLog[line] ELSE s[i]
    BY <1>1, <1>2, <1>6, <1>7
  <2>2. t = [i \in 1..(Len(lines) + 1) |-> IF i = Len(lines) + 1 THEN podLog[line] ELSE s[i]]
    BY <1>6, <1>7, <2>1
  <2> QED
    BY <1>2, <1>3, <1>8, <2>2
<1>10. Size(longer) = Total(s) + podLog[line]
  BY <1>3, <1>7, <1>8, <1>9, TotalAppend DEF Size
<1> QED
  BY <1>4, <1>5, <1>10, SizeEmpty

\* The size of lines is a number.
LEMMA SizeType ==
    ASSUME LogOK, NEW lines \in Seq(LineNos)
    PROVE  Size(<< >>) = 0 /\ Size(lines) \in Nat
<1>1. CASE Len(lines) = 0
  <2>1. lines = << >>
    BY <1>1, EmptySeq
  <2> QED
    BY <2>1, SizeEmpty
<1>2. CASE Len(lines) # 0
  <2>1. lines[1] \in LineNos
    BY <1>2
  <2> QED
    BY <2>1, SizeFacts
<1> QED
  BY <1>1, <1>2

\* A chunk is as large as it may be, and could not have held the first line of the next.
Small(chunk) == Size(chunk) <= ChunkSize \/ Len(chunk) = 1
Full(chunk, next) == Size(chunk) + podLog[Head(next)] > ChunkSize
Fit(chunks) ==
    \A i \in 1..Len(chunks) :
       /\ Small(chunks[i])
       /\ i < Len(chunks) => Full(chunks[i], chunks[i + 1])

\* What is in the buffer may become a chunk.
Flushable(state) ==
    /\ Fit(state.chunks)
    /\ state.buffer # << >> =>
          /\ Small(state.buffer)
          /\ state.chunks # << >> => Full(state.chunks[Len(state.chunks)], state.buffer)

\* All that was scanned is there, and the buffer is not full; if it is empty, the last chunk is.
Scanning(state) ==
    /\ Flushable(state)
    /\ state.buffer # << >> => Size(state.buffer) < ChunkSize
    /\ state.buffer = << >> /\ state.chunks # << >> =>
          Size(state.chunks[Len(state.chunks)]) >= ChunkSize

\* The lines that were scanned.
Lines(state) == FlattenSeq(state.chunks) \o state.buffer

\* A chunk that could not have been put into the last one may follow it.
LEMMA FitAppend ==
    ASSUME LogOK, NEW chunks \in Seq(Seq(LineNos)), Fit(chunks), NEW c \in Seq(LineNos), Small(c),
           chunks # << >> => Full(chunks[Len(chunks)], c)
    PROVE  Fit(Append(chunks, c))
<1>1. PICK t : t = Append(chunks, c)
  OBVIOUS
<1>2. /\ Len(chunks) \in Nat /\ Len(t) = Len(chunks) + 1
      /\ t[Len(chunks) + 1] = c /\ \A i \in 1..Len(chunks) : t[i] = chunks[i]
      /\ chunks = << >> => Len(chunks) = 0
  BY <1>1
<1>3. ASSUME NEW i \in 1..Len(t)
      PROVE  Small(t[i]) /\ (i < Len(t) => Full(t[i], t[i + 1]))
  <2>1. CASE i = Len(chunks) + 1
    BY <1>2, <2>1
  <2>2. CASE i = Len(chunks)
    <3>1. chunks # << >> /\ i \in 1..Len(chunks)
      BY <1>2, <1>3, <2>2
    <3>2. Small(t[i]) /\ Full(t[i], c) /\ t[i + 1] = c
      BY <1>2, <2>2, <3>1 DEF Fit
    <3> QED
      BY <3>2
  <2>3. CASE i < Len(chunks)
    <3>1. i \in 1..Len(chunks) /\ i + 1 \in 1..Len(chunks)
      BY <1>2, <1>3, <2>3
    <3>2. Small(t[i]) /\ Full(t[i], t[i + 1])
      BY <1>2, <2>3, <3>1 DEF Fit
    <3> QED
      BY <3>2
  <2> QED
    BY <1>2, <1>3, <2>1, <2>2, <2>3
<1> QED
  BY <1>1, <1>3 DEF Fit

\* The buffer becomes a chunk.
LEMMA FlushFacts ==
    ASSUME LogOK, NEW state \in Scans, Flushable(state), NEW n, n = Flush(state)
    PROVE  /\ n \in Scans
           /\ n.buffer = << >>
           /\ Fit(n.chunks)
           /\ Flushable(n)
           /\ Lines(n) = Lines(state)
           /\ FlattenSeq(n.chunks) = Lines(state)
           /\ state.buffer # << >> => /\ n.chunks # << >>
                                      /\ n.chunks[Len(n.chunks)] = state.buffer
           /\ state.buffer = << >> => n = state
<1>1. state.chunks \in Seq(Seq(LineNos)) /\ state.buffer \in Seq(LineNos)
  BY DEF Scans
<1>2. \A ss \in Seq(Seq(LineNos)) : FlattenSeq(ss) \in Seq(LineNos)
  BY FlattenType
<1>3. << >> \in Seq(LineNos) /\ \A s \in Seq(LineNos) : s \o << >> = s
  BY ConcatEmptySeq
<1>4. CASE state.buffer = << >>
  <2>1. n = state
    BY <1>4 DEF Flush
  <2>2. FlattenSeq(state.chunks) = Lines(state)
    BY <1>1, <1>2, <1>3, <1>4 DEF Lines
  <2> QED
    BY <1>4, <2>1, <2>2 DEF Flushable
<1>5. CASE state.buffer # << >>
  <2>1. PICK chunks : chunks = Append(state.chunks, state.buffer)
    OBVIOUS
  <2>2. n = [chunks |-> chunks, buffer |-> << >>]
    BY <1>5, <2>1 DEF Flush
  <2>3. n.chunks = chunks /\ n.buffer = << >>
    BY <2>2
  <2>4. /\ chunks \in Seq(Seq(LineNos)) /\ chunks # << >>
        /\ chunks[Len(chunks)] = state.buffer
    BY <1>1, <2>1
  <2>5. n \in Scans
    BY <1>3, <2>2, <2>4 DEF Scans
  <2>6. Fit(chunks)
    BY <1>1, <1>5, <2>1, FitAppend DEF Flushable
  <2>7. FlattenSeq(chunks) = Lines(state)
    BY <1>1, <2>1, FlattenAppend DEF Lines
  <2>8. Lines(n) = FlattenSeq(chunks)
    BY <1>2, <1>3, <2>3, <2>4 DEF Lines
  <2>9. Flushable(n)
    BY <2>3, <2>6 DEF Flushable
  <2> QED
    BY <1>5, <2>3, <2>4, <2>5, <2>6, <2>7, <2>8, <2>9
<1> QED
  BY <1>4, <1>5

\* The state of a scan, by its fields.
LEMMA ScanRecord ==
    ASSUME NEW c \in Seq(Seq(LineNos)), NEW b \in Seq(LineNos)
    PROVE  [chunks |-> c, buffer |-> b] \in Scans
BY Zenon DEF Scans

\* A line is added to the buffer.
Longer(state, line) == [state EXCEPT !.buffer = Append(@, line)]

\* The last line of a longer buffer is the line that was added.
LEMMA AddedFacts ==
    ASSUME LogOK, NEW state \in Scans, NEW line \in LineNos,
           NEW n, n = Longer(state, line)
    PROVE  /\ n \in Scans
           /\ n.chunks = state.chunks
           /\ n.buffer # << >>
           /\ Size(n.buffer) = Size(state.buffer) + podLog[line]
           /\ Lines(n) = Append(Lines(state), line)
           /\ state.buffer = << >> => Len(n.buffer) = 1 /\ Head(n.buffer) = line
           /\ state.buffer # << >> => Head(n.buffer) = Head(state.buffer)
<1>1. state.chunks \in Seq(Seq(LineNos)) /\ state.buffer \in Seq(LineNos)
  BY DEF Scans
<1>2. PICK b : b = Append(state.buffer, line)
  OBVIOUS
<1>3. b \in Seq(LineNos) /\ b # << >>
  BY <1>1, <1>2
<1>4. n = [chunks |-> state.chunks, buffer |-> b]
  BY <1>2 DEF Longer, Scans
<1>5. n \in Scans /\ n.chunks = state.chunks /\ n.buffer = b
  <2>1. n.chunks = state.chunks /\ n.buffer = b
    BY <1>4
  <2>2. n \in Scans
    BY <1>1, <1>3, <1>4, ScanRecord
  <2> QED
    BY <2>1, <2>2
<1>6. Size(b) = Size(state.buffer) + podLog[line]
  BY <1>1, <1>2, SizeFacts
<1>7. Lines(n) = Append(Lines(state), line)
  <2>1. PICK f : f = FlattenSeq(state.chunks)
    OBVIOUS
  <2>2. f \in Seq(LineNos)
    BY <1>1, <2>1, FlattenType
  <2>3. f \o Append(state.buffer, line) = Append(f \o state.buffer, line)
    BY <1>1, <2>2, AppendIsConcat, ConcatAssociative, ConcatProperties
  <2> QED
    BY <1>2, <1>5, <2>1, <2>3 DEF Lines
<1>8. state.buffer = << >> => Len(b) = 1 /\ Head(b) = line
  BY <1>1, <1>2
<1>9. state.buffer # << >> => Head(b) = Head(state.buffer)
  BY <1>1, <1>2
<1> QED
  BY <1>3, <1>5, <1>6, <1>7, <1>8, <1>9

\* A chunk is a sequence of lines, and has a size.
LEMMA LastFacts ==
    ASSUME LogOK, NEW state \in Scans, state.chunks # << >>
    PROVE  Size(state.chunks[Len(state.chunks)]) \in Nat
<1>1. state.chunks \in Seq(Seq(LineNos))
  BY DEF Scans
<1>2. state.chunks[Len(state.chunks)] \in Seq(LineNos)
  BY <1>1
<1> QED
  BY <1>2, SizeFacts, SizeType

\* A line that was added leaves a scan that goes on.
LEMMA AddLineFacts ==
    ASSUME LogOK, NEW state \in Scans, NEW line \in LineNos, NEW n, n = AddLine(state, line)
    PROVE  /\ n \in Scans
           /\ Scanning(state) => Scanning(n) /\ Lines(n) = Append(Lines(state), line)
<1>0. ChunkSize \in Nat /\ podLog[line] \in Nat \ {0}
  BY LogsAssumption, LineFacts
<1>1. PICK room : room = IF Size(state.buffer) + podLog[line] <= ChunkSize
                         THEN state ELSE Flush(state)
  OBVIOUS
<1>2. PICK added : added = Longer(room, line)
  OBVIOUS
<1>3. n = IF Size(added.buffer) >= ChunkSize THEN Flush(added) ELSE added
  BY <1>1, <1>2 DEF AddLine, Longer
<1>4. \A s \in Scans : Flush(s) \in Scans
  <2>1. TAKE s \in Scans
  <2>2. s.chunks \in Seq(Seq(LineNos)) /\ s.buffer \in Seq(LineNos) /\ << >> \in Seq(LineNos)
    BY DEF Scans
  <2>3. Append(s.chunks, s.buffer) \in Seq(Seq(LineNos))
    BY <2>2
  <2> QED
    BY <2>2, <2>3 DEF Flush, Scans
<1>5. room \in Scans
  BY <1>1, <1>4
<1>6. /\ added \in Scans
      /\ added.chunks = room.chunks
      /\ added.buffer # << >>
      /\ Size(added.buffer) = Size(room.buffer) + podLog[line]
      /\ Lines(added) = Append(Lines(room), line)
      /\ room.buffer = << >> => Len(added.buffer) = 1 /\ Head(added.buffer) = line
      /\ room.buffer # << >> => Head(added.buffer) = Head(room.buffer)
  BY <1>2, <1>5, AddedFacts
<1>7. n \in Scans
  BY <1>3, <1>4, <1>6
<1>8. ASSUME Scanning(state) PROVE Scanning(n) /\ Lines(n) = Append(Lines(state), line)
  <2>1. Flushable(state)
    BY <1>8 DEF Scanning
  <2>2. Lines(room) = Lines(state) /\ Fit(room.chunks)
    BY <1>1, <2>1, FlushFacts DEF Flushable
  <2>3. Size(room.buffer) \in Nat /\ Size(state.buffer) \in Nat /\ Size(<< >>) = 0
    <3>1. room.buffer \in Seq(LineNos) /\ state.buffer \in Seq(LineNos)
      BY <1>5 DEF Scans
    <3> QED
      BY <3>1, SizeType, SizeFacts
  <2>4. ASSUME state.buffer = << >>, state.chunks # << >>, room = state
        PROVE  Full(state.chunks[Len(state.chunks)], added.buffer)
    <3>1. Size(state.chunks[Len(state.chunks)]) \in Nat
      BY <2>4, LastFacts
    <3>2. Size(state.chunks[Len(state.chunks)]) >= ChunkSize
      BY <1>8, <2>4 DEF Scanning
    <3> QED
      BY <1>0, <1>6, <2>4, <3>1, <3>2 DEF Full
  <2>5. /\ Small(added.buffer)
        /\ added.chunks # << >> => Full(added.chunks[Len(added.chunks)], added.buffer)
    <3>1. CASE Size(state.buffer) + podLog[line] <= ChunkSize
      <4>1. room = state
        BY <1>1, <3>1
      <4>2. Small(added.buffer)
        BY <1>6, <3>1, <4>1 DEF Small
      <4>3. CASE state.buffer # << >>
        BY <1>6, <2>1, <4>1, <4>2, <4>3 DEF Flushable, Full
      <4> QED
        BY <1>6, <2>4, <4>1, <4>2, <4>3
    <3>2. CASE ~(Size(state.buffer) + podLog[line] <= ChunkSize)
      <4>1. room = Flush(state)
        BY <1>1, <3>2
      <4>2. /\ room.buffer = << >>
            /\ state.buffer # << >> => /\ room.chunks # << >>
                                       /\ room.chunks[Len(room.chunks)] = state.buffer
            /\ state.buffer = << >> => room = state
        BY <2>1, <4>1, FlushFacts
      <4>3. Small(added.buffer)
        BY <1>6, <4>2 DEF Small
      <4>4. CASE state.buffer # << >>
        <5>1. Full(state.buffer, added.buffer)
          BY <1>0, <1>6, <2>3, <3>2, <4>2 DEF Full
        <5> QED
          BY <1>6, <4>2, <4>3, <4>4, <5>1
      <4> QED
        BY <1>6, <2>4, <4>2, <4>3, <4>4
    <3> QED
      BY <3>1, <3>2
  <2>6. Flushable(added)
    BY <1>6, <2>2, <2>5 DEF Flushable
  <2>7. Size(added.buffer) \in Nat
    BY <1>0, <1>6, <2>3
  <2>8. CASE Size(added.buffer) >= ChunkSize
    <3>1. n = Flush(added)
      BY <1>3, <2>8
    <3>2. /\ n.buffer = << >> /\ Flushable(n) /\ Lines(n) = Lines(added)
          /\ n.chunks[Len(n.chunks)] = added.buffer
      BY <1>6, <2>6, <3>1, FlushFacts
    <3> QED
      BY <1>6, <2>2, <2>8, <3>2 DEF Scanning
  <2>9. CASE ~(Size(added.buffer) >= ChunkSize)
    <3>1. n = added
      BY <1>3, <2>9
    <3> QED
      BY <1>0, <1>6, <2>2, <2>6, <2>7, <2>9, <3>1 DEF Scanning
  <2> QED
    BY <2>8, <2>9
<1> QED
  BY <1>7, <1>8

\* The lines that are scanned.
Numbers(n) == [i \in 1..n |-> i]

\* Cutting the first n lines of a log into chunks leaves none out, adds none and keeps their
\* order, and the chunks are as large as they may be (SplitChunks).
THEOREM ChunksAreTheLog ==
    ASSUME LogOK, NEW n \in 0..Len(podLog)
    PROVE  /\ SplitChunks(n) \in Seq(Seq(LineNos))
           /\ FlattenSeq(SplitChunks(n)) = Numbers(n)
           /\ Fit(SplitChunks(n))
<1>1. n \in Nat /\ \A i \in 1..n : i \in LineNos
  BY LineFacts DEF LineNos
<1>2. PICK empty : empty = [chunks |-> << >>, buffer |-> << >>]
  OBVIOUS
<1>3. << >> \in Seq(LineNos) /\ << >> \in Seq(Seq(LineNos))
  OBVIOUS
<1>4. empty \in Scans /\ empty.chunks = << >> /\ empty.buffer = << >>
  BY <1>2, <1>3 DEF Scans
<1>5. Scanning(empty) /\ Lines(empty) = Numbers(0)
  <2>1. Fit(<< >>)
    BY DEF Fit
  <2>2. FlattenSeq(<< >>) \o << >> = << >>
    BY FlattenEmpty
  <2>3. Numbers(0) = << >>
    BY DEF Numbers
  <2> QED
    BY <1>4, <2>1, <2>2, <2>3 DEF Scanning, Flushable, Lines
<1>6. PICK step : step = [i \in 1..n |-> [s \in Scans |-> AddLine(s, i)]]
  OBVIOUS
<1>7. \A i \in 1..n, s \in Scans : step[i][s] = AddLine(s, i) /\ AddLine(s, i) \in Scans
  BY <1>1, <1>6, AddLineFacts
<1>8. step \in Steps(n, Scans)
  <2>1. \A i \in 1..n : step[i] \in [Scans -> Scans]
    BY <1>6, <1>7
  <2> QED
    BY <1>6, <2>1 DEF Steps
<1>9. PICK f \in [0..n -> Scans] : Iterates(f, n, empty, step)
  BY <1>1, <1>4, <1>8, Recursion
<1>10. f[0] = empty /\ \A i \in 1..n : f[i] = AddLine(f[i - 1], i)
  <2>1. \A i \in 1..n : f[i - 1] \in Scans
    BY <1>1
  <2> QED
    BY <1>7, <1>9, <2>1 DEF Iterates
<1> DEFINE Def(g) == g = [i \in 0..n |-> IF i = 0 THEN [chunks |-> << >>, buffer |-> << >>]
                                          ELSE AddLine(g[i - 1], i)]
<1>11. Def(f)
  BY <1>2, <1>10
<1>12. Def(CHOOSE g : Def(g))
  BY <1>11
<1>13. PICK u : u = CHOOSE g : Def(g)
  OBVIOUS
<1>14. SplitChunks(n) = Flush(u[n]).chunks
  BY <1>13 DEF SplitChunks
<1>15. Def(u)
  BY <1>12, <1>13
<1>16. u[0] = empty /\ \A i \in 1..n : u[i] = AddLine(u[i - 1], i)
  BY <1>1, <1>2, <1>15
<1> HIDE DEF Def
<1>17. ASSUME NEW i \in 1..n, NEW s \in Scans, Scanning(s), Lines(s) = Numbers(i - 1)
       PROVE  /\ AddLine(s, i) \in Scans /\ Scanning(AddLine(s, i))
              /\ Lines(AddLine(s, i)) = Numbers(i)
  <2>1. /\ AddLine(s, i) \in Scans /\ Scanning(AddLine(s, i))
        /\ Lines(AddLine(s, i)) = Append(Numbers(i - 1), i)
    BY <1>1, <1>17, AddLineFacts
  <2>2. Append(Numbers(i - 1), i) = Numbers(i)
    <3>1. i - 1 \in Nat
      BY <1>1
    <3> QED
      BY <3>1 DEF Numbers
  <2> QED
    BY <2>1, <2>2
<1> DEFINE T == {i \in 0..n : u[i] \in Scans /\ Scanning(u[i]) /\ Lines(u[i]) = Numbers(i)}
<1>18. 0 \in T
  BY <1>1, <1>4, <1>5, <1>16
<1>19. ASSUME NEW i \in 1..n, i - 1 \in T PROVE i \in T
  <2>1. i \in 0..n
    BY <1>1
  <2>2. u[i] = AddLine(u[i - 1], i)
    BY <1>16
  <2>3. u[i - 1] \in Scans /\ Scanning(u[i - 1]) /\ Lines(u[i - 1]) = Numbers(i - 1)
    BY <1>19
  <2> QED
    BY <1>17, <2>1, <2>2, <2>3
<1>20. u[n] \in Scans /\ Scanning(u[n]) /\ Lines(u[n]) = Numbers(n)
  <2>1. n \in T
    <3>1. n \in 0..n
      BY <1>1
    <3> HIDE DEF T
    <3> QED
      BY <1>1, <1>18, <1>19, <3>1, IntervalInduct
  <2> QED
    BY <2>1
<1>21. Flush(u[n]) \in Scans /\ Fit(Flush(u[n]).chunks)
       /\ FlattenSeq(Flush(u[n]).chunks) = Numbers(n)
  BY <1>20, FlushFacts DEF Scanning
<1> QED
  BY <1>14, <1>21 DEF Scans
-----------------------------------------------------------------------------
(* The types of operations. *)

\* What is seen of a Job.
SeenStatuses == {"Absent", "Active"} \cup Outcomes

\* A goroutine's record stays one, whichever of its fields is set.
LEMMA FieldTypes ==
    ASSUME NEW e \in Executions
    PROVE  /\ \A to \in ExecSteps : [e EXCEPT !.step = to] \in Executions
           /\ \A op \in Ops : [e EXCEPT !.op = op] \in Executions
           /\ \A seen \in SeenStatuses : [e EXCEPT !.seen = seen] \in Executions
           /\ \A n \in 0..MaxOutput : [e EXCEPT !.sent = n] \in Executions
           /\ \A n \in 0..MaxOutput : [e EXCEPT !.upto = n] \in Executions
<1>1. \A to \in ExecSteps : [e EXCEPT !.step = to] \in Executions
  BY DEF Executions
<1>2. \A op \in Ops : [e EXCEPT !.op = op] \in Executions
  BY DEF Executions
<1>3. \A seen \in SeenStatuses : [e EXCEPT !.seen = seen] \in Executions
  BY DEF Executions, SeenStatuses
<1>4. \A n \in 0..MaxOutput : [e EXCEPT !.sent = n] \in Executions
  BY DEF Executions
<1>5. \A n \in 0..MaxOutput : [e EXCEPT !.upto = n] \in Executions
  BY DEF Executions
<1> QED
  BY <1>1, <1>2, <1>3, <1>4, <1>5

\* The record of a goroutine that begins or ends.
LEMMA ExecutionType ==
    ASSUME NEW op \in Ops, NEW step \in ExecSteps, NEW outcome \in Outcomes
    PROVE  Execution(op, step, outcome) \in Executions
<1>1. 0 \in 0..MaxOutput
  BY OpsAssumption
<1> QED
  BY <1>1 DEF Execution, Executions

\* The end of a tick leaves a goroutine's record.
LEMMA AfterType ==
    ASSUME NEW e \in Executions, NEW n, n = After(e)
    PROVE  n \in Executions
<1>1. CASE e.seen \in Outcomes
  <2>1. e.op \in Ops
    BY DEF Executions
  <2> QED
    BY <1>1, <2>1, ExecutionType DEF After, ExecSteps
<1>2. CASE e.seen \notin Outcomes
  <2>1. PICK f : f = [e EXCEPT !.step = "watch"]
    OBVIOUS
  <2>2. PICK g : g = [f EXCEPT !.seen = "Absent"]
    OBVIOUS
  <2>3. f \in Executions
    BY <2>1, FieldTypes DEF ExecSteps
  <2>4. g \in Executions
    BY <2>2, <2>3, FieldTypes DEF SeenStatuses
  <2>5. [g EXCEPT !.upto = 0] \in Executions
    BY <2>4, FieldTypes, OpsAssumption
  <2>6. n = [g EXCEPT !.upto = 0]
    BY <1>2, <2>1, <2>2 DEF After
  <2> QED
    BY <2>5, <2>6
<1> QED
  BY <1>1, <1>2

\* What a goroutine may make of its record.
OneRuns(d) == \E n \in Executions : exec' = [exec EXCEPT ![d] = n]

\* A step of a goroutine sets its record alone.
LEMMA StepRuns ==
    ASSUME OpsTypeOK, NEW d \in Deliveries, NEW from, NEW to \in ExecSteps, Step(d, from, to)
    PROVE  OneRuns(d)
BY FieldTypes DEF OpsTypeOK, Step, OneRuns

\* So does a failure.
LEMMA FailRuns ==
    ASSUME OpsTypeOK, NEW d \in Deliveries, NEW from, Fail(d, from)
    PROVE  OneRuns(d)
<1>1. exec[d].op \in Ops
  BY DEF OpsTypeOK, Executions
<1>2. Execution(exec[d].op, "report", "failed") \in Executions
  BY <1>1, ExecutionType DEF ExecSteps, Outcomes
<1> QED
  BY <1>2 DEF Fail, OneRuns

\* So does the end of the output.
LEMMA DrainedRuns ==
    ASSUME OpsTypeOK, NEW d \in Deliveries, NEW sent \in 0..MaxOutput, LogsDrained(d, sent)
    PROVE  OneRuns(d)
<1>1. [exec[d] EXCEPT !.sent = sent] \in Executions
  BY FieldTypes DEF OpsTypeOK
<1>2. After([exec[d] EXCEPT !.sent = sent]) \in Executions
  BY <1>1, AfterType
<1> QED
  BY <1>2 DEF LogsDrained, OneRuns

\* Then all the records keep their type.
LEMMA RunsType ==
    ASSUME OpsTypeOK, NEW d \in Deliveries, OneRuns(d)
    PROVE  exec' \in [Deliveries -> Executions]
BY DEF OpsTypeOK, OneRuns

\* Each of the things a goroutine does keeps the types.
LEMMA OperatingTypes ==
    ASSUME OpsTypeOK, NEW d \in Deliveries, Operating(d) \/ Timeout(d) \/ OperationFails(d)
    PROVE  OpsTypeOK'
<1> USE DEF OpsTypeOK
<1>1. /\ exec[d] \in Executions /\ exec[d].op \in Ops
      /\ exec[d].sent \in 0..MaxOutput /\ exec[d].upto \in 0..MaxOutput
      /\ execJob[d] \in Jobs /\ execJob[d].status \in SeenStatuses
      /\ execJob[d].output \in 0..MaxOutput
  BY DEF Executions, Jobs, SeenStatuses
<1>2. ASSUME OneRuns(d), UNCHANGED <<execJob, upgradeJob, version, ledger, agent>>
      PROVE  OpsTypeOK'
  BY <1>2, RunsType
<1>3. CASE Announce(d)
  <2>1. PICK to \in {"create", "probe", "report"} : Step(d, "started", to)
    BY <1>3 DEF Announce
  <2>2. OneRuns(d)
    BY <2>1, StepRuns DEF ExecSteps
  <2> QED
    BY <1>2, <1>3, <2>2 DEF Announce
<1>4. CASE ShipLogs(d)
  BY <1>1, <1>2, <1>4, DrainedRuns DEF ShipLogs
<1>5. CASE ReportOutcome(d)
  <2>1. Execution(exec[d].op, "done", "failed") \in Executions
    BY <1>1, ExecutionType DEF ExecSteps, Outcomes
  <2>2. OneRuns(d)
    BY <1>5, <2>1 DEF ReportOutcome, OneRuns
  <2> QED
    BY <1>2, <1>5, <2>2 DEF ReportOutcome
<1>6. CASE TellInFlight(d)
  <2>1. OneRuns(d)
    BY <1>6, StepRuns DEF TellInFlight, ExecSteps
  <2> QED
    BY <1>2, <1>6, <2>1 DEF TellInFlight
<1>7. ASSUME execJob' = [execJob EXCEPT ![d].status = "Active"]
      PROVE  execJob' \in [Deliveries -> Jobs]
  <2>1. [execJob[d] EXCEPT !.status = "Active"] \in Jobs
    BY <1>1 DEF Jobs
  <2> QED
    BY <1>7, <2>1
<1>8. CASE CreateExecJob(d)
  <2>1. OneRuns(d)
    BY <1>8, StepRuns DEF CreateExecJob, ExecSteps
  <2> QED
    BY <1>7, <1>8, <2>1, RunsType DEF CreateExecJob
<1>9. CASE CreateExecJobFails(d)
  <2>1. OneRuns(d) /\ UNCHANGED <<upgradeJob, version, ledger, agent>>
    BY <1>9, FailRuns DEF CreateExecJobFails, Fail
  <2> QED
    BY <1>7, <1>9, <2>1, RunsType DEF CreateExecJobFails
<1>10. CASE GetJob(d)
  <2>1. PICK f : f = [exec[d] EXCEPT !.step = "drain"]
    OBVIOUS
  <2>2. f \in Executions
    BY <1>1, <2>1, FieldTypes DEF ExecSteps
  <2>3. [f EXCEPT !.seen = execJob[d].status] \in Executions
    BY <1>1, <2>2, FieldTypes
  <2>4. exec' = [exec EXCEPT ![d] = [f EXCEPT !.seen = execJob[d].status]]
    BY <1>10, <2>1 DEF GetJob
  <2>5. OneRuns(d)
    BY <2>3, <2>4 DEF OneRuns
  <2> QED
    BY <1>2, <1>10, <2>5 DEF GetJob
<1>11. CASE ReadLogs(d)
  <2>1. CASE execJob[d].output > exec[d].sent
    <3>1. PICK f : f = [exec[d] EXCEPT !.step = "ship"]
      OBVIOUS
    <3>2. f \in Executions
      BY <1>1, <3>1, FieldTypes DEF ExecSteps
    <3>3. [f EXCEPT !.upto = execJob[d].output] \in Executions
      BY <1>1, <3>2, FieldTypes
    <3>4. exec' = [exec EXCEPT ![d] = [f EXCEPT !.upto = execJob[d].output]]
      BY <1>11, <2>1, <3>1 DEF ReadLogs
    <3> QED
      BY <3>3, <3>4, <1>2, <1>11 DEF OneRuns, ReadLogs
  <2>2. CASE ~(execJob[d].output > exec[d].sent)
    <3>1. LogsDrained(d, exec[d].sent)
      BY <1>11, <2>2 DEF ReadLogs
    <3> QED
      BY <1>1, <1>2, <1>11, <3>1, DrainedRuns DEF ReadLogs
  <2> QED
    BY <2>1, <2>2
<1>12. CASE ProbeUpgrade(d) \/ ProbeUpgradeFails(d)
  <2>1. PICK to \in {"tell", "createUpgrade"} : Step(d, "probe", to)
    BY <1>12 DEF ProbeUpgrade, ProbeUpgradeFails
  <2>2. OneRuns(d)
    BY <2>1, StepRuns DEF ExecSteps
  <2> QED
    BY <1>2, <1>12, <2>2 DEF ProbeUpgrade, ProbeUpgradeFails
<1>13. CASE CreateUpgradeJob(d)
  <2>1. OneRuns(d)
    BY <1>13, StepRuns DEF CreateUpgradeJob, ExecSteps
  <2> QED
    BY <1>13, <2>1, RunsType DEF CreateUpgradeJob
<1>14. CASE GiveUp(d) \/ CreateUpgradeJobFails(d)
  <2>1. OneRuns(d)
    BY <1>14, FailRuns DEF GiveUp, CreateUpgradeJobFails
  <2> QED
    BY <1>2, <1>14, <2>1 DEF GiveUp, CreateUpgradeJobFails, Fail
<1>15. CASE ReadLogsFails(d)
  BY <1>1, <1>2, <1>15, DrainedRuns DEF ReadLogsFails
<1> QED
  BY <1>3, <1>4, <1>5, <1>6, <1>8, <1>9, <1>10, <1>11, <1>12, <1>13, <1>14, <1>15
     DEF Operating, Timeout, OperationFails, OpSends, OpWorks

\* Commands come in and Jobs run; no Job writes more than all may (TotalOutput).
LEMMA CommandingTypes == ASSUME OpsTypeOK, Commanding PROVE OpsTypeOK'
<1> USE DEF OpsTypeOK
<1>1. ASSUME NEW d \in Deliveries, NEW op \in Ops, Deliver(d, op) PROVE OpsTypeOK'
  <2>1. PICK f : f = [exec[d] EXCEPT !.op = op]
    OBVIOUS
  <2>2. f \in Executions
    BY <2>1, FieldTypes
  <2>3. [f EXCEPT !.step = "started"] \in Executions
    BY <2>2, FieldTypes DEF ExecSteps
  <2>4. exec' = [exec EXCEPT ![d] = [f EXCEPT !.step = "started"]]
    BY <1>1, <2>1 DEF Deliver
  <2> QED
    BY <1>1, <2>3, <2>4 DEF Deliver
<1>2. ASSUME NEW d \in Deliveries, ExecJobRuns(d) PROVE OpsTypeOK'
  <2>1. execJob[d] \in Jobs /\ execJob[d].output \in 0..MaxOutput
    BY DEF Jobs
  <2>2. CASE TotalOutput < MaxOutput /\ execJob' = [execJob EXCEPT ![d].output = @ + 1]
    <3>1. PICK s : s = [e \in Deliveries |-> execJob[e].output]
      OBVIOUS
    <3>2. s \in Seq(Nat) /\ d \in 1..Len(s) /\ s[d] = execJob[d].output
      <4>1. MaxDeliveries \in Nat /\ MaxOutput \in Nat
        BY OpsAssumption
      <4>2. \A e \in 1..MaxDeliveries : execJob[e].output \in Nat
        BY <4>1 DEF Jobs, Deliveries
      <4> QED
        BY <3>1, <4>1, <4>2 DEF Deliveries
    <3>3. s[d] <= Total(s) /\ Total(s) \in Nat
      BY <3>2, TotalBounds, TotalType
    <3>4. execJob[d].output + 1 \in 0..MaxOutput
      BY <2>1, <2>2, <3>1, <3>2, <3>3, OpsAssumption DEF TotalOutput
    <3>5. \A n \in 0..MaxOutput : [execJob[d] EXCEPT !.output = n] \in Jobs
      BY <2>1 DEF Jobs
    <3> QED
      BY <1>2, <2>2, <3>4, <3>5 DEF ExecJobRuns
  <2>3. ASSUME NEW outcome \in Outcomes, execJob' = [execJob EXCEPT ![d].status = outcome]
        PROVE  OpsTypeOK'
    <3>1. [execJob[d] EXCEPT !.status = outcome] \in Jobs
      BY <2>1 DEF Jobs
    <3> QED
      BY <1>2, <2>3, <3>1 DEF ExecJobRuns
  <2> QED
    BY <1>2, <2>2, <2>3 DEF ExecJobRuns
<1>3. ASSUME NEW op \in Ops, UpgradeJobFails(op) \/ ReapUpgradeJob(op) PROVE OpsTypeOK'
  BY <1>3 DEF UpgradeJobFails, ReapUpgradeJob
<1> QED
  BY <1>1, <1>2, <1>3 DEF Commanding

\* The process ends: a goroutine's record is that of none, and the Hub's ledger stays.
LEMMA EndTypes == ASSUME OpsTypeOK, Restart \/ Upgrade PROVE OpsTypeOK'
<1> USE DEF OpsTypeOK
<1>1. \A d \in Deliveries : Execution(exec[d].op, "done", "failed") \in Executions
  <2>1. \A d \in Deliveries : exec[d].op \in Ops
    BY DEF Executions
  <2> QED
    BY <2>1, ExecutionType DEF ExecSteps, Outcomes
<1>2. Killed \in [Deliveries -> Executions]
  BY <1>1 DEF Killed
<1> QED
  BY <1>2 DEF Restart, Upgrade, OpsRestart, UpgradeRollsOut, Versions

\* What a frame holds, by its type.
LEMMA FrameTypes ==
    ASSUME NEW f \in Frames
    PROVE  /\ f.type = "agent_info" => f.version \in Versions
           /\ f.type = "agent_op_status" => f.op \in Ops /\ f.status \in {"running"} \cup Outcomes
           /\ f.type = "agent_op_log" =>
                 f.op \in Ops /\ f.from \in 0..MaxOutput /\ f.to \in 0..MaxOutput
           /\ f.type = "log_chunk" => f.lines \in Seq(LineNos)
<1>1. CASE f = Heartbeat
  BY <1>1 DEF Heartbeat
<1>2. ASSUME NEW v \in Versions, f = AgentInfo(v)
      PROVE  f.type = "agent_info" /\ f.version \in Versions
  BY <1>2 DEF AgentInfo
<1>3. ASSUME NEW op \in Ops, NEW status \in {"running"} \cup Outcomes, f = OpStatus(op, status)
      PROVE  f.type = "agent_op_status" /\ f.op \in Ops /\ f.status \in {"running"} \cup Outcomes
  BY <1>3 DEF OpStatus
<1>4. ASSUME NEW op \in Ops, NEW from \in 0..MaxOutput, NEW to \in 0..MaxOutput,
             f = OpLog(op, from, to)
      PROVE  /\ f.type = "agent_op_log"
             /\ f.op \in Ops /\ f.from \in 0..MaxOutput /\ f.to \in 0..MaxOutput
  BY <1>4 DEF OpLog
<1>5. CASE f \in Reports
  BY <1>5 DEF Reports
<1>6. CASE f \in LogChunks
  BY <1>6 DEF LogChunks, LineNos
<1> QED
  BY <1>1, <1>2, <1>3, <1>4, <1>5, <1>6 DEF Frames, OpFrames

\* The Hub's ledger takes a frame.
LEMMA HearTypes == ASSUME OpsTypeOK, NEW f \in Frames, HearOp(f) PROVE OpsTypeOK'
<1> USE DEF OpsTypeOK
<1>1. agent' \in Versions /\ UNCHANGED <<exec, execJob, upgradeJob, version>>
  BY FrameTypes DEF HearOp
<1>2. ledger' \in [Ops -> Ledgers]
  <2>1. CASE f.type = "agent_op_status"
    <3>1. f.op \in Ops /\ f.status \in {"running"} \cup Outcomes
      BY <2>1, FrameTypes
    <3>2. PICK status \in {f.status, ledger[f.op].status} :
             ledger' = [ledger EXCEPT ![f.op].status = status]
      BY <2>1, <3>1 DEF HearOp
    <3>3. ledger[f.op].status \in {"queued", "running"} \cup Outcomes
      BY <3>1 DEF Ledgers
    <3>4. [ledger[f.op] EXCEPT !.status = status] \in Ledgers
      BY <3>1, <3>3 DEF Ledgers
    <3> QED
      BY <3>1, <3>2, <3>4
  <2>2. CASE f.type = "agent_op_log"
    <3>1. f.op \in Ops /\ f.from \in 0..MaxOutput /\ f.to \in 0..MaxOutput
      BY <2>2, FrameTypes
    <3>2. PICK piece : piece = [i \in 1..(f.to - f.from) |-> f.from + i]
      OBVIOUS
    <3>3. piece \in Seq(1..MaxOutput)
      <4>1. CASE f.to > f.from
        <5>1. f.to - f.from \in Nat /\ \A i \in 1..(f.to - f.from) : f.from + i \in 1..MaxOutput
          BY <3>1, <4>1, OpsAssumption
        <5>2. PICK m, N : m = f.to - f.from /\ N = 1..MaxOutput
          OBVIOUS
        <5>3. m \in Nat /\ piece \in [1..m -> N]
          BY <3>2, <5>1, <5>2
        <5>4. piece \in Seq(N)
          BY <5>3
        <5> QED
          BY <5>2, <5>4
      <4>2. CASE ~(f.to > f.from)
        <5>1. 1..(f.to - f.from) = {}
          BY <3>1, <4>2
        <5>2. piece = << >>
          BY <3>2, <5>1
        <5>3. << >> \in Seq(1..MaxOutput)
          OBVIOUS
        <5> QED
          BY <5>2, <5>3
      <4> QED
        BY <4>1, <4>2
    <3>4. ledger[f.op] \in Ledgers /\ ledger[f.op].output \in Seq(1..MaxOutput)
      BY <3>1 DEF Ledgers
    <3>5. ledger[f.op].output \o piece \in Seq(1..MaxOutput)
      BY <3>3, <3>4, ConcatProperties
    <3>6. \A output \in Seq(1..MaxOutput) : [ledger[f.op] EXCEPT !.output = output] \in Ledgers
      BY <3>4 DEF Ledgers
    <3>7. ledger' = [ledger EXCEPT ![f.op].output = @ \o piece]
      BY <2>2, <3>2 DEF HearOp
    <3> QED
      BY <3>1, <3>5, <3>6, <3>7
  <2>3. CASE f.type \notin {"agent_op_status", "agent_op_log"}
    BY <2>3 DEF HearOp
  <2> QED
    BY <2>1, <2>2, <2>3
<1> QED
  BY <1>1, <1>2
-----------------------------------------------------------------------------
(* The streams of logs. *)

\* The goroutines that send a log.
Streamers ==
    [step : {"none", "seek", "ship", "idle"}, attempt : 0..MaxAttempts, chunks : Seq(Seq(LineNos))]

\* A stream that ships has chunks left, of a pod's log, that are as large as they may be; one
\* that looks for the pod has attempts left.
StreamOK(x) ==
    /\ x \in Streamers
    /\ x.step \in {"none", "seek"} => x.attempt < MaxAttempts
    /\ IF x.step = "ship" THEN pod /\ x.chunks # << >> /\ Fit(x.chunks) ELSE x.chunks = << >>

\* The log, its streams and what the Hub has of it.
LogsKept ==
    /\ podLog \in Logs \cup {<< >>}
    /\ pod \in BOOLEAN
    /\ ~pod => podLog = << >>
    /\ written \in 0..Len(podLog)
    /\ streaming \in BOOLEAN
    /\ DOMAIN streamers = Streams /\ streamers = [s \in Streams |-> streamers[s]]
    /\ \A s \in Streams : StreamOK(streamers[s])
    /\ logHeard \in Seq(LineNos)

\* It is a log.
LEMMA LogsKeptOK == LogsKept => LogOK
<1>1. << >> \in Seq(Nat \ {0})
  OBVIOUS
<1> QED
  BY <1>1, LogsAssumption DEF LogsKept, LogOK

\* All that is about logs has its type.
LEMMA LogsKeptTypes == LogsKept => LogsTypeOK
<1> SUFFICES ASSUME LogsKept PROVE LogsTypeOK
  OBVIOUS
<1>1. \A s \in Streams : streamers[s] \in Streamers
  BY DEF LogsKept, StreamOK
<1>2. streamers \in [Streams -> Streamers]
  BY <1>1 DEF LogsKept
<1> QED
  BY <1>2 DEF LogsKept, LogsTypeOK, Streamers, LineNos

\* The chunks in hand fit.
LEMMA LogsKeptFit == LogsKept => ChunksFit
<1> SUFFICES ASSUME LogsKept, NEW s \in Streams PROVE Fit(streamers[s].chunks)
  BY DEF ChunksFit, Fit, Small, Full
<1>1. StreamOK(streamers[s])
  BY DEF LogsKept
<1>2. Fit(<< >>)
  BY DEF Fit
<1> QED
  BY <1>1, <1>2 DEF StreamOK

\* While the log is the same, so is what may become of it.
LEMMA StreamStays ==
    ASSUME UNCHANGED <<podLog, pod>>
    PROVE  \A x : StreamOK(x) => StreamOK(x)'
<1>1. \A c : Size(c)' = Size(c)
  BY DEF Size
<1>2. \A c : Fit(c) => Fit(c)'
  BY <1>1 DEF Fit, Small, Full
<1>3. Streamers' = Streamers
  BY DEF Streamers, LineNos
<1> QED
  BY <1>2, <1>3 DEF StreamOK

\* A stream that has not begun, and one that is over.
LEMMA RestingStreams == StreamOK(NoStream) /\ StreamOK(Over) /\ Over.step = "idle"
<1>1. << >> \in Seq(Seq(LineNos)) /\ MaxAttempts \in Nat \ {0}
  BY LogsAssumption
<1>2. NoStream.step = "none" /\ NoStream.attempt = 0 /\ NoStream.chunks = << >>
  BY DEF NoStream
<1>3. Over = [step |-> "idle", attempt |-> 0, chunks |-> << >>]
  BY DEF Over, NoStream
<1>4. Over.step = "idle" /\ Over.attempt = 0 /\ Over.chunks = << >>
  BY <1>3
<1>5. NoStream \in Streamers
  BY <1>1 DEF NoStream, Streamers
<1>6. Over \in Streamers
  BY <1>1, <1>3 DEF Streamers
<1> QED
  BY <1>1, <1>2, <1>4, <1>5, <1>6 DEF StreamOK

\* One stream goes on.
LEMMA OneStreams ==
    ASSUME LogsKept, NEW s \in Streams, NEW n, StreamOK(n), streaming' \in BOOLEAN,
           streamers' = [streamers EXCEPT ![s] = n], UNCHANGED <<podLog, pod, written, logHeard>>
    PROVE  LogsKept'
<1>1. DOMAIN streamers' = Streams /\ streamers' = [t \in Streams |-> streamers'[t]]
  BY DEF LogsKept
<1>2. \A t \in Streams : streamers'[t] = IF t = s THEN n ELSE streamers[t]
  BY DEF LogsKept
<1>3. \A t \in Streams : StreamOK(streamers'[t])
  BY <1>2 DEF LogsKept
<1>4. \A t \in Streams : StreamOK(streamers[t])'
  <2>1. TAKE t \in Streams
  <2>2. PICK x : x = streamers'[t]
    OBVIOUS
  <2>3. StreamOK(x)'
    BY <1>3, <2>2, StreamStays
  <2> QED
    BY <2>2, <2>3
<1>5. UNCHANGED <<LineNos, Streams>>
  BY DEF LineNos, Streams
<1> QED
  BY <1>1, <1>4, <1>5 DEF LogsKept

\* A goroutine's record, by its fields, whatever the chunks are.
LEMMA StreamerType ==
    ASSUME NEW step \in {"none", "seek", "ship", "idle"}, NEW attempt \in 0..MaxAttempts,
           NEW Q, NEW chunks \in Q,
           NEW x, x = [step |-> step, attempt |-> attempt, chunks |-> chunks]
    PROVE  x \in [step : {"none", "seek", "ship", "idle"}, attempt : 0..MaxAttempts, chunks : Q]
BY Zenon

\* What becomes of a stream that has read the log, and of one that has sent a chunk.
Shipping(x, chunks) == [x EXCEPT !.step = "ship", !.chunks = chunks]
Leaving(x, chunks) == [x EXCEPT !.chunks = chunks]

\* Its fields, when one is set.
LEMMA StreamUpdates ==
    ASSUME NEW x \in Streamers, NEW left
    PROVE  /\ Leaving(x, left) = [step |-> x.step, attempt |-> x.attempt, chunks |-> left]
           /\ Shipping(x, left) = [step |-> "ship", attempt |-> x.attempt, chunks |-> left]
<1> USE DEF Leaving, Shipping
<1> DEFINE next == "ship"
<1> HIDE DEF next
<1>0. PICK S, R, Q : x \in [step : S, attempt : R, chunks : Q]
  BY Zenon DEF Streamers
<1>1. [x EXCEPT !.chunks = left] = [step |-> x.step, attempt |-> x.attempt, chunks |-> left]
  BY <1>0
<1>2. PICK y : y = [x EXCEPT !.step = next]
  OBVIOUS
<1>3. y = [step |-> next, attempt |-> x.attempt, chunks |-> x.chunks]
  BY <1>0, <1>2
<1>4. /\ y \in [step : S \cup {next}, attempt : R, chunks : Q]
      /\ y.step = next /\ y.attempt = x.attempt
  BY <1>0, <1>3
<1>5. [y EXCEPT !.chunks = left] = [step |-> y.step, attempt |-> y.attempt, chunks |-> left]
  BY <1>4
<1>6. [x EXCEPT !.step = next, !.chunks = left] = [y EXCEPT !.chunks = left]
  BY <1>2
<1> QED
  BY <1>1, <1>4, <1>5, <1>6 DEF next

\* The types of its fields.
LEMMA StreamTypes ==
    ASSUME NEW x \in Streamers
    PROVE  /\ x.attempt \in 0..MaxAttempts
           /\ x.chunks \in Seq(Seq(LineNos))
           /\ x = [step |-> x.step, attempt |-> x.attempt, chunks |-> x.chunks]
BY DEF Streamers

\* A record with such fields is one.
LEMMA StreamRecord ==
    ASSUME NEW step \in {"none", "seek", "ship", "idle"}, NEW attempt \in 0..MaxAttempts,
           NEW chunks \in Seq(Seq(LineNos)),
           NEW x, x = [step |-> step, attempt |-> attempt, chunks |-> chunks]
    PROVE  x \in Streamers /\ x.step = step /\ x.attempt = attempt /\ x.chunks = chunks
<1>1. x.step = step /\ x.attempt = attempt /\ x.chunks = chunks
  OBVIOUS
<1>2. x \in Streamers
  BY Zenon DEF Streamers
<1> QED
  BY <1>1, <1>2

\* The Job is started, or started again.
LEMMA StartStreamKeeps ==
    ASSUME LogsKept, NEW s \in Streams, StartStream(s) PROVE LogsKept'
<1>1. StreamOK(streamers[s]) /\ streamers[s].step = "none"
  <2>1. s \in Nat
    BY LogsAssumption DEF Streams
  <2> QED
    BY <2>1 DEF LogsKept, StartStream
<1>2. PICK x : x = streamers[s]
  OBVIOUS
<1>3. PICK n : n = [step |-> "seek", attempt |-> x.attempt, chunks |-> x.chunks]
  OBVIOUS
<1>4. x \in Streamers /\ x.attempt < MaxAttempts /\ x.chunks = << >>
  BY <1>1, <1>2 DEF StreamOK
<1>5. n = [x EXCEPT !.step = "seek"]
  BY <1>3, <1>4 DEF Streamers
<1>6. n \in Streamers /\ n.step = "seek" /\ n.attempt = x.attempt /\ n.chunks = x.chunks
  BY <1>3, <1>4, StreamTypes, StreamRecord
<1>7. StreamOK(n)
  BY <1>4, <1>6 DEF StreamOK
<1>8. streamers' = [streamers EXCEPT ![s] = IF streaming THEN Over ELSE n]
  BY <1>2, <1>5 DEF StartStream
<1> QED
  BY <1>7, <1>8, OneStreams, RestingStreams DEF StartStream

\* The pod's log is chosen when no stream has anything of it.
LEMMA PodWritesKeeps == ASSUME LogsKept, PodWrites PROVE LogsKept'
<1>1. CASE pod
  <2>1. written' \in 0..Len(podLog) /\ UNCHANGED <<podLog, pod, streaming, streamers, logHeard>>
    <3>1. Len(podLog) \in Nat
      BY LogsKeptOK, LineFacts
    <3> QED
      BY <1>1, <3>1 DEF PodWrites, LogsKept
  <2>2. \A s \in Streams : StreamOK(streamers[s])'
    BY <2>1, StreamStays DEF LogsKept
  <2> QED
    BY <2>1, <2>2 DEF LogsKept, LineNos, Streams
<1>2. CASE ~pod
  <2>1. /\ podLog' \in Logs /\ pod' = TRUE
        /\ UNCHANGED <<written, streaming, streamers, logHeard>>
    BY <1>2 DEF PodWrites
  <2>2. podLog = << >> /\ LineNos = {} /\ written = 0
    <3>1. podLog = << >> /\ Len(<< >>) = 0
      BY <1>2 DEF LogsKept
    <3> QED
      BY <3>1 DEF LogsKept, LineNos
  <2>3. Len(podLog') \in Nat
    BY <2>1, LogsAssumption
  <2>4. logHeard' \in Seq(LineNos')
    BY <2>1, <2>2 DEF LogsKept
  <2>5. ASSUME NEW s \in Streams PROVE StreamOK(streamers[s])'
    <3>1. PICK x : x = streamers[s]
      OBVIOUS
    <3>2. StreamOK(x)
      BY <3>1 DEF LogsKept
    <3>3. x.step # "ship" /\ x.chunks = << >> /\ x \in Streamers
      BY <1>2, <3>2 DEF StreamOK
    <3>4. << >> \in Seq(Seq(LineNos'))
      OBVIOUS
    <3>5. x.step \in {"none", "seek", "ship", "idle"} /\ x.attempt \in 0..MaxAttempts
          /\ x = [step |-> x.step, attempt |-> x.attempt, chunks |-> << >>]
      BY <3>3 DEF Streamers
    <3>6. x \in Streamers'
      <4>1. PICK Q : Q = Seq(Seq(LineNos'))
        OBVIOUS
      <4>2. x \in [step : {"none", "seek", "ship", "idle"}, attempt : 0..MaxAttempts, chunks : Q]
        BY <3>4, <3>5, <4>1, StreamerType
      <4> QED
        BY <4>1, <4>2, Zenon DEF Streamers
    <3>7. StreamOK(x)'
      BY <3>2, <3>3, <3>6 DEF StreamOK
    <3> QED
      BY <2>1, <3>1, <3>7
  <2> QED
    BY <2>1, <2>2, <2>3, <2>4, <2>5 DEF LogsKept, Streams
<1> QED
  BY <1>1, <1>2

\* What is left of chunks that fit when the first is sent.
LEMMA TailFits ==
    ASSUME NEW chunks \in Seq(Seq(LineNos)), chunks # << >>, Fit(chunks), Len(chunks) # 1
    PROVE  Tail(chunks) \in Seq(Seq(LineNos)) /\ Tail(chunks) # << >> /\ Fit(Tail(chunks))
<1>1. PICK t : t = Tail(chunks)
  OBVIOUS
<1>2. /\ t \in Seq(Seq(LineNos)) /\ Len(t) = Len(chunks) - 1 /\ Len(t) \in Nat /\ Len(t) # 0
      /\ Len(chunks) \in Nat
      /\ \A i \in 1..Len(t) : t[i] = chunks[i + 1]
  BY <1>1
<1>3. t # << >>
  <2>1. Len(<< >>) = 0
    OBVIOUS
  <2> QED
    BY <1>2, <2>1
<1>4. ASSUME NEW i \in 1..Len(t) PROVE Small(t[i]) /\ (i < Len(t) => Full(t[i], t[i + 1]))
  <2>1. i + 1 \in 1..Len(chunks) /\ t[i] = chunks[i + 1]
    BY <1>2
  <2>2. i < Len(t) => i + 1 < Len(chunks) /\ t[i + 1] = chunks[(i + 1) + 1]
    <3> SUFFICES ASSUME i < Len(t)
                  PROVE  i + 1 < Len(chunks) /\ t[i + 1] = chunks[(i + 1) + 1]
      OBVIOUS
    <3>1. PICK j : j = i + 1
      OBVIOUS
    <3>2. j \in 1..Len(t) /\ j < Len(chunks)
      BY <1>2, <3>1
    <3>3. t[j] = chunks[j + 1]
      BY <1>2, <3>2
    <3> QED
      BY <3>1, <3>2, <3>3
  <2> QED
    BY <2>1, <2>2 DEF Fit
<1> QED
  BY <1>1, <1>2, <1>3, <1>4 DEF Fit

\* A goroutine of a stream goes on.
LEMMA StreamingKeeps ==
    ASSUME LogsKept, NEW s \in Streams, Streaming(s) PROVE LogsKept'
<1>1. PICK x : x = streamers[s]
  OBVIOUS
<1>2. StreamOK(x) /\ x \in Streamers /\ x.attempt \in 0..MaxAttempts
      /\ x.chunks \in Seq(Seq(LineNos))
  BY <1>1, StreamTypes DEF LogsKept, StreamOK
<1>3. ASSUME NEW n, StreamOK(n), Continue(s, n) PROVE LogsKept'
  <2>1. streaming' \in BOOLEAN
    BY <1>3 DEF Continue, LogsKept
  <2> QED
    BY <1>3, <2>1, OneStreams DEF Continue
<1>4. CASE PodNotThere(s)
  <2>1. CASE x.attempt + 1 = MaxAttempts
    BY <1>1, <1>3, <1>4, <2>1, RestingStreams DEF PodNotThere
  <2>2. CASE x.attempt + 1 # MaxAttempts
    <3>1. x.step = "seek" /\ x.attempt < MaxAttempts /\ x.chunks = << >>
      BY <1>1, <1>2, <1>4 DEF PodNotThere, StreamOK
    <3>2. x.attempt + 1 \in 0..MaxAttempts /\ x.attempt + 1 < MaxAttempts
      BY <1>2, <2>2, <3>1, LogsAssumption
    <3>3. PICK n : n = [step |-> "seek", attempt |-> x.attempt + 1, chunks |-> x.chunks]
      OBVIOUS
    <3>4. n = [x EXCEPT !.attempt = @ + 1]
      BY <1>2, <3>1, <3>3, StreamTypes DEF Streamers
    <3>5. n \in Streamers /\ n.step = "seek" /\ n.attempt = x.attempt + 1 /\ n.chunks = x.chunks
      BY <1>2, <3>2, <3>3, StreamRecord
    <3>6. StreamOK(n)
      BY <3>1, <3>2, <3>5 DEF StreamOK
    <3>7. Continue(s, n)
      BY <1>1, <1>4, <2>2, <3>4 DEF PodNotThere
    <3> QED
      BY <1>3, <3>6, <3>7
  <2> QED
    BY <2>1, <2>2
<1>5. CASE ReadLog(s)
  <2>1. CASE written = 0 \/ \E line \in LineNumbers : podLog[line] > MaxLine
    BY <1>3, <1>5, <2>1, RestingStreams DEF ReadLog
  <2>2. CASE ~(written = 0 \/ \E line \in LineNumbers : podLog[line] > MaxLine)
    <3>1. PICK chunks : chunks = SplitChunks(written)
      OBVIOUS
    <3>2. written \in 0..Len(podLog) /\ pod
      BY <1>5 DEF LogsKept, ReadLog
    <3>3. /\ chunks \in Seq(Seq(LineNos)) /\ Fit(chunks)
          /\ FlattenSeq(chunks) = Numbers(written)
      BY <3>1, <3>2, LogsKeptOK, ChunksAreTheLog
    <3>4. chunks # << >>
      <4>1. Numbers(written) # << >>
        <5>1. written \in Nat /\ written # 0
          BY <2>2, <3>2, LogsKeptOK, LineFacts
        <5>2. Len(Numbers(written)) = written
          BY <5>1 DEF Numbers
        <5>3. Len(<< >>) = 0
          OBVIOUS
        <5> QED
          BY <5>1, <5>2, <5>3
      <4> QED
        BY <3>3, <4>1, FlattenEmpty
    <3>5. PICK n : n = [step |-> "ship", attempt |-> 0, chunks |-> chunks]
      OBVIOUS
    <3>6. n = [NoStream EXCEPT !.step = "ship", !.chunks = SplitChunks(written)]
      <4>1. NoStream \in Streamers /\ NoStream.attempt = 0
        BY RestingStreams DEF StreamOK, NoStream
      <4>2. n = Shipping(NoStream, chunks)
        BY <3>5, <4>1, StreamUpdates
      <4> QED
        BY <3>1, <4>2 DEF Shipping
    <3>7. n \in Streamers /\ n.step = "ship" /\ n.attempt = 0 /\ n.chunks = chunks
      BY <3>3, <3>5, StreamRecord, LogsAssumption
    <3>8. StreamOK(n)
      BY <3>2, <3>3, <3>4, <3>7 DEF StreamOK
    <3>9. Continue(s, n)
      BY <1>5, <2>2, <3>6 DEF ReadLog
    <3> QED
      BY <1>3, <3>8, <3>9
  <2> QED
    BY <2>1, <2>2
<1>6. CASE SendLogChunk(s)
  <2>1. CASE Len(x.chunks) = 1
    BY <1>1, <1>3, <1>6, <2>1, RestingStreams DEF SendLogChunk
  <2>2. CASE Len(x.chunks) # 1
    <3>1. x.step = "ship" /\ pod /\ x.chunks # << >> /\ Fit(x.chunks)
      BY <1>1, <1>2, <1>6 DEF SendLogChunk, StreamOK
    <3>2. PICK chunks : chunks = Tail(x.chunks)
      OBVIOUS
    <3>3. chunks \in Seq(Seq(LineNos)) /\ chunks # << >> /\ Fit(chunks)
      BY <1>2, <2>2, <3>1, <3>2, TailFits
    <3>4. PICK n : n = [step |-> "ship", attempt |-> x.attempt, chunks |-> chunks]
      OBVIOUS
    <3>5. n = [x EXCEPT !.chunks = Tail(@)]
      <4>1. n = Leaving(x, chunks)
        BY <1>2, <3>1, <3>4, StreamUpdates
      <4> QED
        BY <3>2, <4>1 DEF Leaving
    <3>6. n \in Streamers /\ n.step = "ship" /\ n.chunks = chunks
      BY <1>2, <3>3, <3>4, StreamRecord
    <3>7. StreamOK(n)
      BY <3>1, <3>3, <3>6 DEF StreamOK
    <3>8. Continue(s, n)
      BY <1>1, <1>6, <2>2, <3>5 DEF SendLogChunk
    <3> QED
      BY <1>3, <3>7, <3>8
  <2> QED
    BY <2>1, <2>2
<1> QED
  BY <1>4, <1>5, <1>6 DEF Streaming

\* The streams end with the process.
LEMMA LogsRestartKeeps == ASSUME LogsKept, LogsRestart PROVE LogsKept'
<1>1. \A s \in Streams : streamers'[s] = NoStream \/ streamers'[s] = Over
  BY DEF LogsRestart
<1>2. DOMAIN streamers' = Streams /\ streamers' = [s \in Streams |-> streamers'[s]]
  BY DEF LogsRestart
<1>3. \A s \in Streams : StreamOK(streamers[s])'
  <2>1. TAKE s \in Streams
  <2>2. PICK x : x = streamers'[s]
    OBVIOUS
  <2>3. StreamOK(x)'
    BY <1>1, <2>2, RestingStreams, StreamStays DEF LogsRestart
  <2> QED
    BY <2>2, <2>3
<1> QED
  BY <1>2, <1>3 DEF LogsKept, LogsRestart, LineNos, Streams

\* The Hub gets a frame.
LEMMA HearLogKeeps == ASSUME LogsKept, NEW f \in Frames, HearLog(f) PROVE LogsKept'
<1>1. logHeard' \in Seq(LineNos)
  <2>1. CASE f.type = "log_chunk"
    <3>1. f.lines \in Seq(LineNos) /\ logHeard \in Seq(LineNos)
      BY <2>1, FrameTypes DEF LogsKept
    <3> QED
      BY <2>1, <3>1, ConcatProperties DEF HearLog
  <2>2. CASE f.type # "log_chunk"
    BY <2>2 DEF HearLog, LogsKept
  <2> QED
    BY <2>1, <2>2
<1>2. \A s \in Streams : StreamOK(streamers[s])'
  BY StreamStays DEF LogsKept, HearLog
<1> QED
  BY <1>1, <1>2 DEF LogsKept, HearLog, LineNos, Streams

\* Nothing is sent yet.
LEMMA LogsInitKept == Init => LogsKept
<1> SUFFICES ASSUME Init PROVE LogsKept
  OBVIOUS
<1>1. \A s \in Streams : StreamOK(streamers[s])
  BY RestingStreams DEF Init, LogsInit
<1>2. << >> \in Seq(LineNos) /\ Len(<< >>) = 0
  OBVIOUS
<1> QED
  <2>1. /\ podLog = << >> /\ pod = FALSE /\ written = 0 /\ streaming = FALSE
        /\ streamers = [s \in Streams |-> NoStream] /\ logHeard = << >>
    BY DEF Init, LogsInit
  <2>2. DOMAIN streamers = Streams /\ streamers = [s \in Streams |-> streamers[s]]
    BY <2>1
  <2>3. written \in 0..Len(podLog) /\ logHeard \in Seq(LineNos)
    BY <1>2, <2>1
  <2> QED
    BY <1>1, <2>1, <2>2, <2>3 DEF LogsKept

\* What is not touched stays.
LEMMA LogsStand == ASSUME LogsKept, UNCHANGED logs PROVE LogsKept'
<1>1. \A s \in Streams : StreamOK(streamers[s])'
  BY StreamStays DEF LogsKept, logs
<1> QED
  BY <1>1 DEF LogsKept, logs, LineNos, Streams
-----------------------------------------------------------------------------
(* The types of the connection, and of all. *)

\* The connection, but for the outbox.
LinkTypes ==
    /\ link \in LinkStates /\ alive \in BOOLEAN
    /\ backoff \in 1..(2 * BackoffCap - 1)
    /\ enrollment \in Enrollments /\ faults \in 0..MaxFaults

\* The invariant: everything has its type, and the streams are as LogsKept says.
Typed ==
    /\ outbox \in Seq(Frames) /\ Len(outbox) <= OutboxCap
    /\ LinkTypes
    /\ ReportsTypeOK
    /\ OpsTypeOK
    /\ LogsKept

\* A frame that was sent, is taken or is left.
LEMMA SendTypes ==
    ASSUME NEW S, outbox \in Seq(S), NEW f \in S, Send(f)
    PROVE  outbox' \in Seq(S) /\ Len(outbox') <= OutboxCap
<1>1. outbox' = Append(outbox, f) /\ Len(outbox) < OutboxCap /\ OutboxCap \in Nat
  BY ConnectorAssumption DEF Send
<1>2. outbox' \in Seq(S) /\ Len(outbox') = Len(outbox) + 1 /\ Len(outbox) \in Nat
  BY <1>1
<1> QED
  BY <1>1, <1>2

\* A frame that is taken from the outbox.
LEMMA TakeTypes ==
    ASSUME NEW S, outbox \in Seq(S), Len(outbox) <= OutboxCap, TakeFrame
    PROVE  outbox' \in Seq(S) /\ Len(outbox') <= OutboxCap /\ Head(outbox) \in S
<1>1. outbox' = Tail(outbox) /\ outbox # << >> /\ OutboxCap \in Nat
  BY ConnectorAssumption DEF TakeFrame
<1>2. outbox' \in Seq(S) /\ Len(outbox') = Len(outbox) - 1 /\ Len(outbox) \in Nat
      /\ Head(outbox) \in S
  BY <1>1
<1> QED
  BY <1>1, <1>2

\* Faults are bounded.
LEMMA FaultTypes ==
    ASSUME faults \in 0..MaxFaults, Fault \/ NoFault PROVE faults' \in 0..MaxFaults
BY ConnectorAssumption DEF Fault, NoFault

\* The backoff is doubled until it is past its cap, and so is never twice the cap.
LEMMA RetreatTypes ==
    ASSUME LinkTypes, Retreat
    PROVE  link' \in LinkStates /\ alive' \in BOOLEAN /\ backoff' \in 1..(2 * BackoffCap - 1)
<1>1. backoff' = NextBackoff /\ link' = "dial" /\ alive' = FALSE
  BY DEF Retreat
<1>2. NextBackoff \in 1..(2 * BackoffCap - 1)
  BY ConnectorAssumption DEF LinkTypes, NextBackoff
<1> QED
  BY <1>1, <1>2 DEF LinkStates

\* A step keeps the types of the connection,
LEMMA LinkStepTypes == LinkTypes /\ [Next]_vars => LinkTypes'
<1> SUFFICES ASSUME LinkTypes, [Next]_vars PROVE LinkTypes'
  OBVIOUS
<1>0. faults \in 0..MaxFaults
  BY DEF LinkTypes
<1>1. CASE Refused
  <2>1. Retreat /\ NoFault /\ UNCHANGED enrollment
    BY <1>1 DEF Refused, DialFails
  <2> QED
    BY <1>0, <2>1, RetreatTypes, FaultTypes DEF LinkTypes
<1>2. CASE Connecting
  BY <1>0, <1>2, FaultTypes DEF Connecting, DialSucceeds, LinkTypes, LinkStates, Enrollments
<1>3. CASE BurnToken
  <2>1. enrollment' = "burned" /\ Fault
    BY <1>3 DEF BurnToken, DialBurnsToken
  <2>2. Retreat \/ (link' = "identify" /\ alive' = TRUE /\ UNCHANGED backoff)
    BY <1>3 DEF BurnToken, DialBurnsToken
  <2> QED
    BY <1>0, <2>1, <2>2, RetreatTypes, FaultTypes DEF LinkTypes, LinkStates, Enrollments
<1>4. CASE Announcing \/ Ticking \/ Beating \/ Breaking
  <2>1. link' \in LinkStates /\ alive' \in BOOLEAN /\ UNCHANGED <<backoff, enrollment>>
    BY <1>4 DEF Announcing, Ticking, Beating, Breaking, Identify, HeartbeatDue, SendHeartbeat,
                ConnectionBreaks, LinkTypes, LinkStates
  <2>2. Fault \/ NoFault
    BY <1>4 DEF Announcing, Ticking, Beating, Breaking, Identify, HeartbeatDue, SendHeartbeat,
                ConnectionBreaks
  <2> QED
    BY <1>0, <2>1, <2>2, FaultTypes DEF LinkTypes
<1>5. CASE Noticing
  <2>1. Retreat /\ NoFault /\ UNCHANGED enrollment
    BY <1>5 DEF Noticing, ReadFails
  <2> QED
    BY <1>0, <2>1, RetreatTypes, FaultTypes DEF LinkTypes
<1>6. CASE Resyncing
  <2>1. link' \in LinkStates /\ NoFault /\ UNCHANGED <<alive, backoff, enrollment>>
    BY <1>6 DEF Resyncing, BeginResync, SkipResync, SendResync, LinkStates
  <2> QED
    BY <1>0, <2>1, FaultTypes DEF LinkTypes
<1>7. CASE Delivering
  <2>1. NoFault /\ UNCHANGED <<link, alive, backoff, enrollment>>
    BY <1>7 DEF Delivering, WriteArrives, TakeFrame
  <2> QED
    BY <1>0, <2>1, FaultTypes DEF LinkTypes
<1>8. CASE Losing
  <2>1. NoFault /\ UNCHANGED enrollment /\ (Retreat \/ UNCHANGED <<link, alive, backoff>>)
    BY <1>8 DEF Losing, WriteIsLost, TakeFrame
  <2> QED
    BY <1>0, <2>1, RetreatTypes, FaultTypes DEF LinkTypes
<1>9. CASE Restart \/ Upgrade
  <2>1. link' = "dial" /\ alive' = FALSE /\ backoff' = 1 /\ UNCHANGED enrollment
    BY <1>9 DEF Restart, Upgrade, NewProcess, ConnectorRestart
  <2>2. Fault \/ NoFault
    BY <1>9 DEF Restart, Upgrade
  <2>3. 1 \in 1..(2 * BackoffCap - 1)
    BY ConnectorAssumption
  <2> QED
    BY <1>0, <2>1, <2>2, <2>3, FaultTypes DEF LinkTypes, LinkStates
<1>10. CASE UNCHANGED connection /\ (Fault \/ NoFault)
  BY <1>0, <1>10, FaultTypes DEF connection, LinkTypes
<1>11. ASSUME NEW d \in Deliveries, Operating(d) \/ Timeout(d) \/ OperationFails(d)
       PROVE  UNCHANGED connection /\ (Fault \/ NoFault)
  BY <1>11 DEF Operating, Timeout, OperationFails, ReadLogsFails, ProbeUpgradeFails,
               CreateUpgradeJobFails
<1>12. ASSUME \/ Reconciling \/ Commanding \/ JobStarts
              \/ \E report \in reporting : Queueing(report)
              \/ \E s \in Streams : Streaming(s)
       PROVE  UNCHANGED connection /\ NoFault
  BY <1>12 DEF Reconciling, Commanding, JobStarts, Queueing, Streaming
<1>13. CASE UNCHANGED vars
  BY <1>13 DEF vars, connector, LinkTypes
<1> QED
  BY <1>1, <1>2, <1>3, <1>4, <1>5, <1>6, <1>7, <1>8, <1>9, <1>10, <1>11, <1>12, <1>13 DEF Next

\* of the operations
LEMMA OpsStepTypes == Typed /\ [Next]_vars => OpsTypeOK'
<1> SUFFICES ASSUME Typed, [Next]_vars PROVE OpsTypeOK'
  OBVIOUS
<1>0. OpsTypeOK
  BY DEF Typed
<1>1. CASE UNCHANGED ops
  BY <1>0, <1>1 DEF ops, OpsTypeOK
<1>2. CASE Delivering
  <2>1. Head(outbox) \in Frames
    BY <1>2, TakeTypes DEF Typed, Delivering, WriteArrives
  <2> QED
    BY <1>0, <1>2, <2>1, HearTypes DEF Delivering
<1> QED
  BY <1>0, <1>1, <1>2, OperatingTypes, CommandingTypes, EndTypes
     DEF Next, vars, Refused, Connecting, BurnToken, Announcing, Resyncing, Ticking, Beating,
         Noticing, Breaking, Losing, Reconciling, Queueing, Streaming, JobStarts

\* and of the logs.
LEMMA LogsStepTypes == Typed /\ [Next]_vars => LogsKept'
<1> SUFFICES ASSUME Typed, [Next]_vars PROVE LogsKept'
  OBVIOUS
<1>0. LogsKept
  BY DEF Typed
<1>1. CASE UNCHANGED logs
  BY <1>0, <1>1, LogsStand
<1>2. CASE Delivering
  <2>1. Head(outbox) \in Frames
    BY <1>2, TakeTypes DEF Typed, Delivering, WriteArrives
  <2> QED
    BY <1>0, <1>2, <2>1, HearLogKeeps DEF Delivering
<1>3. CASE JobStarts
  BY <1>0, <1>3, StartStreamKeeps, PodWritesKeeps DEF JobStarts
<1>4. CASE Restart \/ Upgrade
  BY <1>0, <1>4, LogsRestartKeeps DEF Restart, Upgrade, NewProcess
<1> QED
  BY <1>0, <1>1, <1>2, <1>3, <1>4, StreamingKeeps
     DEF Next, vars, Refused, Connecting, BurnToken, Announcing, Resyncing, Ticking, Beating,
         Noticing, Breaking, Losing, Reconciling, Queueing, Operating, Timeout, OperationFails,
         Commanding

\* A frame stays one: the log it may be of is chosen once.
LEMMA FramesStay == Typed /\ [Next]_vars => Frames \subseteq Frames'
<1> SUFFICES ASSUME Typed, [Next]_vars PROVE Frames \subseteq Frames'
  OBVIOUS
<1>1. UNCHANGED podLog \/ podLog = << >>
  <2>1. CASE JobStarts
    BY <2>1 DEF JobStarts, StartStream, PodWrites, Typed, LogsKept
  <2>2. CASE UNCHANGED logs
    BY <2>2 DEF logs
  <2>3. CASE Delivering
    BY <2>3 DEF Delivering, HearLog
  <2>4. CASE Restart \/ Upgrade
    BY <2>4 DEF Restart, Upgrade, NewProcess, LogsRestart
  <2>5. ASSUME NEW s \in Streams, Streaming(s) PROVE UNCHANGED podLog
    BY <2>5 DEF Streaming, PodNotThere, ReadLog, SendLogChunk, Continue
  <2> QED
    BY <2>1, <2>2, <2>3, <2>4, <2>5
       DEF Next, vars, Refused, Connecting, BurnToken, Announcing, Resyncing, Ticking, Beating,
           Noticing, Breaking, Losing, Reconciling, Queueing, Operating, Timeout, OperationFails,
           Commanding
<1>2. LineNos \subseteq LineNos'
  <2>1. CASE UNCHANGED podLog
    BY <2>1 DEF LineNos
  <2>2. CASE podLog = << >>
    <3>1. Len(<< >>) = 0
      OBVIOUS
    <3>2. LineNos = {}
      BY <2>2, <3>1 DEF LineNos
    <3> QED
      BY <3>2
  <2> QED
    BY <1>1, <2>1, <2>2
<1>3. Seq(LineNos) \subseteq Seq(LineNos')
  BY <1>2
<1>4. LogChunks \subseteq LogChunks'
  <2>1. LogChunks = [type : {"log_chunk"}, lines : Seq(LineNos)]
    BY DEF LogChunks, LineNos
  <2>2. LogChunks' = [type : {"log_chunk"}, lines : Seq(LineNos')]
    BY DEF LogChunks, LineNos
  <2> QED
    BY <1>3, <2>1, <2>2
<1> QED
  BY <1>4 DEF Frames

\* Whatever is put into the outbox is a frame.
LEMMA FramesSent ==
    ASSUME Typed
    PROVE  /\ Heartbeat \in Frames
           /\ AgentInfo(version) \in Frames
           /\ \A report \in Reports : report \in Frames
           /\ \A op \in Ops : \A status \in {"running"} \cup Outcomes :
                 OpStatus(op, status) \in Frames
           /\ \A op \in Ops : \A from, to \in 0..MaxOutput : OpLog(op, from, to) \in Frames
           /\ \A lines \in Seq(LineNos) : LogChunk(lines) \in Frames
<1>1. \A lines \in Seq(LineNos) : LogChunk(lines) \in LogChunks
  <2>1. TAKE lines \in Seq(LineNos)
  <2>2. LogChunk(lines) = [type |-> "log_chunk", lines |-> lines]
    BY DEF LogChunk
  <2>3. LogChunks = [type : {"log_chunk"}, lines : Seq(LineNos)]
    BY DEF LogChunks, LineNos
  <2> QED
    BY <2>2, <2>3
<1>2. version \in Versions
  BY DEF Typed, OpsTypeOK
<1> QED
  BY <1>1, <1>2 DEF Frames, OpFrames

\* What most steps do to the outbox: nothing, or one frame more, which has no lines of a log.
Says == UNCHANGED outbox \/ \E f \in Frames : Send(f) /\ f.type # "log_chunk"

\* The steps that have nothing to do with logs.
LEMMA OtherSteps ==
    ASSUME Typed,
           \/ Refused \/ Connecting \/ BurnToken \/ Announcing \/ Resyncing \/ Ticking \/ Beating
           \/ Noticing \/ Breaking \/ Reconciling \/ Commanding \/ JobStarts \/ UNCHANGED vars
           \/ \E report \in reporting : Queueing(report)
           \/ \E d \in Deliveries : Operating(d) \/ Timeout(d) \/ OperationFails(d)
    PROVE  Says
<1>1. CASE Announcing
  <2>1. AgentInfo(version).type # "log_chunk"
    BY DEF AgentInfo
  <2> QED
    BY <1>1, <2>1, FramesSent DEF Announcing, Identify, Says
<1>2. CASE Beating
  <2>1. Heartbeat.type # "log_chunk"
    BY DEF Heartbeat
  <2> QED
    BY <1>2, <2>1, FramesSent DEF Beating, SendHeartbeat, Says
<1>3. \A report \in Reports : report \in Frames /\ report.type # "log_chunk"
  BY FramesSent DEF Reports
<1>4. CASE Resyncing
  BY <1>3, <1>4 DEF Resyncing, SendResync, Says, Typed, ReportsTypeOK
<1>5. ASSUME NEW report \in reporting, Queueing(report) PROVE Says
  BY <1>3, <1>5 DEF Queueing, QueueReport, Says, Typed, ReportsTypeOK
<1>6. ASSUME NEW d \in Deliveries, Operating(d) \/ Timeout(d) \/ OperationFails(d) PROVE Says
  <2>1. /\ exec[d].op \in Ops /\ exec[d].outcome \in Outcomes
        /\ exec[d].sent \in 0..MaxOutput /\ exec[d].upto \in 0..MaxOutput
    BY DEF Typed, OpsTypeOK, Executions
  <2>2. \A op, status : OpStatus(op, status).type # "log_chunk"
    BY DEF OpStatus
  <2>3. \A op, from, to : OpLog(op, from, to).type # "log_chunk"
    BY DEF OpLog
  <2>4. CASE Announce(d)
    <3>1. OpStatus(exec[d].op, "running") \in Frames
      BY <2>1, FramesSent
    <3> QED
      BY <2>2, <2>4, <3>1 DEF Announce, Says
  <2>5. CASE ShipLogs(d)
    <3>1. OpLog(exec[d].op, exec[d].sent, exec[d].upto) \in Frames
      BY <2>1, FramesSent
    <3> QED
      BY <2>3, <2>5, <3>1 DEF ShipLogs, Says
  <2>6. CASE ReportOutcome(d)
    <3>1. OpStatus(exec[d].op, exec[d].outcome) \in Frames
      BY <2>1, FramesSent
    <3> QED
      BY <2>2, <2>6, <3>1 DEF ReportOutcome, Says
  <2>7. CASE TellInFlight(d)
    <3>1. OpLog(exec[d].op, 0, 0) \in Frames
      BY <2>1, FramesSent, OpsAssumption
    <3> QED
      BY <2>3, <2>7, <3>1 DEF TellInFlight, Says
  <2> QED
    BY <1>6, <2>4, <2>5, <2>6, <2>7 DEF Operating, Timeout, OperationFails, OpSends, Says
<1>7. CASE \/ Refused \/ Connecting \/ BurnToken \/ Ticking \/ Noticing \/ Breaking
           \/ Reconciling \/ Commanding \/ JobStarts \/ UNCHANGED vars
  BY <1>7 DEF Refused, Connecting, BurnToken, Ticking, Noticing, Breaking, Reconciling,
              Commanding, JobStarts, DialFails, DialSucceeds, DialBurnsToken, HeartbeatDue,
              ReadFails, ConnectionBreaks, vars, connector, Says
<1> QED
  BY <1>1, <1>2, <1>4, <1>5, <1>6, <1>7

\* The lines of the first chunk of a stream that ships.
LEMMA NextLines ==
    ASSUME Typed, NEW s \in Streams, SendLogChunk(s)
    PROVE  /\ streamers[s].chunks \in Seq(Seq(LineNos)) /\ streamers[s].chunks # << >>
           /\ Head(streamers[s].chunks) \in Seq(LineNos)
           /\ LogChunk(Head(streamers[s].chunks)) \in Frames
           /\ Send(LogChunk(Head(streamers[s].chunks)))
<1>1. StreamOK(streamers[s]) /\ streamers[s].step = "ship"
  BY DEF Typed, LogsKept, SendLogChunk
<1>2. streamers[s].chunks \in Seq(Seq(LineNos)) /\ streamers[s].chunks # << >>
  BY <1>1, StreamTypes DEF StreamOK
<1>3. Head(streamers[s].chunks) \in Seq(LineNos)
  BY <1>2
<1> QED
  BY <1>2, <1>3, FramesSent DEF SendLogChunk

\* A step keeps the outbox a queue of frames, and within its room.
LEMMA OutboxSteps ==
    ASSUME Typed, [Next]_vars
    PROVE  outbox' \in Seq(Frames) /\ Len(outbox') <= OutboxCap
<1>0. outbox \in Seq(Frames) /\ Len(outbox) <= OutboxCap
  BY DEF Typed
<1>1. CASE Says
  BY <1>0, <1>1, SendTypes DEF Says
<1>2. CASE Delivering \/ Losing
  BY <1>0, <1>2, TakeTypes DEF Delivering, WriteArrives, Losing, WriteIsLost
<1>3. ASSUME NEW s \in Streams, Streaming(s)
      PROVE  outbox' \in Seq(Frames) /\ Len(outbox') <= OutboxCap
  BY <1>0, <1>3, NextLines, SendTypes DEF Streaming
<1>4. CASE Restart \/ Upgrade
  <2>1. outbox' = << >>
    BY <1>4, ProcessEnds
  <2>2. << >> \in Seq(Frames) /\ Len(<< >>) = 0
    OBVIOUS
  <2> QED
    BY <2>1, <2>2, ConnectorAssumption
<1> QED
  BY <1>1, <1>2, <1>3, <1>4, OtherSteps DEF Next

\* The types hold at first,
LEMMA InitTyped == Init => Typed
<1> SUFFICES ASSUME Init PROVE Typed
  OBVIOUS
<1>1. LinkTypes
  <2>1. 1 \in 1..(2 * BackoffCap - 1) /\ 0 \in 0..MaxFaults
    BY ConnectorAssumption
  <2> QED
    BY <2>1 DEF Init, ConnectorInit, LinkTypes, LinkStates, Enrollments
<1>2. outbox \in Seq(Frames) /\ Len(outbox) <= OutboxCap
  <2>1. outbox = << >> /\ << >> \in Seq(Frames) /\ Len(<< >>) = 0
    BY DEF Init, ConnectorInit
  <2> QED
    BY <2>1, ConnectorAssumption
<1>3. OpsTypeOK
  <2>1. PICK op \in Ops : exec = [d \in Deliveries |-> Execution(op, "none", "failed")]
    BY OpsAssumption DEF Init, OpsInit
  <2>2. Execution(op, "none", "failed") \in Executions
    BY ExecutionType DEF ExecSteps, Outcomes
  <2>3. [status |-> "Absent", output |-> 0] \in Jobs
    BY OpsAssumption DEF Jobs
  <2>4. [status |-> "queued", output |-> << >>] \in Ledgers
    <3>1. << >> \in Seq(1..MaxOutput)
      OBVIOUS
    <3> QED
      BY <3>1 DEF Ledgers
  <2> QED
    BY <2>1, <2>2, <2>3, <2>4 DEF Init, OpsInit, OpsTypeOK, Versions
<1> QED
  BY <1>1, <1>2, <1>3, InitReports, LogsInitKept DEF Typed

\* are kept by every step
LEMMA StepKeepsTyped == Typed /\ [Next]_vars => Typed'
<1> SUFFICES ASSUME Typed, [Next]_vars PROVE Typed'
  OBVIOUS
<1>1. outbox' \in Seq(Frames') /\ Len(outbox') <= OutboxCap
  <2>1. Seq(Frames) \subseteq Seq(Frames')
    BY FramesStay
  <2> QED
    BY <2>1, OutboxSteps
<1>2. LinkTypes' /\ ReportsTypeOK' /\ OpsTypeOK' /\ LogsKept'
  BY LinkStepTypes, StepKeepsReportTypes, OpsStepTypes, LogsStepTypes DEF Typed
<1> QED
  BY <1>1, <1>2 DEF Typed

\* and so hold always.
LEMMA TypedAlways == Spec => []Typed
BY InitTyped, StepKeepsTyped, PTL DEF Spec

\* Everything keeps its type, and with it its bounds, for all values of them: no more frames
\* in the outbox than it has room for, no backoff of twice the cap, no Job that writes more
\* than all Jobs may, no line of a log that the pod has not (TypeOK).
THEOREM TypesKept == Spec => []TypeOK
<1>1. Typed => TypeOK
  <2> SUFFICES ASSUME Typed PROVE TypeOK
    OBVIOUS
  <2>1. ConnectorTypeOK(Frames)
    BY DEF Typed, LinkTypes, ConnectorTypeOK
  <2> QED
    BY <2>1, LogsKeptTypes DEF Typed, TypeOK
<1> QED
  BY <1>1, TypedAlways, PTL

\* The chunks of every log that is being sent are as large as they may be and no larger, for
\* every log, chunk size and number of streams (ChunksFit).
THEOREM ChunksAlwaysFit == Spec => []ChunksFit
<1>1. Typed => ChunksFit
  BY LogsKeptFit DEF Typed
<1> QED
  BY <1>1, TypedAlways, PTL
-----------------------------------------------------------------------------
(* The order of the lines. *)

\* The lines of a log in a frame, in the frames of a queue, and all the Hub has or will get.
LinesIn(f) == IF f.type = "log_chunk" THEN f.lines ELSE << >>
Parts(q) == [i \in 1..Len(q) |-> LinesIn(q[i])]
LinesOf(q) == FlattenSeq(Parts(q))
Known == Join(logHeard, LinesOf(outbox))

\* The lines in a frame are lines of the log,
LEMMA LinesInType == ASSUME NEW f \in Frames PROVE LinesIn(f) \in Seq(LineNos)
<1>1. CASE f.type = "log_chunk"
  BY <1>1, FrameTypes DEF LinesIn
<1>2. CASE f.type # "log_chunk"
  BY <1>2 DEF LinesIn
<1> QED
  BY <1>1, <1>2

\* those of a queue are sequences of them, one for each frame,
LEMMA PartsType ==
    ASSUME NEW q \in Seq(Frames)
    PROVE  Parts(q) \in Seq(Seq(LineNos)) /\ Len(Parts(q)) = Len(q)
<1>1. Len(q) \in Nat /\ \A i \in 1..Len(q) : q[i] \in Frames
  OBVIOUS
<1>2. PICK Q : Q = Seq(LineNos)
  OBVIOUS
<1>3. \A i \in 1..Len(q) : LinesIn(q[i]) \in Q
  BY <1>1, <1>2, LinesInType
<1>4. Parts(q) \in Seq(Q) /\ Len(Parts(q)) = Len(q)
  BY <1>1, <1>3 DEF Parts
<1> QED
  BY <1>2, <1>4

\* and together they are a sequence of lines.
LEMMA LinesOfType == ASSUME NEW q \in Seq(Frames) PROVE LinesOf(q) \in Seq(LineNos)
BY PartsType, FlattenType DEF LinesOf

\* An empty queue has none.
LEMMA LinesOfEmpty == LinesOf(<< >>) = << >>
<1>1. Parts(<< >>) = << >>
  <2>1. Len(<< >>) = 0
    OBVIOUS
  <2> QED
    BY <2>1 DEF Parts
<1> QED
  BY <1>1, FlattenEmpty DEF LinesOf

\* A frame that is put into the queue comes last.
LEMMA LinesOfAppend ==
    ASSUME NEW q \in Seq(Frames), NEW f \in Frames
    PROVE  LinesOf(Append(q, f)) = Join(LinesOf(q), LinesIn(f))
<1>1. Parts(Append(q, f)) = Append(Parts(q), LinesIn(f))
  <2>1. PICK t : t = Append(q, f)
    OBVIOUS
  <2>2. /\ Len(t) = Len(q) + 1 /\ Len(q) \in Nat /\ t[Len(q) + 1] = f
        /\ \A i \in 1..Len(q) : t[i] = q[i]
    BY <2>1
  <2>3. PICK p : p = Parts(q)
    OBVIOUS
  <2>4. PICK Q : Q = Seq(LineNos)
    OBVIOUS
  <2>5. p \in Seq(Q) /\ Len(p) = Len(q) /\ LinesIn(f) \in Q
        /\ \A i \in 1..Len(q) : p[i] = LinesIn(q[i])
    BY <2>3, <2>4, PartsType, LinesInType DEF Parts
  <2>6. PICK r : r = Append(p, LinesIn(f))
    OBVIOUS
  <2>7. /\ r = [i \in 1..(Len(q) + 1) |-> r[i]] /\ r[Len(q) + 1] = LinesIn(f)
        /\ \A i \in 1..Len(q) : r[i] = p[i]
    <3>1. r \in Seq(Q) /\ Len(r) = Len(q) + 1
      BY <2>5, <2>6
    <3>2. r = [i \in 1..Len(r) |-> r[i]]
      BY <3>1
    <3>3. r[Len(q) + 1] = LinesIn(f)
      BY <2>5, <2>6
    <3>4. \A i \in 1..Len(q) : r[i] = p[i]
      BY <2>5, <2>6
    <3> QED
      BY <3>1, <3>2, <3>3, <3>4
  <2>8. \A i \in 1..(Len(q) + 1) : r[i] = LinesIn(t[i])
    <3>1. TAKE i \in 1..(Len(q) + 1)
    <3>2. CASE i = Len(q) + 1
      BY <2>2, <2>7, <3>2
    <3>3. CASE i # Len(q) + 1
      <4>1. i \in 1..Len(q)
        BY <2>2, <3>3
      <4> QED
        BY <2>2, <2>5, <2>7, <4>1
    <3> QED
      BY <3>2, <3>3
  <2>9. Parts(t) = r
    BY <2>2, <2>7, <2>8 DEF Parts
  <2> QED
    BY <2>1, <2>3, <2>6, <2>9
<1> QED
  BY <1>1, PartsType, LinesInType, FlattenAppend DEF LinesOf, Join

\* The frame that is taken comes first.
LEMMA LinesOfTail ==
    ASSUME NEW q \in Seq(Frames), q # << >>
    PROVE  LinesOf(q) = Join(LinesIn(Head(q)), LinesOf(Tail(q)))
<1>1. PICK t, p : t = Tail(q) /\ p = Parts(q)
  OBVIOUS
<1>2. /\ Len(t) = Len(q) - 1 /\ Len(q) \in Nat \ {0} /\ Head(q) = q[1]
      /\ \A i \in 1..Len(t) : t[i] = q[i + 1]
  BY <1>1
<1>3. PICK Q : Q = Seq(LineNos)
  OBVIOUS
<1>4. p \in Seq(Q) /\ Len(p) = Len(q) /\ \A i \in 1..Len(q) : p[i] = LinesIn(q[i])
  BY <1>1, <1>3, PartsType DEF Parts
<1>5. p # << >>
  <2>1. Len(<< >>) = 0
    OBVIOUS
  <2> QED
    BY <1>2, <1>4, <2>1
<1>6. Head(p) = LinesIn(Head(q))
  BY <1>2, <1>4, <1>5
<1>7. Tail(p) = Parts(t)
  <2>1. PICK r : r = Tail(p)
    OBVIOUS
  <2>2. /\ r = [i \in 1..(Len(q) - 1) |-> r[i]]
        /\ \A i \in 1..(Len(q) - 1) : r[i] = p[i + 1]
    <3>1. r \in Seq(Q) /\ Len(r) = Len(q) - 1
      BY <1>2, <1>4, <1>5, <2>1
    <3>2. r = [i \in 1..Len(r) |-> r[i]]
      BY <3>1
    <3>3. \A i \in 1..(Len(q) - 1) : r[i] = p[i + 1]
      BY <1>2, <1>4, <1>5, <2>1
    <3> QED
      BY <3>1, <3>2, <3>3
  <2>3. \A i \in 1..(Len(q) - 1) : r[i] = LinesIn(t[i])
    BY <1>2, <1>4, <2>2
  <2> QED
    BY <1>2, <2>1, <2>2, <2>3 DEF Parts
<1>8. FlattenSeq(p) = Head(p) \o FlattenSeq(Tail(p))
  BY <1>3, <1>4, <1>5, FlattenTail
<1> QED
  BY <1>1, <1>6, <1>7, <1>8 DEF LinesOf, Join

\* Every line is the first of a log or follows the one before it.
Ascending(lines) ==
    \A i \in 1..Len(lines) : lines[i] = 1 \/ (i > 1 /\ lines[i] = lines[i - 1] + 1)

\* What comes first of lines that are in order is in order.
LEMMA AscendingPrefix ==
    ASSUME NEW s \in Seq(Nat), NEW t \in Seq(Nat), Ascending(Join(s, t)) PROVE Ascending(s)
<1>1. PICK u : u = Join(s, t)
  OBVIOUS
<1>2. Len(u) = Len(s) + Len(t) /\ Len(s) \in Nat /\ Len(t) \in Nat
      /\ \A i \in 1..Len(s) : u[i] = s[i]
  BY <1>1 DEF Join
<1>3. Ascending(u)
  BY <1>1
<1>4. ASSUME NEW i \in 1..Len(s) PROVE s[i] = 1 \/ (i > 1 /\ s[i] = s[i - 1] + 1)
  <2>1. i \in 1..Len(u) /\ u[i] = s[i] /\ (i > 1 => u[i - 1] = s[i - 1])
    BY <1>2
  <2> QED
    BY <1>3, <2>1 DEF Ascending
<1> QED
  BY <1>4 DEF Ascending

\* A log that is sent again starts with its first line.
LEMMA AscendingAgain ==
    ASSUME NEW s \in Seq(Nat), NEW n \in Nat, Ascending(s)
    PROVE  Ascending(Join(s, Numbers(n)))
<1>1. PICK t, u : t = Numbers(n) /\ u = Join(s, t)
  OBVIOUS
<1>2. t \in Seq(Nat) /\ Len(t) = n /\ \A i \in 1..n : t[i] = i
  BY <1>1 DEF Numbers
<1>3. /\ Len(u) = Len(s) + n /\ Len(s) \in Nat
      /\ \A i \in 1..Len(s) : u[i] = s[i]
      /\ \A i \in (Len(s) + 1)..(Len(s) + n) : u[i] = t[i - Len(s)]
  BY <1>1, <1>2 DEF Join
<1>4. ASSUME NEW i \in 1..Len(u) PROVE u[i] = 1 \/ (i > 1 /\ u[i] = u[i - 1] + 1)
  <2>1. CASE i <= Len(s)
    <3>1. i \in 1..Len(s) /\ u[i] = s[i] /\ (i > 1 => u[i - 1] = s[i - 1])
      BY <1>3, <2>1
    <3> QED
      BY <3>1 DEF Ascending
  <2>2. CASE i > Len(s)
    <3>1. i - Len(s) \in 1..n /\ u[i] = i - Len(s)
      BY <1>2, <1>3, <2>2
    <3>2. i > Len(s) + 1 => i > 1 /\ u[i - 1] = (i - 1) - Len(s)
      <4> SUFFICES ASSUME i > Len(s) + 1 PROVE i > 1 /\ u[i - 1] = (i - 1) - Len(s)
        OBVIOUS
      <4>1. i - 1 \in (Len(s) + 1)..(Len(s) + n) /\ (i - 1) - Len(s) \in 1..n /\ i > 1
        BY <1>3, <2>2
      <4> QED
        BY <1>2, <1>3, <4>1
    <3> QED
      BY <1>3, <2>2, <3>1, <3>2
  <2> QED
    BY <1>3, <2>1, <2>2
<1> QED
  BY <1>1, <1>4 DEF Ascending
-----------------------------------------------------------------------------
(* A stream at a time. *)

\* A stream that is not over.
Active(s) == streamers[s].step \in {"seek", "ship"}

\* Only one goes on at a time, and the reconciler knows of it.
OneStream ==
    /\ \A s, t \in Streams : Active(s) /\ Active(t) => s = t
    /\ \A s \in Streams : Active(s) => streaming

\* Neither a connection nor a process of the old version has ended.
Spared == faults = 0 /\ version = "old"

\* The lines a stream has yet to send.
Left(s) == FlattenSeq(streamers[s].chunks)

\* What the Hub will have is in order, with what the stream that ships has left, too.
LinesKept ==
    /\ OneStream
    /\ Spared => /\ Ascending(Known)
                 /\ \A s \in Streams : streamers[s].step = "ship" => Ascending(Join(Known, Left(s)))

\* The lines the Hub has or will get are lines of the log.
LEMMA KnownType ==
    ASSUME Typed
    PROVE  /\ logHeard \in Seq(LineNos) /\ LinesOf(outbox) \in Seq(LineNos)
           /\ Known \in Seq(LineNos) /\ Known \in Seq(Nat)
<1>1. logHeard \in Seq(LineNos) /\ LinesOf(outbox) \in Seq(LineNos)
  BY LinesOfType DEF Typed, LogsKept
<1>2. Known \in Seq(LineNos)
  BY <1>1 DEF Known, Join
<1>3. LineNos \subseteq Nat
  BY LogsKeptOK, LineFacts DEF Typed, LineNos
<1>4. Seq(LineNos) \subseteq Seq(Nat)
  <2>1. PICK N : N = Nat
    OBVIOUS
  <2>2. LineNos \subseteq N
    BY <1>3, <2>1
  <2>3. Seq(LineNos) \subseteq Seq(N)
    BY <2>2
  <2> QED
    BY <2>1, <2>3
<1> QED
  BY <1>1, <1>2, <1>4

\* So are those that are left.
LEMMA StreamLines ==
    ASSUME Typed, NEW s \in Streams
    PROVE  Left(s) \in Seq(LineNos) /\ streamers[s].chunks \in Seq(Seq(LineNos))
BY StreamTypes, FlattenType DEF Typed, LogsKept, StreamOK, Left

\* The new frame adds its lines to those the Hub will have.
LEMMA KnownSent ==
    ASSUME Typed, NEW f \in Frames, Send(f), UNCHANGED logHeard
    PROVE  Known' = Join(Known, LinesIn(f))
<1>1. outbox' = Append(outbox, f) /\ outbox \in Seq(Frames)
  BY DEF Send, Typed
<1>2. LinesOf(outbox') = Join(LinesOf(outbox), LinesIn(f))
  BY <1>1, LinesOfAppend
<1>3. Known' = Join(logHeard, LinesOf(outbox'))
  BY DEF Known, LinesOf, Parts
<1> QED
  BY <1>2, <1>3, KnownType, LinesInType, JoinAssociative DEF Known

\* A frame without lines changes nothing.
LEMMA KnownSaid ==
    ASSUME Typed, Says, UNCHANGED logHeard PROVE Known' = Known
<1>1. CASE UNCHANGED outbox
  BY <1>1 DEF Known, LinesOf, Parts
<1>2. ASSUME NEW f \in Frames, Send(f), f.type # "log_chunk" PROVE Known' = Known
  <2>1. Known' = Join(Known, << >>)
    BY <1>2, KnownSent DEF LinesIn
  <2>2. Join(Known, << >>) = Known
    BY KnownType DEF Join
  <2> QED
    BY <2>1, <2>2
<1> QED
  BY <1>1, <1>2 DEF Says

\* The frame that gets to the Hub takes its lines from the outbox to the Hub.
LEMMA KnownHeard == ASSUME Typed, Delivering PROVE Known' = Known
<1>1. outbox \in Seq(Frames) /\ outbox # << >> /\ outbox' = Tail(outbox)
  BY DEF Delivering, WriteArrives, TakeFrame, Typed
<1>2. PICK f : f = Head(outbox)
  OBVIOUS
<1>3. f \in Frames /\ outbox' \in Seq(Frames)
  BY <1>1, <1>2
<1>4. LinesOf(outbox) = Join(LinesIn(f), LinesOf(outbox'))
  BY <1>1, <1>2, LinesOfTail
<1>5. logHeard' = Join(logHeard, LinesIn(f))
  <2>1. logHeard' = IF f.type = "log_chunk" THEN logHeard \o f.lines ELSE logHeard
    BY <1>2 DEF Delivering, HearLog
  <2>2. logHeard = logHeard \o << >>
    BY KnownType
  <2> QED
    BY <2>1, <2>2 DEF LinesIn, Join
<1>6. Known' = Join(logHeard', LinesOf(outbox'))
  BY DEF Known, LinesOf, Parts
<1> QED
  BY <1>3, <1>4, <1>5, <1>6, KnownType, LinesInType, LinesOfType, JoinAssociative DEF Known

\* What is past stays past.
LEMMA SparedBefore ==
    ASSUME ReportsKept, Typed, [Next]_vars, Spared' PROVE Spared
<1>1. version \in Versions
  BY DEF Typed, OpsTypeOK
<1>2. Fault \/ NoFault
  <2>1. CASE Refused \/ Connecting \/ BurnToken \/ Announcing \/ Resyncing \/ Ticking
    BY <2>1 DEF Refused, Connecting, BurnToken, Announcing, Resyncing, Ticking, DialFails,
                DialSucceeds, DialBurnsToken, Identify, HeartbeatDue
  <2>2. CASE Beating \/ Noticing \/ Breaking \/ Delivering \/ Losing
    BY <2>2 DEF Beating, Noticing, Breaking, Delivering, Losing, SendHeartbeat, ReadFails,
                ConnectionBreaks, WriteArrives, WriteIsLost, TakeFrame
  <2>3. CASE Reconciling \/ Commanding \/ JobStarts
    BY <2>3 DEF Reconciling, Commanding, JobStarts
  <2>7. CASE Restart \/ Upgrade
    BY <2>7 DEF Restart, Upgrade
  <2>6. CASE UNCHANGED vars
    BY <2>6 DEF vars, connector, NoFault
  <2>4. ASSUME NEW d \in Deliveries, Operating(d) \/ Timeout(d) \/ OperationFails(d)
        PROVE  Fault \/ NoFault
    BY <2>4 DEF Operating, Timeout, OperationFails, ReadLogsFails, ProbeUpgradeFails,
                CreateUpgradeJobFails
  <2>5. ASSUME (\E report \in reporting : Queueing(report)) \/ \E s \in Streams : Streaming(s)
        PROVE  NoFault
    BY <2>5 DEF Queueing, Streaming
  <2> QED
    BY <2>1, <2>2, <2>3, <2>4, <2>5, <2>6, <2>7 DEF Next
<1>3. faults \in Nat
  BY DEF ReportsKept
<1>4. faults' = 0 => faults = 0
  BY <1>2, <1>3 DEF Fault, NoFault
<1>5. UNCHANGED version \/ version' = "new"
  <2>1. CASE UNCHANGED ops
    BY <2>1 DEF ops
  <2>2. CASE Delivering
    BY <2>2 DEF Delivering, HearOp
  <2>3. CASE Commanding
    BY <2>3 DEF Commanding, Deliver, ExecJobRuns, UpgradeJobFails, ReapUpgradeJob
  <2>4. CASE Restart \/ Upgrade
    BY <2>4 DEF Restart, Upgrade, OpsRestart, UpgradeRollsOut
  <2>5. ASSUME NEW d \in Deliveries, Operating(d) \/ Timeout(d) \/ OperationFails(d)
        PROVE  UNCHANGED version
    BY <2>5 DEF Operating, Timeout, OperationFails, OpSends, OpWorks, Announce, ShipLogs,
                ReportOutcome, TellInFlight, CreateExecJob, CreateExecJobFails, GetJob, ReadLogs,
                ProbeUpgrade, CreateUpgradeJob, GiveUp, ReadLogsFails, ProbeUpgradeFails,
                CreateUpgradeJobFails, Fail
  <2> QED
    BY <2>1, <2>2, <2>3, <2>4, <2>5
       DEF Next, vars, Refused, Connecting, BurnToken, Announcing, Resyncing, Ticking, Beating,
           Noticing, Breaking, Losing, Reconciling, Queueing, Streaming, JobStarts
<1> QED
  BY <1>1, <1>4, <1>5 DEF Spared, Versions

\* A step that has nothing to do with lines.
LEMMA RestKeepsLines ==
    ASSUME LinesKept, Spared' => Spared, Known' = Known, UNCHANGED <<streaming, streamers>>
    PROVE  LinesKept'
BY DEF LinesKept, OneStream, Active, Left, Streams

\* The streams end with the process, and what is lost with it does not count.
LEMMA EndKeepsLines ==
    ASSUME ReportsKept, Restart \/ Upgrade PROVE LinesKept'
<1>1. \A s \in Streams : streamers'[s] = NoStream \/ streamers'[s] = Over
  BY DEF Restart, Upgrade, NewProcess, LogsRestart
<1>2. NoStream.step = "none" /\ Over.step = "idle"
  BY DEF NoStream, Over
<1>3. OneStream'
  BY <1>1, <1>2 DEF OneStream, Active, Streams
<1>4. ~Spared'
  BY DEF Restart, Upgrade, UpgradeRollsOut, Fault, Spared, ReportsKept
<1> QED
  BY <1>3, <1>4 DEF LinesKept

\* A stream that is started ships nothing yet, and is the only one.
LEMMA StartKeepsLines ==
    ASSUME Typed, LinesKept, Spared' => Spared, Known' = Known, NEW s \in Streams, StartStream(s)
    PROVE  LinesKept'
<1>1. streaming' = TRUE /\ streamers[s].step = "none" /\ MaxStarts \in Nat
  BY LogsAssumption DEF StartStream, Streams
<1>2. PICK n : n = IF streaming THEN Over ELSE [streamers[s] EXCEPT !.step = "seek"]
  OBVIOUS
<1>3. streamers' = [streamers EXCEPT ![s] = n]
  BY <1>2 DEF StartStream
<1>4. streamers'[s] = n /\ \A t \in Streams : t # s => streamers'[t] = streamers[t]
  BY <1>3 DEF Typed, LogsKept
<1>5. n.step \in {"seek", "idle"} /\ (n.step = "seek" => ~streaming)
  <2>1. CASE streaming
    BY <1>2, <2>1, RestingStreams
  <2>2. CASE ~streaming
    <3>1. n = [streamers[s] EXCEPT !.step = "seek"] /\ streamers[s] \in Streamers
      BY <1>2, <2>2 DEF Typed, LogsKept, StreamOK
    <3>2. n.step = "seek"
      BY <3>1 DEF Streamers
    <3> QED
      BY <2>2, <3>2
  <2> QED
    BY <2>1, <2>2
<1>6. OneStream'
  BY <1>1, <1>4, <1>5 DEF LinesKept, OneStream, Active, Streams
<1>7. ASSUME NEW t \in Streams, streamers'[t].step = "ship"
      PROVE  streamers[t].step = "ship" /\ Left(t)' = Left(t)
  <2>1. t # s
    BY <1>4, <1>5, <1>7
  <2> QED
    BY <1>4, <1>7, <2>1 DEF Left
<1> QED
  BY <1>6, <1>7 DEF LinesKept, Streams

\* A stream that is going goes on as `next', or ends.
LEMMA GoingKeepsLines ==
    ASSUME Typed, LinesKept, NEW s \in Streams, Active(s), NEW next, Continue(s, next),
           Over = next \/ next.step \in {"seek", "ship"},
           Spared' => /\ Ascending(Known')
                      /\ next.step = "ship" => Ascending(Join(Known', FlattenSeq(next.chunks)))
    PROVE  LinesKept'
<1>1. streamers'[s] = next /\ \A t \in Streams : t # s => streamers'[t] = streamers[t]
  BY DEF Typed, LogsKept, Continue
<1>2. \A t \in Streams : t # s => ~(streamers[t].step \in {"seek", "ship"})
  BY DEF LinesKept, OneStream, Active
<1>3. \A t \in Streams : streamers'[t].step \in {"seek", "ship"} => t = s
  BY <1>1, <1>2
<1>4. streamers'[s].step \in {"seek", "ship"} => streaming'
  <2> SUFFICES ASSUME streamers'[s].step \in {"seek", "ship"} PROVE streaming'
    OBVIOUS
  <2>1. next # Over
    BY <1>1, RestingStreams
  <2>2. streaming
    BY DEF LinesKept, OneStream
  <2> QED
    BY <2>1, <2>2 DEF Continue
<1>5. OneStream'
  <2>1. \A r, t \in Streams : Active(r)' /\ Active(t)' => r = t
    BY <1>3 DEF Active
  <2>2. \A t \in Streams : Active(t)' => streaming'
    BY <1>3, <1>4 DEF Active
  <2> QED
    BY <2>1, <2>2 DEF OneStream, Streams
<1>6. ASSUME Spared', NEW t \in Streams, streamers'[t].step = "ship"
      PROVE  Ascending(Join(Known', Left(t)'))
  <2>1. t = s /\ next.step = "ship"
    BY <1>1, <1>3, <1>6
  <2>2. Left(t)' = FlattenSeq(next.chunks)
    BY <1>1, <2>1 DEF Left
  <2> QED
    BY <1>6, <2>1, <2>2
<1> QED
  BY <1>5, <1>6 DEF LinesKept, Streams

\* A chunk is sent: its lines move from what is left to what the Hub will have.
LEMMA SendKeepsLines ==
    ASSUME Typed, LinesKept, Spared' => Spared, NEW s \in Streams, SendLogChunk(s)
    PROVE  LinesKept'
<1>1. PICK x, first : x = streamers[s] /\ first = Head(x.chunks)
  OBVIOUS
<1>2. /\ x.chunks \in Seq(Seq(LineNos)) /\ x.chunks # << >>
      /\ first \in Seq(LineNos) /\ LogChunk(first) \in Frames /\ Send(LogChunk(first))
  BY <1>1, NextLines
<1>3. x.step = "ship" /\ Active(s) /\ UNCHANGED logHeard
  BY <1>1 DEF SendLogChunk, Active, Continue
<1>4. Known' = Join(Known, first)
  <2>1. Known' = Join(Known, LinesIn(LogChunk(first)))
    BY <1>2, <1>3, KnownSent
  <2> QED
    BY <2>1 DEF LinesIn, LogChunk
<1>5. PICK rest : rest = FlattenSeq(Tail(x.chunks))
  OBVIOUS
<1>6. Left(s) = Join(first, rest)
  BY <1>1, <1>2, <1>5, FlattenTail DEF Left, Join
<1>7. rest \in Seq(LineNos)
  <2>1. Tail(x.chunks) \in Seq(Seq(LineNos))
    BY <1>2
  <2> QED
    BY <1>5, <2>1, FlattenType
<1>8. Join(Known', rest) = Join(Known, Left(s))
  BY <1>2, <1>4, <1>6, <1>7, KnownType, JoinAssociative
<1>9. Spared' => Ascending(Join(Known', rest))
  BY <1>1, <1>3, <1>8 DEF LinesKept
<1>10. Known' \in Seq(Nat) /\ rest \in Seq(Nat)
  <2>1. PICK N : N = Nat
    OBVIOUS
  <2>2. LineNos \subseteq N
    BY <2>1, LogsKeptOK, LineFacts DEF Typed, LineNos
  <2>3. Known \in Seq(LineNos)
    BY KnownType
  <2>4. Join(Known, first) \in Seq(LineNos)
    BY <1>2, <2>3 DEF Join
  <2>5. Join(Known, first) \in Seq(N) /\ rest \in Seq(N)
    BY <1>7, <2>2, <2>4
  <2> QED
    BY <1>4, <2>1, <2>5
<1>11. Spared' => Ascending(Known')
  BY <1>9, <1>10, AscendingPrefix
<1>12. CASE Len(x.chunks) = 1
  <2>1. Continue(s, Over) /\ Over.step = "idle"
    BY <1>1, <1>12, RestingStreams DEF SendLogChunk
  <2> QED
    BY <1>3, <1>11, <2>1, GoingKeepsLines
<1>13. CASE Len(x.chunks) # 1
  <2>1. PICK next : next = [x EXCEPT !.chunks = Tail(@)]
    OBVIOUS
  <2>2. Continue(s, next)
    BY <1>1, <1>13, <2>1 DEF SendLogChunk
  <2>3. x \in Streamers
    BY <1>1 DEF Typed, LogsKept, StreamOK
  <2>4. next.step = "ship" /\ next.chunks = Tail(x.chunks)
    BY <1>3, <2>1, <2>3 DEF Streamers
  <2> QED
    BY <1>3, <1>5, <1>9, <1>11, <2>2, <2>4, GoingKeepsLines
<1> QED
  BY <1>12, <1>13

\* A stream is read, and ships the lines that are written in their order.
LEMMA ReadKeepsLines ==
    ASSUME Typed, LinesKept, Spared' => Spared, Known' = Known, NEW s \in Streams, ReadLog(s)
    PROVE  LinesKept'
<1>1. Active(s) /\ (Spared' => Ascending(Known')) /\ Over.step = "idle"
  BY RestingStreams DEF ReadLog, Active, LinesKept
<1>2. CASE written = 0 \/ \E line \in LineNumbers : podLog[line] > MaxLine
  <2>1. Continue(s, Over)
    BY <1>2 DEF ReadLog
  <2> QED
    BY <1>1, <2>1, GoingKeepsLines
<1>3. CASE ~(written = 0 \/ \E line \in LineNumbers : podLog[line] > MaxLine)
  <2>1. PICK chunks : chunks = SplitChunks(written)
    OBVIOUS
  <2>2. PICK next : next = [NoStream EXCEPT !.step = "ship", !.chunks = chunks]
    OBVIOUS
  <2>3. Continue(s, next)
    BY <1>3, <2>1, <2>2 DEF ReadLog
  <2>4. next.step = "ship" /\ next.chunks = chunks
    BY <2>2 DEF NoStream
  <2>5. written \in 0..Len(podLog)
    BY DEF Typed, LogsKept
  <2>6. FlattenSeq(chunks) = Numbers(written) /\ written \in Nat
    BY <2>1, <2>5, LogsKeptOK, LineFacts, ChunksAreTheLog DEF Typed
  <2>7. Spared' => Ascending(Join(Known', FlattenSeq(next.chunks)))
    BY <1>1, <2>4, <2>6, KnownType, AscendingAgain
  <2> QED
    BY <1>1, <2>3, <2>4, <2>7, GoingKeepsLines
<1> QED
  BY <1>2, <1>3

\* A stream waits for its pod.
LEMMA WaitKeepsLines ==
    ASSUME Typed, LinesKept, Spared' => Spared, Known' = Known, NEW s \in Streams, PodNotThere(s)
    PROVE  LinesKept'
<1>1. Active(s) /\ streamers[s].step = "seek" /\ (Spared' => Ascending(Known'))
      /\ Over.step = "idle" /\ streamers[s] \in Streamers
  BY RestingStreams DEF PodNotThere, Active, LinesKept, Typed, LogsKept, StreamOK
<1>2. PICK next : next = IF streamers[s].attempt + 1 = MaxAttempts
                         THEN Over
                         ELSE [streamers[s] EXCEPT !.attempt = @ + 1]
  OBVIOUS
<1>3. Continue(s, next)
  BY <1>2 DEF PodNotThere
<1>4. next = Over \/ next.step = "seek"
  BY <1>1, <1>2 DEF Streamers
<1> QED
  BY <1>1, <1>3, <1>4, GoingKeepsLines

\* Every step keeps the lines in order.
LEMMA StepKeepsLines == ReportsKept /\ Typed /\ LinesKept /\ [Next]_vars => LinesKept'
<1> SUFFICES ASSUME ReportsKept, Typed, LinesKept, [Next]_vars PROVE LinesKept'
  OBVIOUS
<1>0. Spared' => Spared
  BY SparedBefore
<1>1. CASE Says /\ UNCHANGED logs
  <2>1. Known' = Known
    BY <1>1, KnownSaid DEF logs
  <2> QED
    BY <1>0, <1>1, <2>1, RestKeepsLines DEF logs
<1>2. CASE JobStarts
  <2>1. Known' = Known
    <3>1. UNCHANGED <<outbox, logHeard>>
      BY <1>2 DEF JobStarts, StartStream, PodWrites
    <3> QED
      BY <3>1 DEF Known, LinesOf, Parts
  <2>2. CASE PodWrites
    BY <1>0, <2>1, <2>2, RestKeepsLines DEF PodWrites
  <2> QED
    BY <1>0, <1>2, <2>1, <2>2, StartKeepsLines DEF JobStarts
<1>3. ASSUME NEW s \in Streams, Streaming(s) PROVE LinesKept'
  <2>1. CASE SendLogChunk(s)
    BY <1>0, <2>1, SendKeepsLines
  <2>2. CASE (PodNotThere(s) \/ ReadLog(s)) /\ UNCHANGED outbox
    <3>1. UNCHANGED <<outbox, logHeard>>
      BY <2>2 DEF PodNotThere, ReadLog, Continue
    <3>2. Known' = Known
      BY <3>1 DEF Known, LinesOf, Parts
    <3> QED
      BY <1>0, <2>2, <3>2, ReadKeepsLines, WaitKeepsLines
  <2> QED
    BY <1>3, <2>1, <2>2 DEF Streaming
<1>4. CASE Delivering
  BY <1>0, <1>4, KnownHeard, RestKeepsLines DEF Delivering, HearLog
<1>5. CASE Losing
  <2>1. UNCHANGED <<streaming, streamers, logHeard, faults, version>> /\ outbox # << >> /\ ~alive
    BY <1>5 DEF Losing, WriteIsLost, TakeFrame, logs, ops, NoFault
  <2>2. ~Spared'
    BY <1>5, <2>1 DEF Spared, ReportsKept, Losing, WriteIsLost, TakeFrame
  <2>3. OneStream'
    BY <2>1 DEF LinesKept, OneStream, Active, Streams
  <2> QED
    BY <2>2, <2>3 DEF LinesKept
<1>6. CASE Restart \/ Upgrade
  BY <1>6, EndKeepsLines
<1>7. CASE \/ Refused \/ Connecting \/ BurnToken \/ Announcing \/ Resyncing \/ Ticking \/ Beating
           \/ Noticing \/ Breaking \/ Reconciling \/ Commanding \/ UNCHANGED vars
           \/ \E report \in reporting : Queueing(report)
           \/ \E d \in Deliveries : Operating(d) \/ Timeout(d) \/ OperationFails(d)
  <2>1. UNCHANGED logs
    BY <1>7 DEF vars, Refused, Connecting, BurnToken, Announcing, Resyncing, Ticking, Beating,
                Noticing, Breaking, Reconciling, Queueing, Operating, Timeout, OperationFails,
                Commanding
  <2>2. Says
    BY <1>7, OtherSteps
  <2> QED
    BY <1>1, <2>1, <2>2
<1> QED
  BY <1>2, <1>3, <1>4, <1>5, <1>6, <1>7 DEF Next

\* There are none at first.
LEMMA InitLines == Init => LinesKept
<1> SUFFICES ASSUME Init PROVE LinesKept
  OBVIOUS
<1>1. streamers = [s \in Streams |-> NoStream] /\ logHeard = << >> /\ outbox = << >>
  BY DEF Init, LogsInit, ConnectorInit
<1>2. \A s \in Streams : streamers[s].step = "none"
  BY <1>1 DEF NoStream
<1>3. Known = << >> /\ Len(<< >>) = 0
  BY <1>1, LinesOfEmpty DEF Known, Join
<1>4. Ascending(Known)
  BY <1>3 DEF Ascending
<1> QED
  BY <1>2, <1>4 DEF LinesKept, OneStream, Active

\* Whatever the Hub has of the logs, and whatever is on its way to it, is whole lines in their
\* order, one stream at a time, unless a connection or a process has ended: for every log,
\* chunk size, number of starts and room in the outbox (LogsInOrder).
THEOREM LinesAlwaysInOrder == Spec => []LogsInOrder
<1>1. ReportsKept /\ Typed /\ LinesKept => LogsInOrder
  <2>1. Known = logHeard \o QueuedLines
    BY DEF Known, Join, LinesOf, Parts, LinesIn, QueuedLines
  <2> QED
    BY <2>1 DEF LinesKept, Spared, Ascending, LogsInOrder
<1> QED
  BY <1>1, InitKept, StepKeepsReports, InitTyped, StepKeepsTyped, InitLines, StepKeepsLines, PTL
     DEF Spec
=============================================================================
