--------------------------- MODULE DataInduction ---------------------------
(***************************************************************************)
(* Induction over natural numbers and definition by it, stated with sets   *)
(* and functions in place of operators, so that the lemmas can be cited    *)
(* with the sets and functions of a proof: positions of a sequence, turns  *)
(* of a loop, levels of nesting.                                           *)
(***************************************************************************)
EXTENDS Integers, Sequences, NaturalsInduction, WellFoundedInduction, TLAPS

\* A non-empty set of naturals has a least element.
LEMMA LeastNatural ==
    ASSUME NEW T, T \subseteq Nat, T # {}
    PROVE  \E x \in T : \A y \in T : x <= y
<1>1. PICK x \in T : \A y \in T : ~(<<y, x>> \in OpToRel(<, Nat))
    BY NatLessThanWellFounded, WFMin, Zenon
<1>2. ASSUME NEW y \in T, y < x
      PROVE  <<y, x>> \in OpToRel(<, Nat)
    <2>1. <<y, x>>[1] < <<y, x>>[2] /\ <<y, x>> \in Nat \X Nat
        BY <1>2
    <2> QED
        BY <2>1, Zenon DEF OpToRel
<1>3. \A y \in T : ~(y < x)
    BY <1>1, <1>2, Zenon
<1> QED
    BY <1>3

\* A set that has 0 and with each number below N the next has all up to N.
LEMMA IntervalInduction ==
    ASSUME NEW N \in Nat, NEW T, 0 \in T,
           \A n \in 0..(N - 1) : n \in T => n + 1 \in T
    PROVE  \A n \in 0..N : n \in T
<1> DEFINE out == {n \in 0..N : n \notin T}
<1> SUFFICES ASSUME out # {} PROVE FALSE
    OBVIOUS
<1>1. out \subseteq Nat
    OBVIOUS
<1> HIDE DEF out
<1>2. PICK n \in out : \A m \in out : n <= m
    BY <1>1, LeastNatural, Zenon
<1>3. n \in 0..N /\ n \notin T /\ n # 0
    BY <1>2 DEF out
<1>4. n - 1 \in 0..(N - 1) /\ n - 1 \notin out
    BY <1>2, <1>3
<1>5. n - 1 \in T
    BY <1>4 DEF out
<1>6. (n - 1) + 1 \in T
    BY <1>4, <1>5
<1> QED
    BY <1>3, <1>6

\* The steps of a loop with N turns, and its runs from b.
StepsOf(X, N) == [1..N -> [X -> X]]
RunsOf(X, b, N, step) == {f \in [0..N -> X] : f[0] = b /\ \A n \in 1..N : f[n] = step[n][f[n - 1]]}

\* A loop has a result: there is a function that starts with b and of which the
\* n-th value is made from the one before by the n-th step.
LEMMA RunExists ==
    ASSUME NEW X, NEW b \in X, NEW N \in Nat, NEW step \in StepsOf(X, N)
    PROVE  \E f : f \in RunsOf(X, b, N, step)
<1>5. step \in [1..N -> [X -> X]]
    BY DEF StepsOf
<1> DEFINE Upto(k) == \E f \in [0..N -> X] :
               /\ f[0] = b
               /\ \A n \in 1..k : f[n] = step[n][f[n - 1]]
           T == {k \in 0..N : Upto(k)}
<1>1. 0 \in T
    <2>1. [n \in 0..N |-> b] \in [0..N -> X] /\ [n \in 0..N |-> b][0] = b
        OBVIOUS
    <2>2. \A n \in 1..0 : [m \in 0..N |-> b][n] = step[n][[m \in 0..N |-> b][n - 1]]
        OBVIOUS
    <2>3. Upto(0)
        BY <2>1, <2>2, Zenon
    <2> HIDE DEF Upto
    <2> QED
        BY <2>3
<1>2. ASSUME NEW k \in 0..(N - 1), k \in T PROVE k + 1 \in T
    <2>1. PICK f \in [0..N -> X] : f[0] = b /\ \A n \in 1..k : f[n] = step[n][f[n - 1]]
        BY <1>2
    <2> DEFINE g == [f EXCEPT ![k + 1] = step[k + 1][f[k]]]
    <2>2. k \in 0..N /\ k + 1 \in 1..N /\ k + 1 \in 0..N
        OBVIOUS
    <2>3. step[k + 1][f[k]] \in X
        BY <1>5, <2>2
    <2>4. g \in [0..N -> X] /\ g[0] = b /\ g[k + 1] = step[k + 1][f[k]]
        BY <2>1, <2>2, <2>3
    <2>5. \A n \in 0..k : g[n] = f[n]
        BY <2>2
    <2> HIDE DEF g
    <2>6. ASSUME NEW n \in 1..(k + 1) PROVE g[n] = step[n][g[n - 1]]
        <3>1. CASE n = k + 1
            BY <2>4, <2>5, <3>1
        <3>2. CASE n \in 1..k
            <4>1. n - 1 \in 0..k /\ n \in 0..k
                BY <3>2
            <4> QED
                BY <2>1, <2>5, <3>2, <4>1
        <3> QED
            BY <3>1, <3>2
    <2>7. Upto(k + 1)
        BY <2>4, <2>6
    <2> QED
        BY <2>2, <2>7
<1> HIDE DEF T
<1>3. \A k \in 0..(N - 1) : k \in T => k + 1 \in T
    BY <1>2
<1>4. N \in T
    <2>1. \A k \in 0..N : k \in T
        BY <1>1, <1>3, IntervalInduction, Zenon
    <2> QED
        BY <2>1
<1> QED
    BY <1>4 DEF T, RunsOf

\* The same, spelled out.
LEMMA LoopExists ==
    ASSUME NEW X, NEW b \in X, NEW N \in Nat, NEW step \in [1..N -> [X -> X]]
    PROVE  \E f \in [0..N -> X] : f[0] = b /\ \A n \in 1..N : f[n] = step[n][f[n - 1]]
<1>1. step \in StepsOf(X, N)
    BY DEF StepsOf
<1>2. \E f : f \in RunsOf(X, b, N, step)
    BY <1>1, RunExists
<1> QED
    BY <1>2 DEF RunsOf

\* A sequence behind another.
LEMMA ConcatProps ==
    ASSUME NEW X, NEW u \in Seq(X), NEW w \in Seq(X)
    PROVE  /\ u \o w \in Seq(X) /\ Len(u) \in Nat /\ Len(w) \in Nat
           /\ Len(u \o w) = Len(u) + Len(w)
           /\ \A i \in 1..Len(u) : (u \o w)[i] = u[i]
           /\ \A j \in 1..Len(w) : (u \o w)[Len(u) + j] = w[j]
OBVIOUS

\* A loop that appends a piece in every turn.
PiecesOf(X, N) == [1..N -> Seq(X)]
Appends(f, N, piece) == f[0] = <<>> /\ \A n \in 1..N : f[n] = f[n - 1] \o piece[n]

\* There is a function with the results of a loop that appends.
LEMMA AppendLoopExists ==
    ASSUME NEW X, NEW N \in Nat, NEW piece \in PiecesOf(X, N)
    PROVE  \E f : Appends(f, N, piece)
<1> DEFINE S == Seq(X)
           b == <<>>
           step == [n \in 1..N |-> [s \in S |-> s \o piece[n]]]
<1>1. b \in S
    OBVIOUS
<1>2. \A n \in 1..N, s \in S : s \o piece[n] \in S
    <2>1. \A n \in 1..N : piece[n] \in Seq(X)
        BY DEF PiecesOf
    <2> QED
        BY <2>1
<1>3. \A n \in 1..N, s \in S : step[n][s] = s \o piece[n]
    OBVIOUS
<1> HIDE DEF S
<1>4. step \in StepsOf(S, N)
    BY <1>2 DEF StepsOf
<1> HIDE DEF b, step
<1>5. PICK f : f \in RunsOf(S, b, N, step)
    BY <1>1, <1>4, RunExists
<1>6. f \in [0..N -> S] /\ f[0] = b /\ \A n \in 1..N : f[n] = step[n][f[n - 1]]
    BY <1>5 DEF RunsOf
<1>7. ASSUME NEW n \in 1..N PROVE f[n] = f[n - 1] \o piece[n]
    <2>1. n - 1 \in 0..N
        OBVIOUS
    <2> QED
        BY <1>3, <1>6, <2>1, Zenon
<1> QED
    BY <1>6, <1>7, Zenon DEF b, Appends

\* What such a loop writes are sequences,
LEMMA AppendLoopType ==
    ASSUME NEW X, NEW N \in Nat, NEW piece \in PiecesOf(X, N), NEW f, Appends(f, N, piece)
    PROVE  \A n \in 0..N : f[n] \in Seq(X)
<1> DEFINE T == {n \in 0..N : f[n] \in Seq(X)}
<1>1. 0 \in T
    <2>1. f[0] \in Seq(X) /\ 0 \in 0..N
        BY DEF Appends
    <2> QED
        BY <2>1, Zenon
<1>2. ASSUME NEW n \in 0..(N - 1), n \in T PROVE n + 1 \in T
    <2> DEFINE u == f[n]
               v == piece[n + 1]
    <2>1. n + 1 \in 1..N /\ n + 1 \in 0..N /\ (n + 1) - 1 = n
        OBVIOUS
    <2>2. f[n + 1] = u \o v /\ u \in Seq(X) /\ v \in Seq(X)
        BY <1>2, <2>1, Zenon DEF Appends, PiecesOf
    <2> HIDE DEF u, v
    <2>3. u \o v \in Seq(X)
        BY <2>2
    <2> QED
        BY <2>1, <2>2, <2>3, Zenon
<1> HIDE DEF T
<1>3. \A n \in 0..N : n \in T
    BY <1>1, <1>2, IntervalInduction
<1> QED
    BY <1>3 DEF T

\* and stay where they are.
IsPrefixOf(u, z) == Len(u) <= Len(z) /\ \A i \in 1..Len(u) : z[i] = u[i]

\* What a loop has appended stays at the start of its result.
LEMMA AppendLoopPrefix ==
    ASSUME NEW X, NEW N \in Nat, NEW piece \in PiecesOf(X, N), NEW f, Appends(f, N, piece)
    PROVE  \A n \in 0..N : IsPrefixOf(f[n], f[N])
<1> DEFINE T == {m \in 0..N : IsPrefixOf(f[N - m], f[N])}
<1>1. \A n \in 0..N : f[n] \in Seq(X)
    BY AppendLoopType
<1>2. 0 \in T
    <2>1. N - 0 = N /\ 0 \in 0..N /\ Len(f[N]) \in Nat
        BY <1>1
    <2>2. IsPrefixOf(f[N], f[N])
        BY <2>1 DEF IsPrefixOf
    <2> QED
        BY <2>1, <2>2
<1>3. ASSUME NEW m \in 0..(N - 1), m \in T PROVE m + 1 \in T
    <2> DEFINE n == N - m
    <2>1. n \in 1..N /\ n - 1 = N - (m + 1) /\ n - 1 \in 0..N /\ n \in 0..N /\ m + 1 \in 0..N
        OBVIOUS
    <2>2. IsPrefixOf(f[n], f[N])
        BY <1>3
    <2> HIDE DEF n
    <2> DEFINE u == f[n - 1]
               v == piece[n]
               w == f[n]
               z == f[N]
    <2>3. w = u \o v /\ u \in Seq(X) /\ v \in Seq(X) /\ z \in Seq(X)
        <3>1. w = u \o v
            BY <2>1, Zenon DEF Appends
        <3>2. v \in Seq(X)
            BY <2>1 DEF PiecesOf
        <3>3. u \in Seq(X) /\ z \in Seq(X)
            BY <1>1, <2>1
        <3> QED
            BY <3>1, <3>2, <3>3, Zenon
    <2>4. Len(w) <= Len(z) /\ \A i \in 1..Len(w) : z[i] = w[i]
        BY <2>2 DEF IsPrefixOf
    <2> HIDE DEF u, v, w, z
    <2>5. Len(w) = Len(u) + Len(v) /\ \A i \in 1..Len(u) : w[i] = u[i]
        BY <2>3
    <2>6. Len(u) \in Nat /\ Len(v) \in Nat /\ Len(z) \in Nat
        BY <2>3
    <2>7. Len(u) <= Len(z) /\ \A i \in 1..Len(u) : z[i] = u[i]
        <3>1. \A i \in 1..Len(u) : i \in 1..Len(w)
            BY <2>5, <2>6
        <3>2. Len(u) <= Len(z)
            BY <2>4, <2>5, <2>6
        <3> QED
            BY <2>4, <2>5, <3>1, <3>2
    <2>8. IsPrefixOf(f[n - 1], f[N])
        BY <2>7 DEF u, z, IsPrefixOf
    <2> QED
        BY <2>1, <2>8
<1> HIDE DEF T
<1>4. \A m \in 0..N : m \in T
    BY <1>2, <1>3, IntervalInduction
<1>5. ASSUME NEW n \in 0..N PROVE IsPrefixOf(f[n], f[N])
    <2>1. N - n \in T /\ N - (N - n) = n
        BY <1>4
    <2>2. IsPrefixOf(f[N - (N - n)], f[N])
        BY <2>1 DEF T
    <2> QED
        BY <2>1, <2>2
<1> QED
    BY <1>5

\* A function of which every value is made from all the values before.
MakersOf(X, N) == [0..N -> [Seq(X) -> X]]
IsCourse(f, X, N, make) ==
    /\ f \in [0..N -> X]
    /\ \A n \in 0..N :
           \E s \in Seq(X) : /\ Len(s) = n /\ \A j \in 0..(n - 1) : s[j + 1] = f[j]
                             /\ f[n] = make[n][s]

\* There is a function each of whose values is made from all those before.
LEMMA CourseExists ==
    ASSUME NEW X, NEW N \in Nat, NEW make \in MakersOf(X, N)
    PROVE  \E f : IsCourse(f, X, N, make)
<1>0. make \in [0..N -> [Seq(X) -> X]]
    BY DEF MakersOf
<1> DEFINE M == N + 1
           S == Seq(X)
           b == <<>>
           turn == [n \in 1..M |-> [s \in S |-> Append(s, make[n - 1][s])]]
<1>1. b \in S /\ Len(b) = 0 /\ M \in Nat
    OBVIOUS
<1>2. ASSUME NEW n \in 1..M, NEW s \in S
      PROVE  /\ Append(s, make[n - 1][s]) \in S /\ turn[n][s] = Append(s, make[n - 1][s])
             /\ make[n - 1][s] \in X
    <2>1. n - 1 \in 0..N
        OBVIOUS
    <2>2. make[n - 1][s] \in X
        BY <1>0, <2>1
    <2> QED
        BY <2>2
<1> HIDE DEF S, M
<1>3. turn \in [1..M -> [S -> S]]
    BY <1>2
<1> HIDE DEF b, turn
<1>4. PICK h \in [0..M -> S] : h[0] = b /\ \A n \in 1..M : h[n] = turn[n][h[n - 1]]
    <2>1. M \in Nat /\ b \in S /\ turn \in StepsOf(S, M)
        BY <1>1, <1>3 DEF StepsOf
    <2>2. \E h : h \in RunsOf(S, b, M, turn)
        BY <2>1, RunExists
    <2> QED
        BY <2>2, Zenon DEF RunsOf
<1>5. ASSUME NEW n \in 0..N
      PROVE  /\ n \in 0..M /\ n + 1 \in 0..M /\ h[n] \in Seq(X) /\ make[n][h[n]] \in X
             /\ h[n + 1] = Append(h[n], make[n][h[n]])
    <2>1. n \in 0..M /\ n + 1 \in 1..M /\ n + 1 \in 0..M /\ (n + 1) - 1 = n
        BY DEF M
    <2>2. h[n] \in S /\ h[n + 1] = turn[n + 1][h[n]]
        BY <1>4, <2>1
    <2>3. turn[n + 1][h[n]] = Append(h[n], make[n][h[n]]) /\ make[n][h[n]] \in X
        <3>1. turn[n + 1][h[n]] = Append(h[n], make[(n + 1) - 1][h[n]]) /\ make[(n + 1) - 1][h[n]] \in X
            BY <1>2, <2>1, <2>2, Zenon
        <3> QED
            BY <2>1, <3>1, Zenon
    <2> QED
        BY <2>1, <2>2, <2>3 DEF S
<1> DEFINE Good(n) == Len(h[n]) = n /\ \A j \in 0..(n - 1) : h[n][j + 1] = h[j + 1][j + 1]
           T == {n \in 0..N : Good(n)}
<1>6. 0 \in T
    <2>1. Good(0)
        BY <1>1, <1>4
    <2> HIDE DEF Good
    <2> QED
        BY <2>1
<1>7. ASSUME NEW n \in 0..(N - 1), n \in T PROVE n + 1 \in T
    <2>1. n \in 0..N /\ n + 1 \in 0..N /\ (n + 1) - 1 = n
        OBVIOUS
    <2>2. Len(h[n]) = n /\ \A j \in 0..(n - 1) : h[n][j + 1] = h[j + 1][j + 1]
        BY <1>7
    <2>3. h[n] \in Seq(X) /\ h[n + 1] = Append(h[n], make[n][h[n]]) /\ make[n][h[n]] \in X
        BY <1>5, <2>1
    <2>4. Len(h[n + 1]) = n + 1 /\ \A i \in 1..n : h[n + 1][i] = h[n][i]
        BY <2>2, <2>3
    <2>5. ASSUME NEW j \in 0..n PROVE h[n + 1][j + 1] = h[j + 1][j + 1]
        <3>1. CASE j = n
            BY <3>1
        <3>2. CASE j # n
            <4>1. j \in 0..(n - 1) /\ j + 1 \in 1..n
                BY <3>2
            <4> QED
                BY <2>2, <2>4, <4>1
        <3> QED
            BY <3>1, <3>2
    <2>6. Good(n + 1)
        BY <2>1, <2>4, <2>5
    <2> HIDE DEF Good
    <2> QED
        BY <2>1, <2>6
<1> HIDE DEF T
<1>8. \A n \in 0..N : n \in T
    BY <1>6, <1>7, IntervalInduction
<1> DEFINE f == [n \in 0..N |-> make[n][h[n]]]
<1>9. f \in [0..N -> X] /\ \A n \in 0..N : f[n] = make[n][h[n]]
    BY <1>5
<1> HIDE DEF f
<1>10. ASSUME NEW n \in 0..N PROVE h[n + 1][n + 1] = f[n]
    <2> DEFINE u == h[n]
               v == h[n + 1]
    <2>1. Len(u) = n
        BY <1>8 DEF T
    <2>2. u \in Seq(X) /\ v = Append(u, f[n]) /\ f[n] \in X
        BY <1>5, <1>9, Zenon
    <2> HIDE DEF u, v
    <2>3. v[Len(u) + 1] = f[n]
        BY <2>2
    <2> QED
        BY <2>1, <2>3, Zenon DEF v
<1>11. ASSUME NEW n \in 0..N
       PROVE  \E s \in Seq(X) : /\ Len(s) = n /\ \A j \in 0..(n - 1) : s[j + 1] = f[j]
                               /\ f[n] = make[n][s]
    <2>1. Len(h[n]) = n /\ \A j \in 0..(n - 1) : h[n][j + 1] = h[j + 1][j + 1]
        BY <1>8 DEF T
    <2>2. ASSUME NEW j \in 0..(n - 1) PROVE h[n][j + 1] = f[j]
        <3>1. j \in 0..N
            OBVIOUS
        <3> QED
            BY <1>10, <2>1, <3>1
    <2> QED
        BY <1>5, <1>9, <2>1, <2>2, Zenon
<1> QED
    BY <1>9, <1>11, Zenon DEF IsCourse

\* The first m elements of a sequence.
LEMMA FrontOfSeq ==
    ASSUME NEW S, NEW s \in Seq(S), NEW m \in 0..Len(s)
    PROVE  /\ SubSeq(s, 1, m) \in Seq(S) /\ Len(SubSeq(s, 1, m)) = m
           /\ \A j \in 1..m : SubSeq(s, 1, m)[j] = s[j]
OBVIOUS

\* Sequences with the same elements are the same.
LEMMA SameSeq ==
    ASSUME NEW S, NEW s \in Seq(S), NEW t \in Seq(S), Len(s) = Len(t),
           \A i \in 1..Len(s) : s[i] = t[i]
    PROVE  s = t
OBVIOUS

\* Front by front through a sequence.
LEMMA Fronts ==
    ASSUME NEW S, NEW s \in Seq(S)
    PROVE  /\ SubSeq(s, 1, 0) = <<>> /\ SubSeq(s, 1, Len(s)) = s
           /\ \A i \in 1..Len(s) : SubSeq(s, 1, i) = SubSeq(s, 1, i - 1) \o <<s[i]>>
<1>1. SubSeq(s, 1, 0) = <<>> /\ SubSeq(s, 1, Len(s)) = s
    OBVIOUS
<1>2. ASSUME NEW i \in 1..Len(s) PROVE SubSeq(s, 1, i) = SubSeq(s, 1, i - 1) \o <<s[i]>>
    <2>1. i \in 0..Len(s) /\ i - 1 \in 0..Len(s) /\ i \in Nat
        OBVIOUS
    <2> DEFINE f == SubSeq(s, 1, i)
               g == SubSeq(s, 1, i - 1)
    <2>2. f \in Seq(S) /\ Len(f) = i /\ \A j \in 1..i : f[j] = s[j]
        BY <2>1, FrontOfSeq
    <2>3. g \in Seq(S) /\ Len(g) = i - 1 /\ \A j \in 1..(i - 1) : g[j] = s[j]
        BY <2>1, FrontOfSeq
    <2>4. s[i] \in S
        OBVIOUS
    <2> HIDE DEF f, g
    <2>5. /\ g \o <<s[i]>> \in Seq(S) /\ Len(g \o <<s[i]>>) = i
          /\ \A j \in 1..(i - 1) : (g \o <<s[i]>>)[j] = g[j]
          /\ (g \o <<s[i]>>)[i] = s[i]
        BY <2>1, <2>3, <2>4
    <2>6. \A j \in 1..i : f[j] = (g \o <<s[i]>>)[j]
        BY <2>1, <2>2, <2>3, <2>5
    <2>7. f = g \o <<s[i]>>
        BY <2>2, <2>5, <2>6, SameSeq
    <2> QED
        BY <2>7 DEF f, g
<1> QED
    BY <1>1, <1>2
=============================================================================
