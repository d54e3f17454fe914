------------------------- MODULE BsonDocumentProofs -------------------------
(***************************************************************************)
(* What the builders write into their buffer is, read as BSONObjIterator   *)
(* reads it, the document that BsonDocument builds: BsonBuilder implements *)
(* BsonDocument, for every buffer limit, document limit and every choice   *)
(* of name and value widths.                                               *)
(***************************************************************************)
EXTENDS BsonBuilderProofs

-----------------------------------------------------------------------------
(* The builders implement BsonDocument *)

\* The header of an embedded document ends at its size field, with nothing in
\* between.
Headers(c) ==
    \A p \in DOMAIN c : c[p].k = "sub" =>
        /\ c[p].w > 0
        /\ p + c[p].w \in DOMAIN c
        /\ \A q \in DOMAIN c : p < q => p + c[p].w <= q

\* The header of the i-th builder's document is at p.
HeaderAt(c, lv, p, i) ==
    p \in DOMAIN c /\ c[p].k = "sub" /\ p + c[p].w = lv[i].off

\* Where the fields of the i-th builder end in a buffer of length n, if h[i + 1]
\* is the next header.
Limit(lv, n, h, i) ==
    IF i < Len(lv) THEN h[i + 1] ELSE IF lv[i].done THEN n - 1 ELSE n

\* Every builder in scope starts behind its header at h[i] and has written the
\* fields F[i]; only the innermost one, and not the root, may be done.
View(c, lv, n, h, F) ==
    \A i \in 1..Len(lv) :
        /\ i > 1 => HeaderAt(c, lv, h[i], i)
        /\ Holds(c, lv[i].off + SizeField, Limit(lv, n, h, i), F[i])
        /\ lv[i].done => i = Len(lv) /\ i > 1 /\ c[lv[i].off].w = n - lv[i].off

\* What was written can be read back.
Readable ==
    /\ phase = "build" => Headers(cells) /\ \E h, F : View(cells, levels, l, h, F)
    /\ phase \in {"built", "returned"} =>
          End(RefCount) <= l /\ \E f : Holds(cells, RefCount + SizeField, End(RefCount) - 1, f)

\* Documents being written, by their names and fields.
DocAt(N, F, i) == [name |-> N[i], fields |-> F[i]]
Opened(n, N, F) == [i \in 1..n |-> DocAt(N, F, i)]
Titles(c, lv, h) == [i \in 1..Len(lv) |-> IF i = 1 THEN 0 ELSE c[h[i]].w]

\* A builder has one header, which Header finds.
LEMMA HeaderIs ==
    ASSUME BufType, Headers(cells), NEW i, NEW p, HeaderAt(cells, levels, p, i)
    PROVE  Header(i) = p
<1> DEFINE Is(q) == q \in DOMAIN cells /\ cells[q].k = "sub" /\ q + cells[q].w = levels[i].off
<1>1. p \in DOMAIN cells /\ Is(p)
    BY DEF HeaderAt
<1>2. ASSUME NEW q \in DOMAIN cells, Is(q) PROVE q = p
    <2>1. p \in Nat /\ q \in Nat /\ cells[p].w \in Nat /\ cells[q].w \in Nat
        BY <1>1 DEF BufType, CellSet
    <2>2. /\ cells[p].w > 0 /\ cells[q].w > 0
          /\ p < q => p + cells[p].w <= q
          /\ q < p => q + cells[q].w <= p
        BY <1>1, <1>2 DEF Headers
    <2> QED
        BY <1>1, <1>2, <2>1, <2>2
<1>3. Header(i) = CHOOSE q \in DOMAIN cells : cells[q].k = "sub" /\ q + cells[q].w = levels[i].off
    BY DEF Header
<1> QED
    BY <1>1, <1>2, <1>3

\* A header lies below the size field of its builder, which lies below l.
LEMMA HeaderProps ==
    ASSUME BufType, BufInv, Headers(cells), NEW i \in 1..Len(levels), NEW p, HeaderAt(cells, levels, p, i)
    PROVE  /\ p \in Nat /\ p \in DOMAIN cells /\ p < levels[i].off /\ levels[i].off < l
           /\ levels[i].off \in Nat
BY DEF BufType, BufInv, Capacity, Frames, Headers, HeaderAt, CellSet

\* The stack of documents that a reader sees.
OpenFact ==
    \A h, F : BufType /\ BufInv /\ Headers(cells) /\ phase = "build" /\ View(cells, levels, l, h, F)
             => AbstractOpen = Opened(Len(levels), Titles(cells, levels, h), F)

\* A reader finds the documents being written with their names and fields.
LEMMA OpenIs == OpenFact
<1> SUFFICES ASSUME BufType, BufInv, Headers(cells), phase = "build",
                    NEW h, NEW F, View(cells, levels, l, h, F)
             PROVE  AbstractOpen = Opened(Len(levels), Titles(cells, levels, h), F)
    BY DEF OpenFact
<1> DEFINE n == Len(levels)
<1>1. n \in Nat /\ l \in Nat
    BY DEF BufType
<1>2. ASSUME NEW i \in 1..n PROVE (IF i = 1 THEN 0 ELSE cells[Header(i)].w) = Titles(cells, levels, h)[i]
    <2>1. CASE i = 1
        BY <2>1 DEF Titles
    <2>2. CASE i # 1
        <3>1. i > 1
            BY <1>1, <2>2
        <3>2. Header(i) = h[i]
            BY <3>1, HeaderIs DEF View
        <3> QED
            BY <2>2, <3>2 DEF Titles
    <2> QED
        BY <2>1, <2>2
<1>3. ASSUME NEW i \in 1..n PROVE Contents(i) = F[i]
    <2>1. Holds(cells, levels[i].off + SizeField, Limit(levels, l, h, i), F[i])
        BY DEF View
    <2>2. Limit(levels, l, h, i) <= l /\ Contents(i) = Fields(levels[i].off + SizeField, Limit(levels, l, h, i))
        <3>1. CASE i < n
            <4>1. i + 1 \in 1..n /\ i + 1 > 1
                BY <1>1, <3>1
            <4>2. HeaderAt(cells, levels, h[i + 1], i + 1)
                BY <4>1 DEF View
            <4>3. Header(i + 1) = h[i + 1]
                BY <4>2, HeaderIs
            <4>4. h[i + 1] <= l
                <5>1. h[i + 1] \in Nat /\ h[i + 1] < levels[i + 1].off /\ levels[i + 1].off < l
                      /\ levels[i + 1].off \in Nat
                    BY <4>1, <4>2, HeaderProps
                <5> QED
                    BY <1>1, <5>1
            <4> QED
                BY <3>1, <4>3, <4>4 DEF Limit, Contents
        <3>2. CASE ~(i < n)
            BY <1>1, <3>2, SMTT(30) DEF Limit, Contents
        <3> QED
            BY <3>1, <3>2
    <2>3. Iterator(cells, l)[l][levels[i].off + SizeField][Limit(levels, l, h, i)] = F[i]
        BY <1>1, <2>1, <2>2, HoldsRead, SMTT(30)
    <2> QED
        BY <2>2, <2>3 DEF Fields
<1>4. AbstractOpen = [i \in 1..n |-> [name |-> IF i = 1 THEN 0 ELSE cells[Header(i)].w,
                                       fields |-> Contents(i)]]
    BY DEF AbstractOpen
<1> HIDE DEF n
<1> QED
    BY <1>2, <1>3, <1>4 DEF Opened, DocAt, n

\* The same after a step.
LEMMA OpenIsNext == OpenFact'
BY OpenIs, PTL

\* A stack of n documents: a sequence of that length.
IsStack(s, n, N, F) ==
    /\ Len(s) = n /\ DOMAIN s = 1..n /\ \E T : s \in Seq(T)
    /\ \A i \in 1..n : s[i] = DocAt(N, F, i)

\* The stack of documents is a sequence.
LEMMA OpenedProps ==
    ASSUME NEW n \in Nat, NEW N, NEW F
    PROVE  IsStack(Opened(n, N, F), n, N, F)
<1> DEFINE T == {DocAt(N, F, i) : i \in 1..n}
           s == [i \in 1..n |-> DocAt(N, F, i)]
<1>1. \A i \in 1..n : DocAt(N, F, i) \in T
    OBVIOUS
<1> HIDE DEF T
<1>2. s \in Seq(T) /\ Len(s) = n /\ DOMAIN s = 1..n
    BY <1>1
<1>3. \A i \in 1..n : s[i] = DocAt(N, F, i)
    OBVIOUS
<1> HIDE DEF s
<1>4. IsStack(s, n, N, F)
    BY <1>2, <1>3, Zenon DEF IsStack
<1> QED
    BY <1>4 DEF Opened, s

\* Stacks with the same documents are the same.
LEMMA SameStack ==
    ASSUME NEW n \in Nat, NEW N, NEW F, NEW M, NEW G, NEW s, NEW t,
           IsStack(s, n, N, F), IsStack(t, n, M, G),
           \A i \in 1..n : M[i] = N[i] /\ G[i] = F[i]
    PROVE  s = t
<1>1. \A i \in 1..n : DocAt(N, F, i) = DocAt(M, G, i)
    BY DEF DocAt
<1>2. PICK S, T : s \in Seq(S) /\ t \in Seq(T)
    BY DEF IsStack
<1>3. Len(s) = n /\ Len(t) = n /\ \A i \in 1..n : s[i] = t[i]
    BY <1>1 DEF IsStack
<1> QED
    BY <1>2, <1>3

\* A field behind those of the innermost document.
LEMMA OpenedExtended ==
    ASSUME NEW n \in Nat \ {0}, NEW N, NEW F, NEW x, NEW M, NEW G,
           \A i \in 1..n : M[i] = N[i],
           \A i \in 1..n : i # n => G[i] = F[i],
           G[n] = Append(F[n], x)
    PROVE  Doc!Extended(Opened(n, N, F), x) = Opened(n, M, G)
<1> DEFINE s == Opened(n, N, F)
<1>0. IsStack(s, n, N, F)
    BY OpenedProps, Zenon
<1> HIDE DEF s
<1>1. Len(s) = n /\ DOMAIN s = 1..n /\ \A i \in 1..n : s[i] = DocAt(N, F, i)
    BY <1>0 DEF IsStack
<1> DEFINE r == [s[n] EXCEPT !.fields = Append(@, x)]
<1>2. r = DocAt(M, G, n)
    <2>1. s[n] = DocAt(N, F, n)
        BY <1>1
    <2>2. s[n] = [name |-> N[n], fields |-> F[n]]
        BY <2>1 DEF DocAt
    <2>3. s[n].fields = F[n]
        BY <2>2
    <2> DEFINE y == Append(F[n], x)
    <2>4. r = [s[n] EXCEPT !.fields = y]
        BY <2>3, Zenon
    <2>5. M[n] = N[n] /\ G[n] = y
        OBVIOUS
    <2> HIDE DEF r, y
    <2>6. r = [name |-> N[n], fields |-> y]
        BY <2>2, <2>4
    <2> QED
        BY <2>5, <2>6 DEF DocAt
<1>3. Doc!Extended(s, x) = [i \in 1..n |-> IF i = n THEN r ELSE s[i]]
    BY <1>1, Zenon DEF Doc!Extended
<1> HIDE DEF r
<1>4. \A i \in 1..n : (IF i = n THEN r ELSE s[i]) = DocAt(M, G, i)
    <2> SUFFICES ASSUME NEW i \in 1..n, i # n PROVE s[i] = DocAt(M, G, i)
        BY <1>2
    <2> QED
        BY <1>1 DEF DocAt
<1>5. Opened(n, M, G) = [i \in 1..n |-> DocAt(M, G, i)]
    BY DEF Opened
<1> QED
    BY <1>3, <1>4, <1>5 DEF s

Pushed(s, d) == Append(s, d)

\* One more document.
LEMMA OpenedAppend ==
    ASSUME NEW n \in Nat, NEW N, NEW F, NEW M, NEW G, NEW m, m = n + 1,
           \A i \in 1..n : M[i] = N[i] /\ G[i] = F[i]
    PROVE  Pushed(Opened(n, N, F), DocAt(M, G, m)) = Opened(m, M, G)
<1> DEFINE s == Opened(n, N, F)
           r == DocAt(M, G, n + 1)
           t == Opened(n + 1, M, G)
<1>1. IsStack(s, n, N, F) /\ IsStack(t, n + 1, M, G)
    BY OpenedProps
<1>2. r = DocAt(M, G, n + 1)
    OBVIOUS
<1>3. \A i \in 1..n : DocAt(M, G, i) = DocAt(N, F, i)
    BY DEF DocAt
<1> HIDE DEF s, r, t
<1>4. PICK S, T : s \in Seq(S) /\ t \in Seq(T)
    BY <1>1 DEF IsStack
<1>5. /\ Len(s) = n /\ Len(t) = n + 1
      /\ \A i \in 1..n : s[i] = DocAt(N, F, i)
      /\ \A i \in 1..(n + 1) : t[i] = DocAt(M, G, i)
    BY <1>1 DEF IsStack
<1> DEFINE X == S \cup {r}
<1>6. s \in Seq(X) /\ r \in X
    BY <1>4
<1> HIDE DEF X
<1>7. /\ Append(s, r) \in Seq(X) /\ Len(Append(s, r)) = n + 1
      /\ \A i \in 1..n : Append(s, r)[i] = s[i]
      /\ Append(s, r)[n + 1] = r
    BY <1>5, <1>6
<1>8. \A i \in 1..(n + 1) : i \in 1..n \/ i = n + 1
    OBVIOUS
<1>9. \A i \in 1..(n + 1) : Append(s, r)[i] = t[i]
    BY <1>2, <1>3, <1>5, <1>7, <1>8
<1>10. Append(s, r) = t
    BY <1>4, <1>5, <1>7, <1>9
<1> QED
    BY <1>10 DEF Pushed, s, r, t

\* One document less.
LEMMA OpenedPop ==
    ASSUME NEW n \in Nat, n > 1, NEW N, NEW F
    PROVE  SubSeq(Opened(n, N, F), 1, n - 1) = Opened(n - 1, N, F)
<1> DEFINE s == Opened(n, N, F)
           t == Opened(n - 1, N, F)
<1>1. n - 1 \in Nat
    OBVIOUS
<1>2. IsStack(s, n, N, F) /\ IsStack(t, n - 1, N, F)
    BY <1>1, OpenedProps
<1> HIDE DEF s, t
<1>3. PICK S, T : s \in Seq(S) /\ t \in Seq(T)
    BY <1>2 DEF IsStack
<1>4. Len(s) = n /\ Len(t) = n - 1 /\ \A i \in 1..(n - 1) : t[i] = s[i]
    BY <1>2 DEF IsStack
<1>5. /\ SubSeq(s, 1, n - 1) \in Seq(S) /\ Len(SubSeq(s, 1, n - 1)) = n - 1
      /\ \A i \in 1..(n - 1) : SubSeq(s, 1, n - 1)[i] = s[i]
    BY <1>3, <1>4
<1>6. SubSeq(s, 1, n - 1) = t
    BY <1>3, <1>4, <1>5
<1> QED
    BY <1>6 DEF s, t

\* New cells behind l, and new sizes, leave the headers alone.
LEMMA HeadersKept ==
    ASSUME BufType, BufInv, Headers(cells), NEW New, DOMAIN cells' = DOMAIN cells \cup New,
           \A q \in New : q \in Nat /\ l <= q,
           \A x \in DOMAIN cells : cells'[x] = cells[x] \/ (cells'[x].k # "sub" /\ cells[x].k # "sub"),
           \A p \in New : cells'[p].k = "sub" =>
               /\ cells'[p].w > 0 /\ p + cells'[p].w \in DOMAIN cells'
               /\ \A q \in DOMAIN cells' : p < q => p + cells'[p].w <= q
    PROVE  Headers(cells')
<1> SUFFICES ASSUME NEW p \in DOMAIN cells, cells'[p].k = "sub"
             PROVE  /\ cells'[p].w > 0 /\ p + cells'[p].w \in DOMAIN cells'
                    /\ \A q \in DOMAIN cells' : p < q => p + cells'[p].w <= q
    BY DEF Headers
<1>1. cells'[p] = cells[p] /\ cells[p].k = "sub"
    OBVIOUS
<1>2. /\ cells[p].w > 0 /\ p + cells[p].w \in DOMAIN cells
      /\ \A q \in DOMAIN cells : p < q => p + cells[p].w <= q
    BY <1>1 DEF Headers
<1>3. p + cells[p].w < l /\ p + cells[p].w \in Nat /\ l \in Nat
    BY <1>2 DEF BufType, BufInv, Capacity
<1>4. \A q \in New : p + cells[p].w <= q
    BY <1>3
<1> QED
    BY <1>1, <1>2, <1>4

\* What each builder has written stays when a size field is patched or
\* something is written behind it.
LEMMA ViewKept ==
    ASSUME BufType, BufInv, Headers(cells), Len(levels) > 0, NEW h, NEW F, View(cells, levels, l, h, F),
           \A x \in DOMAIN cells : x # Top.off => x \in DOMAIN cells' /\ cells'[x] = cells[x]
    PROVE  \A i \in 1..Len(levels) :
              /\ Holds(cells', levels[i].off + SizeField, Limit(levels, l, h, i), F[i])
              /\ i > 1 => h[i] \in DOMAIN cells' /\ cells'[h[i]] = cells[h[i]]
<1> TAKE i \in 1..Len(levels)
<1>1. /\ Len(levels) \in Nat /\ Top.off \in Nat /\ l \in Nat /\ DOMAIN cells \subseteq Nat
      /\ \A j \in 1..Len(levels) : j # Len(levels) => levels[j].off < Top.off
      /\ levels[Len(levels)].off = Top.off
    BY TopProps, SMTT(30) DEF BufType, Top
<1>2. \A j \in 1..Len(levels) : j > 1 =>
          h[j] \in Nat /\ h[j] \in DOMAIN cells /\ h[j] < levels[j].off /\ levels[j].off \in Nat
    BY HeaderProps DEF View
<1>3. \A j \in 1..Len(levels) : levels[j].off <= Top.off
    <2>1. \A j \in 1..Len(levels) : levels[j].off \in Nat
        <3>1. \A j \in 1..Len(levels) : levels[j] \in Level
            BY DEF BufType
        <3> QED
            BY <3>1 DEF Level
    <2> QED
        BY <1>1, <2>1
<1>4. \A j \in 1..Len(levels) : j > 1 => h[j] < Top.off
    BY <1>1, <1>2, <1>3
<1>5. i > 1 => h[i] \in DOMAIN cells' /\ cells'[h[i]] = cells[h[i]]
    BY <1>2, <1>4
<1>6. Holds(cells, levels[i].off + SizeField, Limit(levels, l, h, i), F[i])
    BY DEF View
<1>7. \A x \in DOMAIN cells : levels[i].off + SizeField <= x /\ x < Limit(levels, l, h, i) => x # Top.off
    <2>1. CASE i < Len(levels)
        <3>1. i + 1 \in 1..Len(levels) /\ i + 1 > 1
            BY <1>1, <2>1
        <3>2. Limit(levels, l, h, i) = h[i + 1] /\ h[i + 1] < Top.off /\ h[i + 1] \in Nat
            BY <1>2, <1>4, <2>1, <3>1, SMTT(30) DEF Limit
        <3> QED
            BY <1>1, <3>2
    <2>2. CASE i = Len(levels)
        BY <1>1, <2>2, SMTT(30) DEF SizeField
    <2> QED
        BY <1>1, <2>1, <2>2
<1>8. Holds(cells', levels[i].off + SizeField, Limit(levels, l, h, i), F[i])
    BY <1>1, <1>6, <1>7, HoldsFrame, SMTT(30)
<1> QED
    BY <1>5, <1>8, SMTT(30)

\* The fields of a span are a sequence.
LEMMA HoldsSeq ==
    ASSUME NEW c, NEW p, NEW e, NEW f, Holds(c, p, e, f)
    PROVE  \E S : f \in Seq(S)
<1>1. PICK R, S : Spans(c, R, S) /\ p \in Nat /\ e \in Nat /\ f \in R[p][e]
    BY DEF Holds
<1>2. f \in Seq(S)
    BY <1>1 DEF Spans
<1> QED
    BY <1>2

\* There is a document on a stack that has a length.
LEMMA OpenedNonempty ==
    ASSUME NEW n \in Nat, n > 0, NEW N, NEW F
    PROVE  Opened(n, N, F) # <<>>
<1>1. Len(Opened(n, N, F)) = n
    BY OpenedProps DEF IsStack
<1> QED
    BY <1>1

\* What the refinement needs of a step that goes on building: the new stack of
\* documents, and that it can be read.
Builds(F, h, g, G) ==
    /\ Headers(cells') /\ View(cells', levels', l', g, G)
    /\ AbstractOpen = Opened(Len(levels), Titles(cells, levels, h), F)
    /\ AbstractOpen' = Opened(Len(levels'), Titles(cells', levels', g), G)

\* The same facts from the invariants.
LEMMA BuildsProps ==
    ASSUME IInv, IInv', Headers(cells), Headers(cells'), phase = "build", phase' = "build",
           NEW h, NEW F, NEW g, NEW G, View(cells, levels, l, h, F), View(cells', levels', l', g, G)
    PROVE  Builds(F, h, g, G)
<1>1. BufType /\ BufInv /\ BufType' /\ BufInv'
    BY DEF IInv, TypeOK, BufType
<1>2. AbstractOpen = Opened(Len(levels), Titles(cells, levels, h), F)
    BY <1>1, OpenIs DEF OpenFact
<1>3. AbstractOpen' = Opened(Len(levels'), Titles(cells', levels', g), G)
    BY <1>1, OpenIsNext DEF OpenFact
<1> QED
    BY <1>2, <1>3 DEF Builds

\* append() adds a field to the innermost document.
LEMMA AppendRefines ==
    ASSUME IInv, IInv', Readable, NEW n \in NameSizes, NEW v \in ValueSizes,
           AppendValue(n, v), phase' = "build"
    PROVE  Readable' /\ Doc!Add(1 + n + v[1] + v[2])
<1> DEFINE m == l + 1 + n + v[1] + v[2]
           k == Len(levels)
           w == 1 + n + v[1] + v[2]
<1>1. /\ BufType /\ BufInv /\ Headers(cells) /\ l \in Nat /\ k \in Nat /\ k > 0 /\ DOMAIN cells \subseteq Nat
      /\ k \in 1..k
    BY DEF IInv, TypeOK, BufType, Readable, AppendValue, Owner
<1>2. n \in Nat /\ v[1] \in Nat /\ v[2] \in Nat
    BY BuilderAssumption
<1>3. m \in Nat /\ m > l /\ m - l = w /\ w \in Nat \ {0} /\ l + w = m
    <2>1. \A a, b \in Nat :
              LET z == l + 1 + n + a + b
                  y == 1 + n + a + b
              IN  z \in Nat /\ z > l /\ z - l = y /\ y \in Nat \ {0} /\ l + y = z
        BY <1>1, <1>2, SMTT(30)
    <2> QED
        BY <1>2, <2>1, Zenon
<1>4. /\ phase = "build" /\ ~Top.done /\ l' = m
      /\ cells' = Put(cells, l, Cell("elem", m - l))
      /\ levels' = levels
    BY SMTT(30) DEF AppendValue, ThrowsIn, GrowTo
<1> HIDE DEF m, w, k
<1>5. /\ l \notin DOMAIN cells /\ DOMAIN cells' = DOMAIN cells \cup {l}
      /\ \A x \in DOMAIN cells : cells'[x] = cells[x]
      /\ cells'[l].k = "elem" /\ cells'[l].w = w
    BY <1>1, <1>3, <1>4 DEF Put, Cell, BufInv, Capacity
<1>6. PICK h, F : View(cells, levels, l, h, F)
    BY <1>4 DEF Readable
<1>7. Headers(cells')
    <2> DEFINE New == {l}
    <2>1. DOMAIN cells' = DOMAIN cells \cup New /\ \A q \in New : q \in Nat /\ l <= q
        BY <1>1, <1>5
    <2>2. \A p \in New : cells'[p].k # "sub"
        BY <1>5, SMTT(30)
    <2> HIDE DEF New
    <2> QED
        BY <1>1, <1>5, <2>1, <2>2, HeadersKept, SMTT(30)
<1> DEFINE x == <<"value", w>>
           G == [i \in 1..k |-> IF i = k THEN Append(F[i], x) ELSE F[i]]
<1>8. ASSUME NEW i \in 1..k
      PROVE  /\ Holds(cells', levels[i].off + SizeField, Limit(levels, l, h, i), F[i])
             /\ i > 1 => h[i] \in DOMAIN cells' /\ cells'[h[i]] = cells[h[i]]
    BY <1>1, <1>5, <1>6, ViewKept DEF k
<1>9. G[k] = Append(F[k], x) /\ \A i \in 1..k : i # k => G[i] = F[i]
    BY <1>1
<1> HIDE DEF G, x
<1>10. Holds(cells', levels[k].off + SizeField, l', Append(F[k], x))
    <2>1. Limit(levels, l, h, k) = l
        BY <1>1, <1>4 DEF Limit, Top, k
    <2>2. Holds(cells', levels[k].off + SizeField, l, F[k])
        BY <1>1, <1>8, <2>1
    <2>3. ElemAt(cells', l, m) /\ m = l + cells'[l].w
        BY <1>1, <1>3, <1>5 DEF ElemAt
    <2>4. Holds(cells', l, m, <<x>>)
        BY <1>1, <1>5, <2>3, HoldsElem, SMTT(30) DEF x
    <2>5. Holds(cells', levels[k].off + SizeField, m, F[k] \o <<x>>)
        BY <2>2, <2>4, HoldsConcat
    <2>6. PICK S : F[k] \in Seq(S)
        BY <2>2, HoldsSeq
    <2>7. F[k] \o <<x>> = Append(F[k], x)
        BY <2>6, SMTT(30)
    <2> QED
        BY <1>4, <2>5, <2>7, Zenon
<1>11. View(cells', levels', l', h, G)
    <2> SUFFICES ASSUME NEW i \in 1..Len(levels')
                 PROVE  /\ i > 1 => HeaderAt(cells', levels', h[i], i)
                        /\ Holds(cells', levels'[i].off + SizeField, Limit(levels', l', h, i), G[i])
                        /\ levels'[i].done => /\ i = Len(levels') /\ i > 1
                                              /\ cells'[levels'[i].off].w = l' - levels'[i].off
        BY DEF View
    <2>1. i \in 1..k /\ levels'[i] = levels[i] /\ k = Len(levels')
        BY <1>4, SMTT(30) DEF k
    <2>2. i > 1 => HeaderAt(cells', levels', h[i], i)
        BY <1>4, <1>6, <1>8, <2>1, SMTT(30) DEF View, HeaderAt, k
    <2>3. ~levels[i].done
        BY <1>4, <1>6, <2>1, SMTT(30) DEF View, Top, k
    <2>4. CASE i = k
        <3>1. Limit(levels', l', h, i) = l'
            BY <1>1, <2>1, <2>3, <2>4 DEF Limit
        <3> QED
            BY <1>9, <1>10, <2>1, <2>2, <2>3, <2>4, <3>1, ZenonT(30)
    <2>5. CASE i # k
        <3>1. Limit(levels', l', h, i) = Limit(levels, l, h, i)
            BY <1>1, <2>1, <2>5, SMTT(30) DEF Limit, k
        <3> QED
            BY <1>8, <1>9, <2>1, <2>2, <2>3, <2>5, <3>1, SMTT(30)
    <2> QED
        BY <2>4, <2>5, SMTT(30)
<1>12. Builds(F, h, h, G)
    BY <1>1, <1>4, <1>6, <1>7, <1>11, BuildsProps, SMTT(30)
<1>13. Doc!Extended(AbstractOpen, x) = AbstractOpen'
    <2>1. ASSUME NEW i \in 1..k
          PROVE  (Titles(cells', levels', h))[i] = Titles(cells, levels, h)[i]
        <3>1. i \in 1..Len(levels) /\ i \in 1..Len(levels') /\ i \in Nat \ {0}
            BY <1>1, <1>4 DEF k
        <3>2. i > 1 => cells'[h[i]] = cells[h[i]]
            BY <1>8, Zenon
        <3> QED
            BY <3>1, <3>2, SMTT(30) DEF Titles
    <2>2. Doc!Extended(Opened(k, Titles(cells, levels, h), F), x) = Opened(k, Titles(cells', levels', h), G)
        BY <1>1, <1>9, <2>1, OpenedExtended
    <2> QED
        BY <1>4, <1>12, <2>2, SMTT(30) DEF Builds, k
<1>14. AbstractOpen # <<>>
    BY <1>1, <1>12, OpenedNonempty DEF Builds, k
<1>15. AbstractResult' = AbstractResult
    BY <1>4 DEF AbstractResult
<1>16. Readable'
    BY <1>7, <1>11 DEF Readable
<1> QED
    BY <1>13, <1>14, <1>15, <1>16, SMTT(30) DEF Doc!Add, x, w

\* subobjStart() begins a document.
LEMMA SubStartRefines ==
    ASSUME IInv, IInv', Readable, NEW n \in NameSizes, SubStart(n), phase' = "build"
    PROVE  Readable' /\ Doc!Begin(1 + n)
<1> DEFINE o == l + 1 + n
           k == Len(levels)
<1>1. /\ BufType /\ BufInv /\ Headers(cells) /\ l \in Nat /\ k \in Nat /\ k > 0 /\ DOMAIN cells \subseteq Nat
      /\ k \in 1..k /\ levels \in Seq(Level)
    BY DEF IInv, TypeOK, BufType, Readable, SubStart, Owner
<1>2. n \in Nat /\ o \in Nat /\ l < o /\ l + (1 + n) = o /\ 1 + n > 0 /\ o + SizeField \in Nat
    BY <1>1, BuilderAssumption, SMTT(30) DEF SizeField
<1>3. /\ phase = "build" /\ ~Top.done /\ l' = o + SizeField
      /\ cells' = Put(Put(cells, l, Cell("sub", 1 + n)), o, Cell("size", 0))
      /\ levels' = Append(levels, [off |-> o, done |-> FALSE])
    BY DEF SubStart, ThrowsIn, GrowTo
<1> HIDE DEF o
<1>4. \A x \in DOMAIN cells : x < l
    BY DEF IInv, BufInv, Capacity
<1>5. /\ l \notin DOMAIN cells /\ o \notin DOMAIN cells /\ l # o
    BY <1>1, <1>2, <1>4, SMTT(30)
<1>6. /\ DOMAIN cells' = DOMAIN cells \cup {l, o}
      /\ \A x \in DOMAIN cells : cells'[x] = cells[x]
      /\ cells'[l].k = "sub" /\ cells'[l].w = 1 + n
      /\ cells'[o].k = "size"
    BY <1>3, <1>5 DEF Put, Cell
<1>7. [off |-> o, done |-> FALSE] \in Level
    BY <1>2, SMTT(30) DEF Level
<1>8. /\ Len(levels') = k + 1
      /\ \A i \in 1..k : levels'[i] = levels[i]
      /\ levels'[k + 1] = [off |-> o, done |-> FALSE]
    BY <1>1, <1>3, <1>7
<1>9. levels'[k + 1].off = o /\ levels'[k + 1].done = FALSE
    BY <1>8
<1>10. PICK h, F : View(cells, levels, l, h, F)
    BY <1>3, SMTT(30) DEF Readable
<1>11. Headers(cells')
    <2> DEFINE New == {l, o}
    <2>1. DOMAIN cells' = DOMAIN cells \cup New /\ \A q \in New : q \in Nat /\ l <= q
        BY <1>1, <1>2, <1>6
    <2>2. \A p \in New : cells'[p].k = "sub" => p = l
        BY <1>6
    <2>3. /\ cells'[l].w > 0 /\ l + cells'[l].w \in DOMAIN cells'
          /\ \A q \in DOMAIN cells' : l < q => l + cells'[l].w <= q
        BY <1>1, <1>2, <1>4, <1>6
    <2> HIDE DEF New
    <2> QED
        BY <1>1, <1>6, <2>1, <2>2, <2>3, HeadersKept, Zenon
<1> DEFINE g == [i \in 1..(k + 1) |-> IF i = k + 1 THEN l ELSE h[i]]
           G == [i \in 1..(k + 1) |-> IF i = k + 1 THEN <<>> ELSE F[i]]
<1>12. /\ k + 1 \in 1..(k + 1) /\ g[k + 1] = l /\ G[k + 1] = <<>>
       /\ \A i \in 1..k : i \in 1..(k + 1) /\ i # k + 1 /\ g[i] = h[i] /\ G[i] = F[i]
       /\ \A i \in 1..(k + 1) : i \in 1..k \/ i = k + 1
    BY <1>1, SMTT(30)
<1> HIDE DEF g, G
<1>13. ASSUME NEW i \in 1..k
       PROVE  /\ Holds(cells', levels[i].off + SizeField, Limit(levels, l, h, i), F[i])
              /\ i > 1 => h[i] \in DOMAIN cells' /\ cells'[h[i]] = cells[h[i]]
    BY <1>1, <1>6, <1>10, ViewKept, SMTT(30)
<1>14. ASSUME NEW i \in 1..k
       PROVE  ~levels[i].done /\ Limit(levels', l', g, i) = Limit(levels, l, h, i)
    <2>1. ~levels[i].done
        BY <1>3, <1>10, SMTT(30) DEF View, Top
    <2>2. i < Len(levels') /\ Limit(levels', l', g, i) = g[i + 1]
        BY <1>1, <1>8, SMTT(30) DEF Limit
    <2>3. CASE i = k
        BY <1>12, <2>1, <2>2, <2>3, SMTT(30) DEF Limit
    <2>4. CASE i # k
        <3>1. i + 1 \in 1..k /\ i < k
            BY <1>1, <2>4, SMTT(30)
        <3> QED
            BY <1>12, <2>1, <2>2, <3>1 DEF Limit
    <2> QED
        BY <2>1, <2>3, <2>4, SMTT(30)
<1>15. View(cells', levels', l', g, G)
    <2> SUFFICES ASSUME NEW i \in 1..Len(levels')
                 PROVE  /\ i > 1 => HeaderAt(cells', levels', g[i], i)
                        /\ Holds(cells', levels'[i].off + SizeField, Limit(levels', l', g, i), G[i])
                        /\ ~levels'[i].done
        BY SMTT(30) DEF View
    <2>1. CASE i \in 1..k
        <3>1. i > 1 => HeaderAt(cells', levels', g[i], i)
            BY <1>8, <1>10, <1>12, <1>13, <2>1, SMTT(30) DEF View, HeaderAt
        <3> QED
            BY <1>8, <1>12, <1>13, <1>14, <2>1, <3>1, SMTT(30)
    <2>2. CASE i = k + 1
        <3>1. HeaderAt(cells', levels', g[i], i)
            BY <1>2, <1>6, <1>9, <1>12, <2>2, SMTT(30) DEF HeaderAt
        <3>2. Limit(levels', l', g, i) = l'
            BY <1>1, <1>8, <1>9, <2>2 DEF Limit
        <3>3. Holds(cells', o + SizeField, o + SizeField, <<>>)
            BY <1>2, HoldsEmpty, SMTT(30)
        <3> QED
            BY <1>3, <1>9, <1>12, <2>2, <3>1, <3>2, <3>3, SMTT(30)
    <2> QED
        BY <1>8, <1>12, <2>1, <2>2, SMTT(30)
<1>16. Builds(F, h, g, G)
    BY <1>1, <1>3, <1>10, <1>11, <1>15, BuildsProps, Zenon
<1>17. Append(AbstractOpen, [name |-> 1 + n, fields |-> <<>>]) = AbstractOpen'
    <2> DEFINE N == Titles(cells, levels, h)
               M == Titles(cells', levels', g)
    <2>1. ASSUME NEW i \in 1..k PROVE M[i] = N[i]
        <3>1. i \in 1..Len(levels) /\ i \in 1..Len(levels') /\ i \in Nat \ {0}
            BY <1>1, <1>8
        <3>2. i > 1 => g[i] = h[i] /\ cells'[h[i]] = cells[h[i]]
            BY <1>12, <1>13, Zenon
        <3> QED
            BY <3>1, <3>2, SMTT(30) DEF Titles
    <2>2. M[k + 1] = 1 + n
        <3>1. k + 1 # 1
            BY <1>1
        <3> QED
            BY <1>6, <1>8, <1>12, <3>1 DEF Titles
    <2>3. AbstractOpen = Opened(k, N, F) /\ AbstractOpen' = Opened(k + 1, M, G)
        BY <1>8, <1>16, Zenon DEF Builds
    <2> HIDE DEF N, M, k
    <2>4. Append(Opened(k, N, F), DocAt(M, G, k + 1)) = Opened(k + 1, M, G)
        <3>1. k \in Nat
            BY <1>1
        <3>2. \A i \in 1..k : M[i] = N[i] /\ G[i] = F[i]
            BY <1>12, <2>1
        <3>3. PICK m : m = k + 1
            OBVIOUS
        <3>4. Pushed(Opened(k, N, F), DocAt(M, G, m)) = Opened(m, M, G)
            BY <3>1, <3>2, <3>3, OpenedAppend, SMTT(30)
        <3> QED
            BY <3>3, <3>4 DEF Pushed
    <2>5. DocAt(M, G, k + 1) = [name |-> 1 + n, fields |-> <<>>]
        BY <1>12, <2>2 DEF DocAt
    <2> QED
        BY <2>3, <2>4, <2>5
<1>18. AbstractOpen # <<>>
    BY <1>1, <1>16, OpenedNonempty DEF Builds
<1>19. AbstractResult' = AbstractResult
    BY <1>3 DEF AbstractResult
<1>20. Readable'
    BY <1>11, <1>15, SMTT(30) DEF Readable
<1> QED
    BY <1>17, <1>18, <1>19, <1>20, SMTT(30) DEF Doc!Begin

\* _done() leaves the headers and all but its own size field alone.
LEMMA SealKeeps ==
    ASSUME BufType, BufInv, Headers(cells), Len(levels) > 0, ~Top.done, Fits(l + 1), Seal
    PROVE  /\ Headers(cells') /\ l' = l + 1
           /\ Top.off \in DOMAIN cells' /\ cells'[Top.off].w = l' - Top.off
           /\ \A x \in DOMAIN cells : x # Top.off => x \in DOMAIN cells' /\ cells'[x] = cells[x]
<1> DEFINE t == Top.off
<1>1. /\ l' = l + 1 /\ DOMAIN cells' = DOMAIN cells \cup {l}
      /\ cells'[l] = Cell("eoo", 1) /\ cells'[t] = Cell("size", l + 1 - t)
      /\ \A x \in DOMAIN cells : x # t => cells'[x] = cells[x]
    BY SealProps
<1>2. t \in DOMAIN cells /\ cells[t].k = "size"
    BY TopProps
<1> HIDE DEF t
<1>3. /\ cells'[l].k = "eoo" /\ cells'[t].k = "size" /\ cells'[t].w = l' - t
    <2>1. l \in Nat /\ t \in Nat
        BY TopProps DEF BufType, t
    <2>2. PICK d : d = l + 1 - t
        OBVIOUS
    <2>3. cells'[t].k = "size" /\ cells'[t].w = d
        BY <1>1, <2>2 DEF Cell
    <2>4. cells'[l].k = "eoo"
        BY <1>1 DEF Cell
    <2>5. d = l' - t
        BY <1>1, <2>1, <2>2, SMTT(30)
    <2> QED
        BY <2>3, <2>4, <2>5
<1>4. Headers(cells')
    <2> DEFINE New == {l}
    <2>1. DOMAIN cells' = DOMAIN cells \cup New /\ \A q \in New : q \in Nat /\ l <= q
        BY <1>1 DEF BufType
    <2>2. \A p \in New : cells'[p].k # "sub"
        BY <1>3
    <2>3. \A x \in DOMAIN cells : cells'[x] = cells[x] \/ (cells'[x].k # "sub" /\ cells[x].k # "sub")
        BY <1>1, <1>2, <1>3
    <2> HIDE DEF New
    <2> QED
        BY <2>1, <2>2, <2>3, HeadersKept
<1> QED
    BY <1>1, <1>2, <1>3, <1>4, SMTT(30) DEF t

\* done() changes nothing that a reader sees.
LEMMA DoneRefines ==
    ASSUME IInv, IInv', Readable, Done, phase' = "build"
    PROVE  Readable' /\ AbstractOpen' = AbstractOpen /\ AbstractResult' = AbstractResult
<1> DEFINE k == Len(levels)
<1>1. /\ BufType /\ BufInv /\ Headers(cells) /\ l \in Nat /\ k \in Nat /\ k > 1 /\ k > 0
      /\ k \in 1..k
    BY DEF IInv, TypeOK, BufType, Readable, Done
<1>2. phase = "build" /\ ~Top.done /\ SetDone /\ Fits(l + 1) /\ Seal
    BY DEF Done
<1>3. /\ Headers(cells') /\ l' = l + 1
      /\ Top.off \in DOMAIN cells' /\ cells'[Top.off].w = l' - Top.off
      /\ \A x \in DOMAIN cells : x # Top.off => x \in DOMAIN cells' /\ cells'[x] = cells[x]
    BY <1>1, <1>2, SealKeeps, SMTT(30)
<1>4. /\ Len(levels') = k /\ levels'[k].off = Top.off /\ levels'[k].done
      /\ \A i \in 1..(k - 1) : levels'[i] = levels[i]
    BY <1>1, <1>2, SetDoneProps, ZenonT(30)
<1>5. PICK h, F : View(cells, levels, l, h, F)
    BY <1>2, SMTT(30) DEF Readable
<1>6. ASSUME NEW i \in 1..k
      PROVE  /\ Holds(cells', levels[i].off + SizeField, Limit(levels, l, h, i), F[i])
             /\ i > 1 => h[i] \in DOMAIN cells' /\ cells'[h[i]] = cells[h[i]]
    BY <1>1, <1>3, <1>5, ViewKept, SMTT(30)
<1>7. View(cells', levels', l', h, F)
    <2> SUFFICES ASSUME NEW i \in 1..Len(levels')
                 PROVE  /\ i > 1 => HeaderAt(cells', levels', h[i], i)
                        /\ Holds(cells', levels'[i].off + SizeField, Limit(levels', l', h, i), F[i])
                        /\ levels'[i].done => /\ i = Len(levels') /\ i > 1
                                              /\ cells'[levels'[i].off].w = l' - levels'[i].off
        BY SMTT(30) DEF View
    <2>1. i \in 1..k /\ levels'[i].off = levels[i].off
        BY <1>1, <1>4, SMTT(30) DEF Top
    <2>2. i > 1 => HeaderAt(cells', levels', h[i], i)
        BY <1>5, <1>6, <2>1 DEF View, HeaderAt
    <2>3. Limit(levels', l', h, i) = Limit(levels, l, h, i)
        <3>1. CASE i < k
            BY <1>4, <3>1, SMTT(30) DEF Limit
        <3>2. CASE i = k
            <4>1. Limit(levels', l', h, i) = l' - 1
                BY <1>1, <1>4, <3>2 DEF Limit
            <4>2. Limit(levels, l, h, i) = l
                BY <1>1, <1>2, <3>2, SMTT(30) DEF Limit, Top
            <4> QED
                BY <1>1, <1>3, <4>1, <4>2, SMTT(30)
        <3> QED
            BY <1>1, <2>1, <3>1, <3>2, SMTT(30)
    <2>4. levels'[i].done => /\ i = Len(levels') /\ i > 1
                             /\ cells'[levels'[i].off].w = l' - levels'[i].off
        <3>1. CASE i = k
            BY <1>1, <1>3, <1>4, <3>1, SMTT(30)
        <3>2. CASE i # k
            <4>1. i \in 1..(k - 1)
                BY <1>1, <2>1, <3>2, SMTT(30)
            <4>2. ~levels[i].done
                BY <1>5, <2>1, <3>2, SMTT(30) DEF View
            <4> QED
                BY <1>4, <4>1, <4>2
        <3> QED
            BY <3>1, <3>2, SMTT(30)
    <2> QED
        BY <1>6, <2>1, <2>2, <2>3, <2>4, SMTT(30)
<1>8. Builds(F, h, h, F)
    BY <1>1, <1>2, <1>3, <1>5, <1>7, BuildsProps, SMTT(30)
<1>9. AbstractOpen' = AbstractOpen
    <2> DEFINE N == Titles(cells, levels, h)
               M == Titles(cells', levels', h)
    <2>1. ASSUME NEW i \in 1..k PROVE M[i] = N[i] /\ F[i] = F[i]
        <3>1. i \in 1..Len(levels) /\ i \in 1..Len(levels') /\ i \in Nat \ {0}
            BY <1>1, <1>4
        <3>2. i > 1 => cells'[h[i]] = cells[h[i]]
            BY <1>6, Zenon
        <3> QED
            BY <3>1, <3>2, SMTT(30) DEF Titles
    <2>2. AbstractOpen = Opened(k, N, F) /\ AbstractOpen' = Opened(k, M, F)
        BY <1>4, <1>8 DEF Builds
    <2> HIDE DEF N, M, k
    <2>3. IsStack(Opened(k, N, F), k, N, F) /\ IsStack(Opened(k, M, F), k, M, F)
        BY <1>1, OpenedProps
    <2>4. Opened(k, N, F) = Opened(k, M, F)
        BY <1>1, <2>1, <2>3, SameStack
    <2> QED
        BY <2>2, <2>4, SMTT(30)
<1>10. AbstractResult' = AbstractResult
    BY <1>2, SMTT(30) DEF AbstractResult
<1>11. Readable'
    BY <1>3, <1>7, SMTT(30) DEF Readable
<1> QED
    BY <1>9, <1>10, <1>11

\* What the refinement needs of the buffer when the innermost builder leaves
\* scope: its document is finished, and the rest was left alone.
Finished(F) ==
    /\ Headers(cells')
    /\ \A x \in DOMAIN cells : x # Top.off => x \in DOMAIN cells' /\ cells'[x] = cells[x]
    /\ Top.off \in DOMAIN cells' /\ cells'[Top.off].w = l' - Top.off
    /\ Holds(cells', Top.off + SizeField, l' - 1, F[Len(levels)])

\* The finished document is one field of the enclosing one.
LEMMA PopHolds ==
    ASSUME BufType, BufInv, l' \in Nat, Headers(cells), Len(levels) > 1,
           NEW h, NEW F, View(cells, levels, l, h, F), Finished(F),
           NEW k, k = Len(levels), NEW j, j = k - 1, NEW x, x = <<"doc", cells[h[k]].w, F[k]>>
    PROVE  Holds(cells', levels[j].off + SizeField, l', Append(F[j], x))
<1> DEFINE p == h[k]
           t == Top.off
<1>1. k \in Nat /\ j \in 1..k /\ k \in 1..k /\ k > 1 /\ j < k /\ j + 1 = k
    BY SMTT(30) DEF BufType
<1>2. /\ t \in Nat /\ levels[k].off = t
    BY TopProps, SMTT(30) DEF Top
<1>3. HeaderAt(cells, levels, p, k)
    BY <1>1, SMTT(30) DEF View
<1>4. p \in Nat /\ p \in DOMAIN cells /\ p < t
    BY <1>1, <1>2, <1>3, HeaderProps, SMTT(30)
<1>5. cells[p].k = "sub" /\ p + cells[p].w = t /\ cells[p].w \in Nat \ {0}
    <2>1. cells[p].w \in Nat
        BY <1>4, SMTT(30) DEF BufType, CellSet
    <2>2. cells[p].k = "sub" /\ p + cells[p].w = t
        BY <1>2, <1>3, SMTT(30) DEF HeaderAt
    <2>3. cells[p].w > 0
        BY <1>4, <2>2, SMTT(30) DEF Headers
    <2> QED
        BY <2>1, <2>2, <2>3
<1>6. p \in DOMAIN cells' /\ cells'[p] = cells[p] /\ t \in DOMAIN cells' /\ cells'[t].w = l' - t
    BY <1>4, SMTT(30) DEF Finished
<1>7. Holds(cells', t + SizeField, l' - 1, F[k])
    BY SMTT(30) DEF Finished
<1>8. t + SizeField <= l' - 1
    BY <1>7, HoldsOrder, SMTT(30)
<1>9. cells'[t].w \in Nat /\ cells'[t].w > SizeField /\ t + cells'[t].w = l'
    BY <1>2, <1>6, <1>8, SMTT(30) DEF SizeField
<1> HIDE DEF p, t
<1>10. SubAt(cells', p, t, l')
    BY <1>5, <1>6, <1>9, SMTT(30) DEF SubAt
<1>11. Holds(cells', p, l', <<<<"doc", cells'[p].w, F[k]>>>>)
    BY <1>4, <1>7, <1>9, <1>10, HoldsDoc, SMTT(30)
<1>12. Holds(cells', p, l', <<x>>)
    BY <1>6, <1>11, SMTT(30) DEF p
<1>13. Holds(cells', levels[j].off + SizeField, p, F[j])
    <2>1. Limit(levels, l, h, j) = p
        BY <1>1, SMTT(30) DEF Limit, p
    <2>2. \A i \in 1..Len(levels) : Holds(cells', levels[i].off + SizeField, Limit(levels, l, h, i), F[i])
        BY ViewKept, SMTT(30) DEF Finished
    <2> QED
        BY <1>1, <2>1, <2>2
<1>14. Holds(cells', levels[j].off + SizeField, l', F[j] \o <<x>>)
    BY <1>12, <1>13, HoldsConcat, SMTT(30)
<1>15. PICK S : F[j] \in Seq(S)
    BY <1>13, HoldsSeq, SMTT(30)
<1>16. F[j] \o <<x>> = Append(F[j], x)
    BY <1>15
<1> QED
    BY <1>14, <1>16, Zenon

\* A sub-builder that leaves scope behind a finished document ends it.
LEMMA PopRefines ==
    ASSUME IInv, IInv', Headers(cells), phase = "build", phase' = "build", Len(levels) > 1, Pop,
           NEW h, NEW F, View(cells, levels, l, h, F), Finished(F)
    PROVE  Readable' /\ Doc!End
<1> DEFINE k == Len(levels)
           j == k - 1
<1>0. /\ BufType /\ BufInv /\ l \in Nat /\ l' \in Nat /\ k \in Nat /\ k > 1
    BY DEF IInv, TypeOK, BufType
<1>1. /\ BufType /\ BufInv /\ l \in Nat /\ l' \in Nat /\ k \in Nat /\ k > 1
      /\ j \in Nat \ {0} /\ j \in 1..k /\ k \in 1..k /\ j \in 1..j /\ j < k /\ j + 1 = k
    <2> HIDE DEF k
    <2> QED
        BY <1>0
<1>2. Len(levels') = j /\ \A i \in 1..j : levels'[i] = levels[i]
    <2>1. Len(levels) > 0
        BY <1>1, SMTT(30)
    <2>2. Len(levels') = Len(levels) - 1 /\ \A i \in 1..Len(levels') : levels'[i] = levels[i]
        BY <1>1, <2>1, PopProps, Zenon
    <2> QED
        BY <2>2
<1>3. PICK x : x = <<"doc", cells[h[k]].w, F[k]>>
    BY Zenon
<1> DEFINE G == [i \in 1..j |-> IF i = j THEN Append(F[i], x) ELSE F[i]]
<1>4. G[j] = Append(F[j], x) /\ \A i \in 1..j : i # j => G[i] = F[i]
    BY <1>1, Zenon
<1> HIDE DEF G, k, j
<1>5. Holds(cells', levels[j].off + SizeField, l', Append(F[j], x))
    BY <1>1, <1>3, PopHolds, SMTT(30) DEF k, j
<1>6. ASSUME NEW i \in 1..j
      PROVE  /\ Holds(cells', levels[i].off + SizeField, Limit(levels, l, h, i), F[i])
             /\ i > 1 => h[i] \in DOMAIN cells' /\ cells'[h[i]] = cells[h[i]]
             /\ ~levels[i].done
    <2>1. i \in 1..k /\ i # k /\ k > 0
        BY <1>1, SMTT(30)
    <2>2. ~levels[i].done
        BY <2>1, SMTT(30) DEF View, k
    <2> QED
        BY <1>1, <2>1, <2>2, ViewKept, Zenon DEF Finished, k
<1>7. View(cells', levels', l', h, G)
    <2> SUFFICES ASSUME NEW i \in 1..j
                 PROVE  /\ i > 1 => HeaderAt(cells', levels', h[i], i)
                        /\ Holds(cells', levels'[i].off + SizeField, Limit(levels', l', h, i), G[i])
                        /\ ~levels'[i].done
        BY <1>2, ZenonT(30) DEF View
    <2>1. levels'[i] = levels[i] /\ ~levels'[i].done
        BY <1>2, <1>6, SMTT(30)
    <2>2. i > 1 => HeaderAt(cells', levels', h[i], i)
        <3>1. i \in 1..k
            BY <1>1, SMTT(30)
        <3> QED
            BY <1>6, <2>1, <3>1 DEF View, HeaderAt, k
    <2>3. CASE i = j
        <3>1. Limit(levels', l', h, i) = l'
            BY <1>1, <1>2, <2>1, <2>3, SMTT(30) DEF Limit
        <3> QED
            BY <1>4, <1>5, <2>1, <2>2, <2>3, <3>1, Zenon
    <2>4. CASE i # j
        <3>1. i < j /\ i < k
            BY <1>1, <2>4, SMTT(30)
        <3>2. Limit(levels', l', h, i) = Limit(levels, l, h, i)
            BY <1>2, <3>1, ZenonT(30) DEF Limit, k
        <3> QED
            BY <1>4, <1>6, <2>1, <2>2, <2>4, <3>2, Zenon
    <2> QED
        BY <2>3, <2>4, ZenonT(30)
<1>8. Builds(F, h, h, G)
    BY <1>1, <1>7, BuildsProps, SMTT(30) DEF Finished
<1> DEFINE N == Titles(cells, levels, h)
           M == Titles(cells', levels', h)
           s == AbstractOpen
<1>9. ASSUME NEW i \in 1..j PROVE M[i] = N[i]
    <2>1. i \in 1..Len(levels) /\ i \in 1..Len(levels') /\ i \in Nat \ {0}
        BY <1>1, <1>2, SMTT(30) DEF k
    <2>2. i > 1 => cells'[h[i]] = cells[h[i]]
        BY <1>1, <1>2, <1>6, SMTT(30) DEF k
    <2> QED
        BY <2>1, <2>2, SMTT(30) DEF Titles
<1>10. s = Opened(k, N, F) /\ AbstractOpen' = Opened(j, M, G)
    BY <1>2, <1>8, SMTT(30) DEF Builds, k
<1>11. N[k] = cells[h[k]].w
    BY <1>1 DEF Titles, k
<1> HIDE DEF N, M, s
<1>12. Len(s) = k /\ s[k] = DocAt(N, F, k)
    BY <1>1, <1>10, OpenedProps, SMTT(30) DEF IsStack
<1>13. s[k].name = N[k] /\ s[k].fields = F[k]
    BY <1>12, SMTT(30) DEF DocAt
<1>14. <<"doc", s[k].name, s[k].fields>> = x
    BY <1>3, <1>11, <1>13, SMTT(30)
<1>15. SubSeq(s, 1, k - 1) = Opened(j, N, F)
    BY <1>1, <1>10, OpenedPop, SMTT(30) DEF j
<1>16. Doc!Extended(Opened(j, N, F), x) = AbstractOpen'
    BY <1>1, <1>4, <1>9, <1>10, OpenedExtended
<1>17. AbstractResult' = AbstractResult
    BY SMTT(30) DEF AbstractResult
<1>18. Readable'
    BY <1>7 DEF Readable, Finished
<1>19. Len(s) > 1 /\ AbstractOpen' = Doc!Extended(SubSeq(s, 1, Len(s) - 1), <<"doc", s[Len(s)].name, s[Len(s)].fields>>)
    BY <1>1, <1>12, <1>14, <1>15, <1>16, Zenon
<1> QED
    BY <1>17, <1>18, <1>19 DEF Doc!End, s

\* The end of a sub-builder's scope ends its document, whether done() was
\* called or the destructor calls it.
LEMMA CloseRefines ==
    ASSUME IInv, IInv', Readable, CloseSub, phase' = "build"
    PROVE  Readable' /\ Doc!End
<1>1. phase = "build" /\ DestroySub /\ data
    BY DEF CloseSub, IInv, Owner
<1>2. BufType /\ BufInv /\ Headers(cells) /\ l \in Nat /\ Len(levels) > 1 /\ Len(levels) > 0 /\ Pop
      /\ Len(levels) \in 1..Len(levels)
    BY <1>1 DEF IInv, TypeOK, BufType, Readable, DestroySub
<1>3. PICK h, F : View(cells, levels, l, h, F)
    BY <1>1 DEF Readable
<1>4. Finished(F)
    <2> DEFINE k == Len(levels)
    <2>1. Holds(cells, Top.off + SizeField, Limit(levels, l, h, k), F[k])
        BY <1>2, <1>3, SMTT(30) DEF View, Top
    <2>2. CASE ~Top.done
        <3>1. Fits(l + 1) /\ Seal
            BY <1>1, <2>2, SMTT(30) DEF DestroySub
        <3>2. /\ Headers(cells') /\ l' = l + 1
              /\ Top.off \in DOMAIN cells' /\ cells'[Top.off].w = l' - Top.off
              /\ \A x \in DOMAIN cells : x # Top.off => x \in DOMAIN cells' /\ cells'[x] = cells[x]
            BY <1>2, <2>2, <3>1, SealKeeps, SMTT(30)
        <3>3. Holds(cells', levels[k].off + SizeField, Limit(levels, l, h, k), F[k])
            BY <1>2, <1>3, <3>2, ViewKept, ZenonT(30)
        <3>4. Limit(levels, l, h, k) = l' - 1
            BY <1>2, <2>2, <3>2, SMTT(30) DEF Limit, Top
        <3> QED
            BY <3>2, <3>3, <3>4 DEF Finished, Top
    <2>3. CASE Top.done
        <3>1. UNCHANGED <<l, cells>>
            BY <1>1, <2>3, SMTT(30) DEF DestroySub
        <3>2. cells[Top.off].w = l - Top.off /\ Limit(levels, l, h, k) = l - 1
            BY <1>2, <1>3, <2>3, SMTT(30) DEF View, Limit, Top
        <3>3. Top.off \in DOMAIN cells
            BY <1>2, TopProps
        <3> QED
            BY <1>2, <2>1, <3>1, <3>2, <3>3, SMTT(30) DEF Finished
    <2> QED
        BY <2>2, <2>3, SMTT(30)
<1> QED
    BY <1>1, <1>2, <1>3, <1>4, PopRefines

\* obj() returns the root document.
LEMMA ObjRefines ==
    ASSUME IInv, IInv', Readable, Obj, phase' = "built"
    PROVE  Readable' /\ Doc!Finish
<1>1. /\ BufType /\ BufInv /\ Headers(cells) /\ l \in Nat /\ Len(levels) = 1 /\ Len(levels) > 0
      /\ Top.off = RefCount
    BY SMTT(30) DEF IInv, TypeOK, BufType, Readable, Obj, BufInv, Frames, Top
<1>2. phase = "build" /\ ~Top.done /\ Fits(l + 1) /\ Seal
    BY DEF Obj
<1>3. /\ Headers(cells') /\ l' = l + 1
      /\ Top.off \in DOMAIN cells' /\ cells'[Top.off].w = l' - Top.off
      /\ \A x \in DOMAIN cells : x # Top.off => x \in DOMAIN cells' /\ cells'[x] = cells[x]
    BY <1>1, <1>2, SealKeeps, SMTT(30)
<1>4. PICK h, F : View(cells, levels, l, h, F)
    BY <1>2, SMTT(30) DEF Readable
<1>5. Holds(cells', RefCount + SizeField, l, F[1])
    <2>1. 1 \in 1..Len(levels)
        BY <1>1
    <2>2. Limit(levels, l, h, 1) = l
        BY <1>1, <1>2, SMTT(30) DEF Limit, Top
    <2>3. Holds(cells', levels[1].off + SizeField, Limit(levels, l, h, 1), F[1])
        BY <1>1, <1>3, <1>4, <2>1, ViewKept, Zenon
    <2> QED
        BY <1>1, <2>2, <2>3 DEF Top
<1>6. RefCount + cells'[RefCount].w = l' /\ l' \in Nat /\ l' - 1 = l
    BY <1>1, <1>3, SMTT(30) DEF RefCount
<1>7. Iterator(cells', l')[l'][RefCount + SizeField][l] = F[1]
    <2>1. l <= l'
        BY <1>1, <1>3, SMTT(30)
    <2> QED
        BY <1>5, <1>6, <2>1, HoldsRead, SMTT(30)
<1>8. Readable'
    <2>1. Holds(cells', RefCount + SizeField, (RefCount + cells'[RefCount].w) - 1, F[1])
        BY <1>5, <1>6
    <2>2. RefCount + cells'[RefCount].w <= l'
        BY <1>6
    <2> QED
        BY <2>1, <2>2 DEF Readable, End
<1>9. AbstractResult' = <<"finished", F[1]>>
    BY <1>6, <1>7 DEF AbstractResult, Fields, End
<1>10. AbstractOpen' = <<>>
    BY DEF AbstractOpen
<1>11. AbstractOpen = Opened(1, Titles(cells, levels, h), F)
    BY <1>1, <1>2, <1>4, OpenIs, SMTT(30) DEF OpenFact
<1>12. Len(AbstractOpen) = 1 /\ AbstractOpen[1].fields = F[1]
    <2> DEFINE N == Titles(cells, levels, h)
    <2> HIDE DEF N
    <2>1. IsStack(Opened(1, N, F), 1, N, F)
        BY OpenedProps
    <2>2. Len(Opened(1, N, F)) = 1 /\ Opened(1, N, F)[1] = DocAt(N, F, 1)
        BY <2>1 DEF IsStack
    <2>3. DocAt(N, F, 1).fields = F[1]
        BY DEF DocAt
    <2> QED
        BY <1>11, <2>2, <2>3 DEF N
<1> QED
    BY <1>8, <1>9, <1>10, <1>12, SMTT(30) DEF Doc!Finish

\* An exception that leaves the builders is a failure, whatever was written.
LEMMA ThrowRefines ==
    ASSUME IInv, Readable, phase = "build", phase' \in {"unwind", "terminated"}
    PROVE  Readable' /\ Doc!Fail
<1>1. BufType /\ BufInv /\ Headers(cells) /\ Len(levels) \in Nat /\ Len(levels) > 0
    BY DEF IInv, TypeOK, BufType, Readable, Owner
<1>2. PICK h, F : View(cells, levels, l, h, F)
    BY DEF Readable
<1>3. AbstractOpen = Opened(Len(levels), Titles(cells, levels, h), F)
    BY <1>1, <1>2, OpenIs DEF OpenFact
<1>4. AbstractOpen # <<>>
    BY <1>1, <1>3, OpenedNonempty
<1>5. AbstractOpen' = <<>> /\ AbstractResult' = <<"failed">>
    BY DEF AbstractOpen, AbstractResult
<1>6. Readable'
    BY DEF Readable
<1> QED
    BY <1>4, <1>5, <1>6, SMTT(30) DEF Doc!Fail, Doc!Failed

\* A reader sees nothing of what happens after the builders are done.
LEMMA AfterRefines ==
    ASSUME IInv, Readable, phase # "build", [Next]_vars
    PROVE  Readable' /\ AbstractOpen' = AbstractOpen /\ AbstractResult' = AbstractResult
<1>1. CASE phase \in {"built", "returned"}
    <2>1. UNCHANGED <<l, cells>> /\ phase' \in {"built", "returned"}
        BY <1>1, Zenon DEF Next, vars, AppendValue, SubStart, Done, CloseSub, Obj, Leave, CopyRef, DropRef,
                    ClientThrows, Unwind
    <2>2. Readable'
        BY <1>1, <2>1, Zenon DEF Readable, End
    <2>3. AbstractOpen = <<>> /\ AbstractOpen' = <<>>
        BY <1>1, <2>1 DEF AbstractOpen
    <2>4. AbstractResult' = AbstractResult
        BY <1>1, <2>1 DEF AbstractResult, Fields, End
    <2> QED
        BY <2>2, <2>3, <2>4, SMTT(30)
<1>2. CASE phase \notin {"built", "returned"}
    <2>1. phase' \in {"unwind", "failed", "terminated"}
        BY <1>2, Zenon DEF IInv, TypeOK, Phase, Owner, Next, vars, AppendValue, SubStart, Done, CloseSub, Obj,
                    Leave, CopyRef, DropRef, ClientThrows, Unwind, DestroySub
    <2>2. Readable'
        BY <2>1, SMTT(30) DEF Readable
    <2>3. AbstractOpen = <<>> /\ AbstractOpen' = <<>>
        BY <2>1 DEF AbstractOpen
    <2>4. AbstractResult = <<"failed">> /\ AbstractResult' = <<"failed">>
        BY <1>2, <2>1 DEF AbstractResult
    <2> QED
        BY <2>2, <2>3, <2>4, SMTT(30)
<1> QED
    BY <1>1, <1>2

\* A fresh builder holds nothing and can be read.
LEMMA InitRefines == Init => Readable /\ Doc!Init
<1> SUFFICES ASSUME Init PROVE Readable /\ Doc!Init
    OBVIOUS
<1>1. /\ phase = "build" /\ l = RefCount + SizeField
      /\ levels = <<[off |-> RefCount, done |-> FALSE]>>
      /\ cells = Put(<<>>, RefCount, Cell("size", 0))
    BY DEF Init
<1>2. IInv
    BY InitIInv
<1>3. BufType /\ BufInv
    BY <1>2 DEF IInv, TypeOK, BufType
<1>4. DOMAIN cells = {RefCount} /\ cells[RefCount].k = "size"
    BY <1>1 DEF Put, Cell
<1>5. Headers(cells)
    BY <1>4 DEF Headers
<1>6. Len(levels) = 1 /\ levels[1].off = RefCount /\ ~levels[1].done
    BY <1>1
<1> DEFINE h == <<0>>
           F == <<<<>>>>
<1>7. F[1] = <<>>
    OBVIOUS
<1> HIDE DEF h, F
<1>8. Holds(cells, RefCount + SizeField, l, <<>>)
    <2>1. RefCount + SizeField \in Nat
        BY SMTT(30) DEF RefCount, SizeField
    <2> QED
        BY <1>1, <2>1, HoldsEmpty
<1>9. View(cells, levels, l, h, F)
    <2>1. \A i \in 1..Len(levels) : i = 1
        BY <1>6
    <2>2. Limit(levels, l, h, 1) = l
        BY <1>6 DEF Limit
    <2> QED
        BY <1>6, <1>7, <1>8, <2>1, <2>2, SMTT(30) DEF View
<1>10. Readable
    BY <1>1, <1>5, <1>9, SMTT(30) DEF Readable
<1> DEFINE N == Titles(cells, levels, h)
<1>11. N[1] = 0
    BY <1>6, SMTT(30) DEF Titles
<1>12. AbstractOpen = Opened(1, N, F)
    BY <1>1, <1>3, <1>5, <1>6, <1>9, OpenIs, Zenon DEF OpenFact
<1> HIDE DEF N
<1>13. Opened(1, N, F) = <<[name |-> 0, fields |-> <<>>]>>
    <2>1. DocAt(N, F, 1) = [name |-> 0, fields |-> <<>>]
        BY <1>7, <1>11 DEF DocAt
    <2> DEFINE r == [name |-> 0, fields |-> <<>>]
    <2>2. IsStack(Opened(1, N, F), 1, N, F)
        BY OpenedProps
    <2> HIDE DEF r
    <2>3. PICK S : Opened(1, N, F) \in Seq(S)
        BY <2>2, SMTT(30) DEF IsStack
    <2>4. Len(Opened(1, N, F)) = 1 /\ Opened(1, N, F)[1] = r
        BY <2>1, <2>2 DEF IsStack, r
    <2>5. Opened(1, N, F) = <<r>>
        BY <2>3, <2>4
    <2> QED
        BY <2>5 DEF r
<1>14. AbstractResult = <<"pending">>
    BY <1>1 DEF AbstractResult
<1> QED
    BY <1>10, <1>12, <1>13, <1>14 DEF Doc!Init, Doc!Pending

\* Every step of the builders is a step of the documents, or changes nothing
\* that a reader sees.
LEMMA NextRefines ==
    IInv /\ IInv' /\ Readable /\ [Next]_vars
        => Readable' /\ [Doc!Next]_<<AbstractOpen, AbstractResult>>
<1> SUFFICES ASSUME IInv, IInv', Readable, [Next]_vars
             PROVE  Readable' /\ [Doc!Next]_<<AbstractOpen, AbstractResult>>
    OBVIOUS
<1>1. CASE phase # "build"
    BY <1>1, AfterRefines
<1>2. CASE phase = "build" /\ phase' \in {"unwind", "terminated"}
    BY <1>2, ThrowRefines DEF Doc!Next
<1>3. CASE phase = "build" /\ phase' \notin {"unwind", "terminated"}
    <2>1. ASSUME NEW n \in NameSizes, NEW v \in ValueSizes, AppendValue(n, v)
          PROVE  Readable' /\ [Doc!Next]_<<AbstractOpen, AbstractResult>>
        <3>1. phase' = "build"
            BY <1>3, <2>1 DEF AppendValue, ThrowsIn
        <3>2. Readable' /\ Doc!Add(1 + n + v[1] + v[2])
            BY <2>1, <3>1, AppendRefines
        <3> QED
            BY <3>2, SMTT(30) DEF Doc!Next
    <2>2. ASSUME NEW n \in NameSizes, SubStart(n)
          PROVE  Readable' /\ [Doc!Next]_<<AbstractOpen, AbstractResult>>
        <3>1. phase' = "build"
            BY <1>3, <2>2 DEF SubStart, ThrowsIn
        <3>2. Readable' /\ Doc!Begin(1 + n)
            BY <2>2, <3>1, SubStartRefines
        <3> QED
            BY <3>2, SMTT(30) DEF Doc!Next
    <2>3. CASE Done
        <3>1. phase' = "build"
            BY <1>3, <2>3 DEF Done
        <3> QED
            BY <2>3, <3>1, DoneRefines
    <2>4. CASE CloseSub
        <3>1. phase' = "build"
            BY <1>3, <2>4 DEF CloseSub, DestroySub
        <3> QED
            BY <2>4, <3>1, CloseRefines DEF Doc!Next
    <2>5. CASE Obj
        <3>1. phase' = "built"
            BY <1>3, <2>5, SMTT(30) DEF Obj
        <3> QED
            BY <2>5, <3>1, ObjRefines, SMTT(30) DEF Doc!Next
    <2>6. ~Leave /\ ~CopyRef /\ ~DropRef /\ ~ClientThrows /\ ~Unwind
        BY <1>3 DEF Leave, CopyRef, DropRef, ClientThrows, Unwind, IInv, Owner
    <2>7. CASE UNCHANGED vars
        <3>1. UNCHANGED <<l, cells, levels, phase>>
            BY <2>7, SMTT(30) DEF vars
        <3>2. Readable'
            BY <3>1, SMTT(30) DEF Readable, End
        <3>3. AbstractOpen' = AbstractOpen
            BY <3>1 DEF AbstractOpen, Contents, Header, Fields
        <3>4. AbstractResult' = AbstractResult
            BY <3>1 DEF AbstractResult, Fields, End
        <3> QED
            BY <3>2, <3>3, <3>4
    <2> QED
        BY <2>1, <2>2, <2>3, <2>4, <2>5, <2>6, <2>7, SMTT(30) DEF Next
<1> QED
    BY <1>1, <1>2, <1>3

\* The builders implement the document builder without a buffer: whatever is
\* appended, nested, reallocated and closed, by done() or by a destructor, each
\* builder in scope reads back as the fields appended to it, and what obj()
\* returns reads back, through BSONObjIterator and BSONElement::size(), as the
\* tree that was written.
THEOREM BuildersImplementDocument == Spec => ImplementsDocument
<1>1. Init => Readable /\ Doc!Init
    BY InitRefines
<1>2. IInv /\ IInv' /\ Readable /\ [Next]_vars
          => Readable' /\ [Doc!Next]_<<AbstractOpen, AbstractResult>>
    BY NextRefines
<1>3. Spec => []IInv
    BY BuilderInvariant
<1> QED
    BY <1>1, <1>2, <1>3, PTL DEF Spec, ImplementsDocument, Doc!Spec
=============================================================================
