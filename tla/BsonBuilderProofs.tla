------------------------- MODULE BsonBuilderProofs -------------------------
(* Proofs about BsonBuilder, BsonReader and GrowLoop, for every buffer      *)
(* limit, document limit and every choice of name and value widths.         *)
EXTENDS BsonReader, GrowLoop, DataInduction, TLAPS

-----------------------------------------------------------------------------
(* The inductive invariant *)

\* The buffer holds what was written, within its capacity.
Capacity ==
    /\ l <= size /\ size <= BufferMaxSize
    /\ \A x \in DOMAIN cells : x < l

\* Builders in scope: the root starts behind the reference count, offsets
\* grow inwards, and the size field of a builder that is not done is open.
Frames ==
    /\ Len(levels) > 0 => levels[1].off = RefCount
    /\ \A i \in 1..Len(levels) :
          /\ levels[i].off \in DOMAIN cells
          /\ cells[levels[i].off].k = "size"
          /\ ~levels[i].done => cells[levels[i].off].w = 0
    /\ \A i, j \in 1..Len(levels) : i < j => levels[i].off < levels[j].off

\* No closed document reaches over the start of a builder in scope.
Separate ==
    \A o \in Closed, i \in 1..Len(levels) :
        o < levels[i].off => End(o) <= levels[i].off

\* The types and the facts about the buffer and the builders on it, which hold
\* whatever the thread is doing.
BufType ==
    /\ l \in Nat /\ size \in Nat
    /\ DOMAIN cells \subseteq Nat
    /\ cells \in [DOMAIN cells -> CellSet]
    /\ levels \in Seq(Level)

BufInv == Capacity /\ Frames /\ Separate /\ SizeFieldsExact

\* Until something throws there is no torn element, and only builders in
\* scope have an open size field.
Clean ==
    phase \in {"build", "built"} =>
        \A o \in DOMAIN cells :
            /\ cells[o].k # "torn"
            /\ cells[o].k = "size" /\ cells[o].w = 0
                 => \E i \in 1..Len(levels) : levels[i].off = o /\ ~levels[i].done

\* Who owns the buffer in which phase.
Owner ==
    /\ data => refs = 0 /\ frees = 0
    /\ ~data => IF refs > 0 \/ oom THEN frees = 0 ELSE frees = 1
    /\ oom => ~data /\ refs = 0
    /\ phase = "build" => data
    /\ phase \in {"built", "returned", "failed"} => ~data
    /\ refs > 0 => phase \in {"built", "returned"}
    /\ phase \in {"build", "built", "unwind"} => Len(levels) > 0

IInv == TypeOK /\ BufInv /\ Clean /\ Owner /\ FinishedIsWhole

-----------------------------------------------------------------------------
(* Lemmas about the buffer *)

\* grow() that does not throw leaves a capacity that holds the new length and
\* respects BufferMaxSize, whatever the doubling loop had to skip.
LEMMA GrownProps ==
    ASSUME BufType, size <= BufferMaxSize, NEW n \in Nat, Fits(n)
    PROVE  /\ Grown(n) \in Nat
           /\ n <= Grown(n)
           /\ size <= Grown(n)
           /\ Grown(n) <= BufferMaxSize
<1>1. CASE n <= size
    BY <1>1 DEF Grown, BufType
<1>2. CASE ~(n <= size)
    <2> DEFINE T == {a \in Doubled : n <= a}
    <2>1. Doubled \subseteq Nat /\ BufferMaxSize \in Nat
        BY BuilderAssumption
    <2>2. PICK c \in Doubled : n <= c /\ c <= BufferMaxSize
        BY <1>2 DEF Fits
    <2>3. \E a \in T : \A b \in T : a <= b
        <3>1. T \subseteq Nat /\ T # {}
            BY <2>1, <2>2, Zenon
        <3> QED BY <3>1, LeastNatural, Zenon
    <2>4. \E a \in Doubled : n <= a /\ \A b \in Doubled : n <= b => a <= b
        BY <2>3
    <2>5. /\ Grown(n) \in Doubled /\ n <= Grown(n)
          /\ \A b \in Doubled : n <= b => Grown(n) <= b
        BY <1>2, <2>4 DEF Grown
    <2>6. Grown(n) <= c
        BY <2>2, <2>5
    <2> HIDE DEF T
    <2> QED BY <1>2, <2>1, <2>2, <2>5, <2>6 DEF BufType
<1> QED BY <1>1, <1>2

\* Room that is there for a longer text is there for a shorter one, before
\* and after growing.
LEMMA FitsMonotone ==
    ASSUME BufType, NEW n \in Nat, NEW m \in Nat, m <= n, Fits(n)
    PROVE  Fits(m)
<1>1. Doubled \subseteq Nat
    BY BuilderAssumption
<1> QED BY <1>1 DEF Fits, BufType

\* The builders that remain when the innermost one is destroyed.
LEMMA PopProps ==
    ASSUME BufType, Len(levels) > 0, Pop
    PROVE  /\ levels' \in Seq(Level)
           /\ Len(levels') = Len(levels) - 1
           /\ \A i \in 1..Len(levels') : levels'[i] = levels[i]
<1> DEFINE n == Len(levels)
<1>1. levels \in Seq(Level) /\ n \in Nat /\ n > 0 /\ levels' = SubSeq(levels, 1, n - 1)
    BY DEF BufType, Pop
<1>2. n - 1 \in 0..n
    BY <1>1
<1>3. /\ levels' \in Seq(Level) /\ Len(levels') = n - 1
      /\ \A i \in 1..(n - 1) : levels'[i] = levels[i]
    BY <1>1, <1>2, FrontOfSeq, Zenon
<1> QED BY <1>3

\* The builders in scope after _doneCalled was set.
LEMMA SetDoneProps ==
    ASSUME BufType, Len(levels) > 0, SetDone
    PROVE  /\ levels' \in Seq(Level)
           /\ Len(levels') = Len(levels)
           /\ levels'[Len(levels)].off = Top.off
           /\ levels'[Len(levels)].done = TRUE
           /\ \A i \in 1..(Len(levels) - 1) : levels'[i] = levels[i]
<1> DEFINE e == [off |-> Top.off, done |-> TRUE]
<1>1. levels \in Seq(Level) /\ Len(levels) \in 1..Len(levels)
    BY DEF BufType
<1>2. Top \in Level
    BY <1>1 DEF Top
<1>3. e \in Level
    BY <1>2 DEF Level
<1> HIDE DEF e
<1>4. levels' = [levels EXCEPT ![Len(levels)] = e]
    BY DEF SetDone, e
<1>5. /\ levels' \in Seq(Level)
      /\ Len(levels') = Len(levels)
      /\ \A j \in 1..Len(levels) :
            levels'[j] = IF j = Len(levels) THEN e ELSE levels[j]
    BY <1>1, <1>3, <1>4
<1> QED BY <1>1, <1>5 DEF e

\* The builders left when the innermost one is marked done or leaves scope.
LEMMA BuilderChange ==
    ASSUME BufType, Len(levels) > 0, SetDone \/ Pop
    PROVE  /\ Len(levels) \in Nat
           /\ levels' \in Seq(Level) /\ Len(levels') \in Nat
           /\ Len(levels') <= Len(levels)
           /\ \A i \in 1..Len(levels') : levels'[i].off = levels[i].off
           /\ \A i \in 1..Len(levels') : i # Len(levels) => levels'[i] = levels[i]
           /\ Len(levels') = Len(levels) => levels'[Len(levels)].done
<1>1. Len(levels) \in Nat
    BY DEF BufType
<1>2. CASE SetDone
    <2>1. /\ levels' \in Seq(Level)
          /\ Len(levels') = Len(levels)
          /\ levels'[Len(levels)].off = levels[Len(levels)].off
          /\ levels'[Len(levels)].done = TRUE
          /\ \A i \in 1..(Len(levels) - 1) : levels'[i] = levels[i]
        BY <1>2, SetDoneProps, Zenon DEF Top
    <2>2. \A i \in 1..Len(levels) : i = Len(levels) \/ i \in 1..(Len(levels) - 1)
        BY <1>1
    <2> QED BY <1>1, <2>1, <2>2
<1>3. CASE Pop
    <2>1. /\ levels' \in Seq(Level)
          /\ Len(levels') = Len(levels) - 1
          /\ \A i \in 1..Len(levels') : levels'[i] = levels[i]
        BY <1>3, PopProps
    <2> QED BY <1>1, <2>1
<1> QED BY <1>2, <1>3

-----------------------------------------------------------------------------
(* What the writes do to the buffer invariant *)

\* A closed document lies below l and its size field is typed.
LEMMA ClosedProps ==
    ASSUME BufType, BufInv
    PROVE  \A o \in Closed : /\ o \in Nat /\ End(o) \in Nat
                            /\ o < End(o) /\ End(o) <= l
BY DEF BufType, BufInv, SizeFieldsExact, Closed, End, CellSet

\* Appending an element, or the torn part of one, at l.
LEMMA WriteStep ==
    ASSUME BufType, BufInv,
           NEW n \in Nat, n > l, Fits(n), GrowTo(n),
           NEW c \in CellSet, c.k # "size",
           cells' = Put(cells, l, c), levels' = levels
    PROVE  BufType' /\ BufInv'
<1>1. l' = n /\ size' \in Nat /\ n <= size' /\ size' <= BufferMaxSize
    BY GrownProps DEF GrowTo, BufInv, Capacity
<1>2. /\ l \notin DOMAIN cells
      /\ DOMAIN cells' = DOMAIN cells \cup {l}
      /\ cells'[l] = c
      /\ \A x \in DOMAIN cells : cells'[x] = cells[x]
      /\ cells' = [x \in DOMAIN cells' |-> cells'[x]]
    BY DEF Put, BufType, BufInv, Capacity
<1>3. BufType'
    BY <1>1, <1>2 DEF BufType
<1>4. Closed' = Closed /\ \A o \in Closed : End(o)' = End(o)
    BY <1>2 DEF Closed, End
<1>5. Capacity'
    BY <1>1, <1>2 DEF BufType, BufInv, Capacity
<1>6. Frames'
    BY <1>2 DEF BufInv, Frames
<1>7. Separate'
    BY <1>4 DEF BufInv, Separate
<1>8. SizeFieldsExact'
    BY SMTT(30), <1>1, <1>2, <1>4, ClosedProps DEF BufType, BufInv, SizeFieldsExact
<1> QED BY <1>3, <1>5, <1>6, <1>7, <1>8 DEF BufInv

\* A new sub-builder: its header at l and its open size field behind it.
LEMMA SubStep ==
    ASSUME BufType, BufInv, Len(levels) > 0,
           NEW n \in Nat \ {0}, Fits(l + 1 + n + SizeField), GrowTo(l + 1 + n + SizeField),
           cells' = Put(Put(cells, l, Cell("sub", 1 + n)), l + 1 + n, Cell("size", 0)),
           levels' = Append(levels, [off |-> l + 1 + n, done |-> FALSE])
    PROVE  BufType' /\ BufInv'
<1> DEFINE o == l + 1 + n
           lev == [off |-> o, done |-> FALSE]
<1>1. o \in Nat /\ l < o /\ o + SizeField \in Nat /\ o < o + SizeField
    BY DEF BufType, SizeField
<1>2. l' = o + SizeField /\ size' \in Nat /\ l' <= size' /\ size' <= BufferMaxSize
    BY <1>1, GrownProps DEF GrowTo, BufInv, Capacity
<1>3. /\ l \notin DOMAIN cells /\ o \notin DOMAIN cells
      /\ \A x \in DOMAIN cells : x < o
    BY <1>1 DEF BufType, BufInv, Capacity
<1>4. /\ DOMAIN cells' = DOMAIN cells \cup {l, o}
      /\ cells'[l] = Cell("sub", 1 + n)
      /\ cells'[o] = Cell("size", 0)
      /\ \A x \in DOMAIN cells : cells'[x] = cells[x]
      /\ cells' = [x \in DOMAIN cells' |-> cells'[x]]
    BY <1>1, <1>3 DEF Put, BufType
<1>5. Cell("sub", 1 + n) \in CellSet /\ Cell("size", 0) \in CellSet
    BY DEF Cell, CellSet
<1>6. lev \in Level /\ levels \in Seq(Level)
    BY <1>1 DEF Level, BufType
<1>7. /\ levels' \in Seq(Level)
      /\ Len(levels') = Len(levels) + 1
      /\ levels'[Len(levels) + 1] = lev
      /\ \A i \in 1..Len(levels) : levels'[i] = levels[i]
    <2> HIDE DEF lev
    <2>1. levels' = Append(levels, lev)
        BY DEF lev
    <2> QED BY <1>6, <2>1
<1>8. lev.off = o /\ lev.done = FALSE
    OBVIOUS
<1> HIDE DEF o, lev
<1>9. BufType'
    BY <1>1, <1>2, <1>4, <1>5, <1>7, Zenon DEF BufType
<1>10. Closed' = Closed /\ \A p \in Closed : End(p)' = End(p)
    BY SMTT(30), <1>1, <1>3, <1>4 DEF Closed, End, Cell
<1>11. Capacity'
    <2>1. \A x \in DOMAIN cells : x \in Nat /\ x < l'
        BY <1>1, <1>2, <1>3 DEF BufType
    <2>2. l < l' /\ o < l'
        BY <1>1, <1>2 DEF BufType
    <2> QED BY <1>2, <1>4, <2>1, <2>2 DEF Capacity
<1>12. Len(levels) \in Nat
    BY <1>6
<1>13. \A i \in 1..Len(levels) : levels[i].off \in DOMAIN cells /\ levels[i].off < o
    BY <1>3 DEF BufInv, Frames
<1>14. Frames'
    <2>1. levels'[1].off = RefCount
        BY <1>7, <1>12 DEF BufInv, Frames
    <2>2. ASSUME NEW i \in 1..Len(levels')
          PROVE  /\ levels'[i].off \in DOMAIN cells'
                 /\ cells'[levels'[i].off].k = "size"
                 /\ ~levels'[i].done => cells'[levels'[i].off].w = 0
        <3>1. CASE i = Len(levels) + 1
            BY <3>1, <1>4, <1>7, <1>8 DEF Cell
        <3>2. CASE i \in 1..Len(levels)
            BY <3>2, <1>4, <1>7, <1>13 DEF BufInv, Frames
        <3> QED BY SMTT(30), <3>1, <3>2, <1>7, <1>12
    <2>3. ASSUME NEW i \in 1..Len(levels'), NEW j \in 1..Len(levels'), i < j
          PROVE  levels'[i].off < levels'[j].off
        <3>1. CASE j = Len(levels) + 1
            BY <2>3, <3>1, <1>7, <1>8, <1>12, <1>13
        <3>2. CASE j \in 1..Len(levels)
            BY <2>3, <3>2, <1>7, <1>12 DEF BufInv, Frames
        <3> QED BY <3>1, <3>2, <1>7, <1>12
    <2> QED BY <2>1, <2>2, <2>3 DEF Frames
<1>15. Separate'
    <2>1. ASSUME NEW p \in Closed, NEW i \in 1..Len(levels'), p < levels'[i].off
          PROVE  End(p) <= levels'[i].off
        <3>1. CASE i = Len(levels) + 1
            BY SMTT(30), <3>1, <1>1, <1>7, <1>8, ClosedProps DEF BufType
        <3>2. CASE i \in 1..Len(levels)
            BY <2>1, <3>2, <1>7 DEF BufInv, Separate
        <3> QED BY <3>1, <3>2, <1>7, <1>12
    <2> QED BY <2>1, <1>10 DEF Separate
<1>16. SizeFieldsExact'
    BY SMTT(30), <1>1, <1>2, <1>4, <1>10, ClosedProps DEF BufType, BufInv, SizeFieldsExact
<1> QED BY <1>9, <1>11, <1>14, <1>15, <1>16 DEF BufInv

\* Facts about the innermost builder.
LEMMA TopProps ==
    ASSUME BufType, BufInv, Len(levels) > 0
    PROVE  /\ Len(levels) \in Nat /\ Len(levels) \in 1..Len(levels)
           /\ Top \in Level /\ Top.off \in Nat
           /\ Top.off \in DOMAIN cells /\ Top.off < l
           /\ cells[Top.off].k = "size"
           /\ ~Top.done => cells[Top.off].w = 0
           /\ \A i \in 1..Len(levels) : i # Len(levels) => levels[i].off < Top.off
<1>1. levels \in Seq(Level)
    BY DEF BufType
<1>2. Len(levels) \in Nat /\ Len(levels) \in 1..Len(levels)
    BY <1>1
<1>3. Top \in Level
    BY <1>1, <1>2 DEF Top
<1>4. Top.off \in Nat
    BY <1>3 DEF Level
<1>5. /\ Top.off \in DOMAIN cells /\ cells[Top.off].k = "size"
      /\ ~Top.done => cells[Top.off].w = 0
    BY <1>2 DEF BufInv, Frames, Top
<1>6. \A i \in 1..Len(levels) : i # Len(levels) => levels[i].off < Top.off
    BY <1>2 DEF BufInv, Frames, Top
<1> QED BY <1>2, <1>3, <1>4, <1>5, <1>6 DEF BufInv, Capacity

\* What _done() writes: the terminator at l, and the size field of the
\* innermost builder, which becomes the one new closed document.
LEMMA SealProps ==
    ASSUME BufType, BufInv, Len(levels) > 0, ~Top.done, Fits(l + 1), Seal
    PROVE  /\ l' = l + 1 /\ size' \in Nat /\ l' <= size' /\ size' <= BufferMaxSize
           /\ DOMAIN cells' = DOMAIN cells \cup {l}
           /\ l \notin DOMAIN cells
           /\ cells'[l] = Cell("eoo", 1)
           /\ cells'[Top.off] = Cell("size", l + 1 - Top.off)
           /\ \A x \in DOMAIN cells : x # Top.off => cells'[x] = cells[x]
           /\ cells' \in [DOMAIN cells' -> CellSet]
           /\ Top.off \notin Closed
           /\ Closed' = Closed \cup {Top.off}
           /\ \A o \in Closed : End(o)' = End(o)
           /\ Top.off + cells'[Top.off].w = l + 1
<1> DEFINE t == Top.off
           d == l + 1 - t
<1>1. /\ t \in Nat /\ t \in DOMAIN cells /\ t < l
      /\ cells[t].k = "size" /\ cells[t].w = 0
    BY TopProps
<1>2. d \in Nat /\ d > 0 /\ t + d = l + 1 /\ l + 1 \in Nat
    BY <1>1 DEF BufType
<1>3. l' = l + 1 /\ size' \in Nat /\ l' <= size' /\ size' <= BufferMaxSize
    BY <1>2, GrownProps DEF Seal, GrowTo, BufInv, Capacity
<1>4. l \notin DOMAIN cells
    BY DEF BufType, BufInv, Capacity
<1>5. Cell("eoo", 1) \in CellSet /\ Cell("size", d) \in CellSet
    BY <1>2 DEF Cell, CellSet
<1> HIDE DEF t, d
<1>6. cells' = Put(Put(cells, l, Cell("eoo", 1)), t, Cell("size", d))
    BY DEF Seal, t, d
<1>7. /\ DOMAIN cells' = DOMAIN cells \cup {l}
      /\ cells'[l] = Cell("eoo", 1)
      /\ cells'[t] = Cell("size", d)
      /\ \A x \in DOMAIN cells : x # t => cells'[x] = cells[x]
      /\ cells' = [x \in DOMAIN cells' |-> cells'[x]]
    BY <1>1, <1>4, <1>6 DEF Put
<1>8. cells' \in [DOMAIN cells' -> CellSet]
    BY <1>5, <1>7 DEF BufType
<1>9. t \notin Closed
    BY <1>1 DEF Closed
<1>10. /\ Cell("eoo", 1).k = "eoo" /\ Cell("size", d).k = "size" /\ Cell("size", d).w = d
    BY DEF Cell
<1>11. Closed' = Closed \cup {t}
    BY <1>1, <1>2, <1>4, <1>7, <1>10 DEF Closed
<1>12. \A o \in Closed : End(o)' = End(o)
    BY <1>7, <1>9 DEF Closed, End
<1>13. t + cells'[t].w = l + 1
    BY <1>2, <1>7, <1>10
<1> QED BY <1>3, <1>4, <1>7, <1>8, <1>9, <1>11, <1>12, <1>13 DEF t, d

\* _done() with any of the two things that happen to the builder: it is marked
\* done, or it leaves scope.
LEMMA SealStep ==
    ASSUME BufType, BufInv, Len(levels) > 0, ~Top.done, Fits(l + 1), Seal,
           SetDone \/ Pop
    PROVE  BufType' /\ BufInv'
<1>1. /\ l' = l + 1 /\ size' \in Nat /\ l' <= size' /\ size' <= BufferMaxSize
      /\ DOMAIN cells' = DOMAIN cells \cup {l}
      /\ l \notin DOMAIN cells
      /\ cells'[l] = Cell("eoo", 1)
      /\ cells'[Top.off] = Cell("size", l + 1 - Top.off)
      /\ \A x \in DOMAIN cells : x # Top.off => cells'[x] = cells[x]
      /\ cells' \in [DOMAIN cells' -> CellSet]
      /\ Top.off \notin Closed
      /\ Closed' = Closed \cup {Top.off}
      /\ \A o \in Closed : End(o)' = End(o)
      /\ Top.off + cells'[Top.off].w = l + 1
    BY SealProps
<1>2. /\ Len(levels) \in Nat /\ Len(levels) \in 1..Len(levels)
      /\ Top.off \in Nat
      /\ Top.off \in DOMAIN cells /\ Top.off < l
      /\ \A i \in 1..Len(levels) : i # Len(levels) => levels[i].off < Top.off
    BY TopProps
<1>3. /\ levels' \in Seq(Level) /\ Len(levels') \in Nat /\ Len(levels') <= Len(levels)
      /\ \A i \in 1..Len(levels') : levels'[i].off = levels[i].off
      /\ \A i \in 1..Len(levels') : i # Len(levels) => levels'[i] = levels[i]
      /\ Len(levels') = Len(levels) => levels'[Len(levels)].done
    BY BuilderChange
<1>4. BufType'
    BY <1>1, <1>3 DEF BufType
<1>5. Capacity'
    BY <1>1 DEF BufType, BufInv, Capacity
<1>6. Frames'
    <2>1. ASSUME NEW i \in 1..Len(levels')
          PROVE  /\ levels'[i].off \in DOMAIN cells'
                 /\ cells'[levels'[i].off].k = "size"
                 /\ ~levels'[i].done => cells'[levels'[i].off].w = 0
        <3>1. CASE i = Len(levels)
            BY <1>1, <1>2, <1>3, <3>1 DEF Top, Cell
        <3>2. CASE i # Len(levels)
            <4>1. i \in 1..Len(levels) /\ levels[i].off < Top.off /\ levels'[i] = levels[i]
                BY <1>2, <1>3, <3>2
            <4>2. levels[i].off \in DOMAIN cells /\ levels[i].off # Top.off
                BY <1>2, <4>1 DEF BufInv, Frames, BufType
            <4> QED BY <1>1, <4>1, <4>2 DEF BufInv, Frames
        <3> QED BY <3>1, <3>2
    <2> QED BY <1>2, <1>3, <2>1 DEF BufInv, Frames
<1>7. Separate'
    <2>1. ASSUME NEW o \in Closed', NEW i \in 1..Len(levels'), o < levels'[i].off
          PROVE  End(o)' <= levels'[i].off
        <3>1. i \in 1..Len(levels) /\ levels'[i].off = levels[i].off
            BY <1>2, <1>3
        <3>2. CASE o = Top.off
            <4>1. ~(Top.off < levels[i].off)
                <5>1. CASE i = Len(levels)
                    BY <1>2, <5>1 DEF Top
                <5>2. CASE i # Len(levels)
                    <6>1. levels[i].off < Top.off /\ levels[i].off \in Nat
                        BY <1>2, <3>1, <5>2 DEF BufInv, Frames, BufType
                    <6> QED BY <1>2, <6>1
                <5> QED BY <5>1, <5>2
            <4> QED BY <2>1, <3>1, <3>2, <4>1
        <3>3. CASE o \in Closed
            BY <1>1, <2>1, <3>1, <3>3 DEF BufInv, Separate
        <3> QED BY <1>1, <3>2, <3>3
    <2> QED BY <2>1 DEF Separate
<1>8. SizeFieldsExact'
    <2>1. ASSUME NEW o \in Closed'
          PROVE  /\ End(o)' <= l'
                 /\ End(o)' - 1 \in DOMAIN cells'
                 /\ cells'[End(o)' - 1].k = "eoo"
        <3>1. CASE o = Top.off
            <4>1. End(o)' = l + 1
                BY <1>1, <3>1 DEF End
            <4>2. End(o)' - 1 = l /\ Cell("eoo", 1).k = "eoo" /\ l + 1 \in Nat
                BY <4>1 DEF BufType, Cell
            <4> QED BY <1>1, <4>1, <4>2
        <3>2. CASE o \in Closed
            <4>1. /\ End(o)' = End(o) /\ End(o) \in Nat /\ End(o) <= l
                  /\ End(o) - 1 \in DOMAIN cells /\ cells[End(o) - 1].k = "eoo"
                BY <1>1, <3>2, ClosedProps DEF BufInv, SizeFieldsExact
            <4>2. End(o) - 1 # Top.off
                BY <4>1, TopProps
            <4> QED BY <1>1, <4>1, <4>2 DEF BufType
        <3> QED BY <1>1, <3>1, <3>2
    <2>2. ASSUME NEW o \in Closed', NEW p \in Closed', o < p
          PROVE  End(o)' <= p \/ End(p)' < End(o)'
        <3>1. CASE o \in Closed /\ p \in Closed
            BY <1>1, <2>2, <3>1 DEF BufInv, SizeFieldsExact
        <3>2. CASE o = Top.off /\ p \in Closed
            <4>1. End(o)' = l + 1 /\ End(p)' = End(p) /\ End(p) \in Nat /\ End(p) <= l
                BY <1>1, <3>2, ClosedProps DEF End
            <4> QED BY <4>1 DEF BufType
        <3>3. CASE o \in Closed /\ p = Top.off
            <4>1. End(o) <= levels[Len(levels)].off
                BY <1>2, <2>2, <3>3 DEF BufInv, Separate, Top
            <4> QED BY <1>1, <3>3, <4>1 DEF Top
        <3>4. CASE o = Top.off /\ p = Top.off
            BY <1>2, <2>2, <3>4
        <3> QED BY <1>1, <3>1, <3>2, <3>3, <3>4
    <2> QED BY <2>1, <2>2 DEF SizeFieldsExact
<1> QED BY <1>4, <1>5, <1>6, <1>7, <1>8 DEF BufInv

\* The builder changes and the buffer does not.
LEMMA LevelStep ==
    ASSUME BufType, BufInv, UNCHANGED <<l, size, cells>>,
           UNCHANGED levels \/ (Len(levels) > 0 /\ (SetDone \/ Pop)) \/ levels' = <<>>
    PROVE  BufType' /\ BufInv'
<1>1. /\ Len(levels) \in Nat
      /\ levels' \in Seq(Level) /\ Len(levels') \in Nat
      /\ Len(levels') <= Len(levels)
      /\ \A i \in 1..Len(levels') : levels'[i].off = levels[i].off
      /\ \A i \in 1..Len(levels') : ~levels'[i].done => ~levels[i].done
    <2>1. levels \in Seq(Level) /\ Len(levels) \in Nat
        BY DEF BufType
    <2>2. CASE UNCHANGED levels
        BY <2>1, <2>2
    <2>3. CASE Len(levels) > 0 /\ (SetDone \/ Pop)
        BY <2>3, BuilderChange
    <2>4. CASE levels' = <<>>
        BY <2>1, <2>4
    <2> QED BY <2>2, <2>3, <2>4
<1>2. BufType'
    BY <1>1 DEF BufType
<1>3. Closed' = Closed /\ \A o \in Closed : End(o)' = End(o)
    BY DEF Closed, End
<1>4. Frames'
    BY <1>1 DEF BufInv, Frames
<1>5. Separate'
    BY <1>1, <1>3 DEF BufInv, Separate
<1>6. Capacity' /\ SizeFieldsExact'
    BY <1>3 DEF BufInv, Capacity, SizeFieldsExact
<1> QED BY <1>2, <1>4, <1>5, <1>6 DEF BufInv

-----------------------------------------------------------------------------
(* The invariant is inductive *)

\* The state the root builder's constructor leaves satisfies the invariant.
LEMMA InitIInv == Init => IInv
<1> SUFFICES ASSUME Init PROVE IInv
    OBVIOUS
<1> USE DEF Init, RefCount, SizeField
<1>1. /\ DOMAIN cells = {4} /\ cells[4] = Cell("size", 0)
      /\ cells = [x \in DOMAIN cells |-> cells[x]]
    BY DEF Put
<1>2. Cell("size", 0) \in CellSet /\ Cell("size", 0).k = "size" /\ Cell("size", 0).w = 0
    BY DEF Cell, CellSet
<1>3. levels \in Seq(Level) /\ Len(levels) = 1 /\ levels[1].off = 4 /\ ~levels[1].done
    BY DEF Level
<1>4. TypeOK
    <2>1. l \in Nat /\ size \in Nat /\ refs \in Nat /\ frees \in Nat
        BY BuilderAssumption
    <2>2. DOMAIN cells \subseteq Nat /\ cells \in [DOMAIN cells -> CellSet]
        BY <1>1, <1>2
    <2>3. data \in BOOLEAN /\ oom \in BOOLEAN /\ phase \in Phase
        BY Zenon DEF Phase
    <2> QED BY <1>3, <2>1, <2>2, <2>3 DEF TypeOK
<1>5. Closed = {}
    BY <1>1, <1>2 DEF Closed
<1>6. BufInv
    BY <1>1, <1>2, <1>3, <1>5, BuilderAssumption
       DEF BufInv, Capacity, Frames, Separate, SizeFieldsExact
<1>7. Clean
    BY <1>1, <1>2, <1>3 DEF Clean
<1>8. Owner /\ FinishedIsWhole
    BY <1>3 DEF Owner, FinishedIsWhole
<1> QED BY <1>4, <1>6, <1>7, <1>8 DEF IInv

\* What a grow() that throws does to the owner of the buffer: nothing, or the
\* block is lost and nobody refers to it.
LEMMA GrowThrowsProps ==
    ASSUME TypeOK, NEW n, NEW cap, GrowThrows(n, cap)
    PROVE  /\ data' \in BOOLEAN /\ oom' \in BOOLEAN
           /\ refs' = refs /\ frees' = frees
           /\ (data' = data /\ oom' = oom) \/ (data' = FALSE /\ oom' = TRUE)
BY Zenon DEF GrowThrows, TypeOK

\* The invariant survives an exception that leaves a well-formed buffer.
LEMMA UnwindStep ==
    ASSUME IInv, BufType', BufInv', NEW n, NEW cap, GrowThrows(n, cap), data,
           phase' \in {"unwind", "terminated"}, Len(levels') > 0
    PROVE  IInv'
<1>1. TypeOK /\ Owner /\ refs = 0 /\ frees = 0 /\ ~oom
    BY DEF IInv, Owner
<1>2. /\ data' \in BOOLEAN /\ oom' \in BOOLEAN
      /\ refs' = refs /\ frees' = frees
      /\ (data' = data /\ oom' = oom) \/ (data' = FALSE /\ oom' = TRUE)
    BY <1>1, GrowThrowsProps, Zenon
<1>3. refs' \in Nat /\ frees' \in Nat /\ phase' \in Phase
    BY <1>1, <1>2 DEF Phase
<1>4. TypeOK'
    BY <1>2, <1>3 DEF TypeOK, BufType
<1>5. Clean' /\ FinishedIsWhole'
    BY <1>1, <1>2 DEF Clean, FinishedIsWhole
<1>6. Owner'
    BY <1>1, <1>2, Zenon DEF Owner
<1> QED BY <1>4, <1>5, <1>6 DEF IInv

\* An operation that throws in one of its grow() calls.
LEMMA ThrowStep ==
    ASSUME IInv, phase = "build", NEW ends \in Seq(Nat),
           \A i \in 1..Len(ends) : ends[i] > l, ThrowsIn(ends)
    PROVE  IInv'
<1>1. BufType /\ BufInv /\ TypeOK /\ data /\ Len(levels) > 0
    BY DEF IInv, TypeOK, BufType, Owner
<1>2. phase' = "unwind" /\ levels' = levels
    BY DEF ThrowsIn
<1>3. CASE GrowThrows(ends[1], size) /\ UNCHANGED <<l, size, cells>>
    <2>1. BufType' /\ BufInv'
        BY <1>1, <1>2, <1>3, LevelStep
    <2> QED BY <1>1, <1>2, <1>3, <2>1, UnwindStep
<1>4. CASE \E i \in 1..(Len(ends) - 1) :
             /\ Fits(ends[i])
             /\ GrowThrows(ends[i + 1], Grown(ends[i]))
             /\ GrowTo(ends[i])
             /\ cells' = Put(cells, l, Cell("torn", 0))
    <2>1. PICK i \in 1..(Len(ends) - 1) :
             /\ Fits(ends[i])
             /\ GrowThrows(ends[i + 1], Grown(ends[i]))
             /\ GrowTo(ends[i])
             /\ cells' = Put(cells, l, Cell("torn", 0))
        BY <1>4
    <2>2. ends[i] \in Nat /\ ends[i] > l
        OBVIOUS
    <2>3. Cell("torn", 0) \in CellSet /\ Cell("torn", 0).k # "size"
        BY DEF Cell, CellSet
    <2>4. BufType' /\ BufInv'
        BY <1>1, <1>2, <2>1, <2>2, <2>3, WriteStep
    <2> QED BY <1>1, <1>2, <2>1, <2>4, UnwindStep
<1> QED BY <1>3, <1>4 DEF ThrowsIn

\* append() on the innermost builder preserves the invariant.
LEMMA AppendStep ==
    ASSUME IInv, NEW n \in NameSizes, NEW v \in ValueSizes, AppendValue(n, v)
    PROVE  IInv'
<1> DEFINE ends == <<l + 1, l + 1 + n, l + 1 + n + v[1], l + 1 + n + v[1] + v[2]>>
<1>1. BufType /\ BufInv /\ TypeOK /\ l \in Nat
    BY DEF IInv, TypeOK, BufType
<1>2. n \in Nat /\ v[1] \in Nat /\ v[2] \in Nat
    BY BuilderAssumption
<1>3. ends \in Seq(Nat) /\ \A i \in 1..Len(ends) : ends[i] > l
    BY <1>1, <1>2
<1>4. CASE ThrowsIn(ends)
    BY <1>3, <1>4, ThrowStep, Zenon DEF AppendValue
<1>5. CASE ~ThrowsIn(ends)
    <2> DEFINE m == ends[4]
    <2>1. m \in Nat /\ m > l /\ m - l \in Nat
        BY <1>1, <1>2
    <2>2. /\ phase = "build" /\ Fits(m) /\ GrowTo(m)
          /\ cells' = Put(cells, l, Cell("elem", m - l))
          /\ UNCHANGED <<levels, data, oom, refs, frees, phase>>
        BY <1>5 DEF AppendValue, mem
    <2> HIDE DEF m
    <2>3. Cell("elem", m - l) \in CellSet /\ Cell("elem", m - l).k = "elem"
        BY <2>1 DEF Cell, CellSet
    <2>4. BufType' /\ BufInv'
        BY <1>1, <2>1, <2>2, <2>3, WriteStep
    <2>5. /\ DOMAIN cells' = DOMAIN cells \cup {l}
          /\ cells'[l].k = "elem"
          /\ \A x \in DOMAIN cells : x # l => cells'[x] = cells[x]
        BY <2>2, <2>3 DEF Put
    <2>6. l \notin DOMAIN cells
        BY <1>1, SMTT(30) DEF BufInv, Capacity, BufType
    <2>7. Clean'
        BY <2>2, <2>5, <2>6 DEF IInv, Clean
    <2>8. TypeOK'
        BY <1>1, <2>2, <2>4 DEF TypeOK, BufType
    <2>9. Owner' /\ FinishedIsWhole'
        BY <2>2 DEF IInv, Owner, FinishedIsWhole
    <2> QED BY <2>4, <2>7, <2>8, <2>9 DEF IInv
<1> QED BY <1>4, <1>5

\* Opening a sub-builder preserves the invariant.
LEMMA SubStartStep ==
    ASSUME IInv, NEW n \in NameSizes, SubStart(n)
    PROVE  IInv'
<1> DEFINE ends == <<l + 1, l + 1 + n, l + 1 + n + SizeField>>
<1>1. BufType /\ BufInv /\ TypeOK /\ l \in Nat /\ phase = "build" /\ Len(levels) > 0
    BY DEF IInv, TypeOK, BufType, SubStart, Owner
<1>2. n \in Nat \ {0} /\ l + 1 + n \in Nat /\ l + 1 + n > l
    BY <1>1, BuilderAssumption
<1>3. ends \in Seq(Nat) /\ \A i \in 1..Len(ends) : ends[i] > l
    BY <1>1, <1>2 DEF SizeField
<1>4. CASE ThrowsIn(ends)
    BY <1>1, <1>3, <1>4, ThrowStep, Zenon
<1>5. CASE ~ThrowsIn(ends)
    <2>1. /\ Fits(l + 1 + n + SizeField) /\ GrowTo(l + 1 + n + SizeField)
          /\ cells' = Put(Put(cells, l, Cell("sub", 1 + n)), l + 1 + n, Cell("size", 0))
          /\ levels' = Append(levels, [off |-> l + 1 + n, done |-> FALSE])
          /\ UNCHANGED <<data, oom, refs, frees, phase>>
        BY <1>5 DEF SubStart, mem
    <2>2. BufType' /\ BufInv'
        BY <1>1, <1>2, <2>1, SubStep, SMTT(30)
    <2>3. /\ DOMAIN cells' = DOMAIN cells \cup {l, l + 1 + n}
          /\ l # l + 1 + n
          /\ cells'[l] = Cell("sub", 1 + n)
          /\ \A x \in DOMAIN cells : x # l /\ x # l + 1 + n => cells'[x] = cells[x]
          /\ cells'[l + 1 + n] = Cell("size", 0)
        BY <1>1, <1>2, <2>1 DEF Put
    <2>4. l \notin DOMAIN cells /\ l + 1 + n \notin DOMAIN cells
        BY <1>1, <1>2 DEF BufInv, Capacity, BufType
    <2>5. Cell("sub", 1 + n).k = "sub" /\ Cell("size", 0).k = "size"
        BY DEF Cell
    <2>6. levels \in Seq(Level) /\ [off |-> l + 1 + n, done |-> FALSE] \in Level
        BY <1>1, <1>2 DEF BufType, Level
    <2>7. /\ Len(levels) \in Nat /\ Len(levels') = Len(levels) + 1
          /\ \A i \in 1..Len(levels) : levels'[i] = levels[i]
          /\ levels'[Len(levels) + 1] = [off |-> l + 1 + n, done |-> FALSE]
        BY <2>1, <2>6
    <2>8. /\ Len(levels) + 1 \in 1..Len(levels')
          /\ levels'[Len(levels) + 1].off = l + 1 + n
          /\ ~levels'[Len(levels) + 1].done
        BY <2>7
    <2>9. Clean'
        <3> SUFFICES ASSUME NEW o \in DOMAIN cells'
                     PROVE  /\ cells'[o].k # "torn"
                            /\ cells'[o].k = "size" /\ cells'[o].w = 0
                                 => \E i \in 1..Len(levels') : levels'[i].off = o /\ ~levels'[i].done
            BY DEF Clean
        <3>1. CASE o \in DOMAIN cells
            <4>1. cells'[o] = cells[o]
                BY <2>3, <2>4, <3>1
            <4>2. /\ cells[o].k # "torn"
                  /\ cells[o].k = "size" /\ cells[o].w = 0
                        => \E i \in 1..Len(levels) : levels[i].off = o /\ ~levels[i].done
                BY <1>1, <3>1 DEF IInv, Clean
            <4>3. \A i \in 1..Len(levels) : i \in 1..Len(levels') /\ levels'[i] = levels[i]
                BY <2>7
            <4> QED BY <4>1, <4>2, <4>3
        <3>2. CASE o = l
            BY <2>3, <2>5, <3>2
        <3>3. CASE o = l + 1 + n
            BY <2>3, <2>5, <2>8, <3>3
        <3> QED BY <2>3, <3>1, <3>2, <3>3
    <2>10. TypeOK'
        BY <1>1, <2>1, <2>2 DEF TypeOK, BufType
    <2>11. Owner' /\ FinishedIsWhole'
        BY <2>1, <2>7, <1>1, SMTT(30) DEF IInv, Owner, FinishedIsWhole
    <2> QED BY <2>2, <2>9, <2>10, <2>11 DEF IInv
<1> QED BY <1>4, <1>5

\* After _done() on the innermost builder no other size field is opened or
\* closed and nothing is torn.
LEMMA SealClean ==
    ASSUME IInv, phase = "build", Len(levels) > 0, ~Top.done, Fits(l + 1), Seal,
           SetDone \/ Pop
    PROVE  \A o \in DOMAIN cells' :
               /\ cells'[o].k # "torn"
               /\ cells'[o].k = "size" /\ cells'[o].w = 0
                    => \E i \in 1..Len(levels') : levels'[i].off = o /\ ~levels'[i].done
<1>1. BufType /\ BufInv
    BY DEF IInv, TypeOK, BufType
<1>2. /\ DOMAIN cells' = DOMAIN cells \cup {l}
      /\ cells'[l] = Cell("eoo", 1)
      /\ cells'[Top.off] = Cell("size", l + 1 - Top.off)
      /\ \A x \in DOMAIN cells : x # Top.off => cells'[x] = cells[x]
    BY <1>1, SealProps
<1>3. Top.off \in Nat /\ Top.off < l /\ Len(levels) \in Nat /\ l \in Nat
    BY <1>1, TopProps DEF BufType
<1>4. /\ Cell("eoo", 1).k = "eoo"
      /\ Cell("size", l + 1 - Top.off).k = "size"
      /\ Cell("size", l + 1 - Top.off).w # 0
    BY <1>3 DEF Cell
<1>5. /\ Len(levels') \in Nat /\ Len(levels') >= Len(levels) - 1
      /\ \A i \in 1..(Len(levels) - 1) : levels'[i] = levels[i]
    <2>1. CASE SetDone
        BY <1>1, <1>3, <2>1, SetDoneProps
    <2>2. CASE Pop
        BY <1>1, <1>3, <2>2, PopProps
    <2> QED BY <2>1, <2>2
<1> TAKE o \in DOMAIN cells'
<1>6. CASE o = l \/ o = Top.off
    BY <1>2, <1>4, <1>6
<1>7. CASE o \in DOMAIN cells /\ o # Top.off
    <2>1. cells'[o] = cells[o]
        BY <1>2, <1>7
    <2>2. cells[o].k # "torn"
        BY <1>7 DEF IInv, Clean
    <2>3. ASSUME cells[o].k = "size", cells[o].w = 0
          PROVE  \E i \in 1..Len(levels') : levels'[i].off = o /\ ~levels'[i].done
        <3>1. PICK i \in 1..Len(levels) : levels[i].off = o /\ ~levels[i].done
            BY <1>7, <2>3 DEF IInv, Clean
        <3>2. i # Len(levels)
            BY <1>7, <3>1 DEF Top
        <3>3. i \in 1..(Len(levels) - 1) /\ i \in 1..Len(levels')
            BY <1>3, <1>5, <3>2
        <3> QED BY <1>5, <3>1, <3>3
    <2> QED BY <2>1, <2>2, <2>3
<1> QED BY <1>2, <1>6, <1>7

\* done() on a sub-builder preserves the invariant, also when it throws.
LEMMA DoneStep ==
    ASSUME IInv, Done
    PROVE  IInv'
<1>1. /\ BufType /\ BufInv /\ TypeOK /\ phase = "build" /\ data
      /\ Len(levels) > 0 /\ Len(levels) > 1 /\ ~Top.done /\ SetDone
    BY DEF IInv, TypeOK, BufType, Done, Owner
<1>2. Len(levels') > 0
    BY <1>1, SetDoneProps
<1>3. CASE GrowThrows(l + 1, size) /\ phase' = "unwind" /\ UNCHANGED <<l, size, cells>>
    <2>1. BufType' /\ BufInv'
        BY <1>1, <1>3, LevelStep
    <2> QED BY <1>1, <1>2, <1>3, <2>1, UnwindStep
<1>4. CASE Fits(l + 1) /\ Seal /\ UNCHANGED mem /\ phase' \in {"build", "unwind"}
    <2>1. BufType' /\ BufInv' /\ Clean'
        BY <1>1, <1>4, SealStep, SealClean DEF Clean
    <2>2. TypeOK'
        BY <1>1, <1>4, <2>1 DEF TypeOK, BufType, mem, Phase
    <2>3. Owner' /\ FinishedIsWhole'
        BY <1>1, <1>2, <1>4 DEF IInv, Owner, FinishedIsWhole, mem
    <2> QED BY <2>1, <2>2, <2>3 DEF IInv
<1> QED BY <1>1, <1>3, <1>4 DEF Done

\* The destructor of a sub-builder, in normal flow and while unwinding.
LEMMA DestroyStep ==
    ASSUME IInv, phase \in {"build", "unwind"}, DestroySub
    PROVE  IInv'
<1>1. /\ BufType /\ BufInv /\ TypeOK
      /\ Len(levels) > 0 /\ Len(levels) > 1 /\ Pop
      /\ UNCHANGED <<data, oom, refs, frees, phase>>
      /\ ~data => phase = "unwind"
    BY DEF IInv, TypeOK, BufType, DestroySub, mem, Owner
<1>2. Len(levels') > 0 /\ Len(levels) \in Nat
    BY <1>1, PopProps DEF BufType
<1>3. BufType' /\ BufInv' /\ Clean'
    <2>1. CASE ~Top.done /\ Fits(l + 1) /\ Seal
        BY <1>1, <2>1, SealStep, SealClean DEF Clean
    <2>2. CASE Top.done /\ UNCHANGED <<l, size, cells>>
        <3>1. BufType' /\ BufInv'
            BY <1>1, <2>2, LevelStep
        <3>2. /\ Len(levels') = Len(levels) - 1
              /\ \A i \in 1..Len(levels') : levels'[i] = levels[i]
            BY <1>1, PopProps
        <3>3. ASSUME NEW i \in 1..Len(levels), ~levels[i].done
              PROVE  i \in 1..Len(levels') /\ levels'[i] = levels[i]
            <4>1. i # Len(levels)
                BY <2>2, <3>3 DEF Top
            <4> QED BY <1>2, <3>2, <4>1
        <3>4. Clean'
            <4> SUFFICES ASSUME phase' = "build", NEW o \in DOMAIN cells'
                         PROVE  /\ cells'[o].k # "torn"
                                /\ cells'[o].k = "size" /\ cells'[o].w = 0
                                     => \E i \in 1..Len(levels') :
                                            levels'[i].off = o /\ ~levels'[i].done
                BY <1>1 DEF Clean
            <4>1. /\ cells[o].k # "torn"
                  /\ cells[o].k = "size" /\ cells[o].w = 0
                       => \E i \in 1..Len(levels) : levels[i].off = o /\ ~levels[i].done
                BY <1>1, <2>2 DEF IInv, Clean
            <4> QED BY <2>2, <3>3, <4>1
        <3> QED BY <3>1, <3>4
    <2>3. CASE ~data /\ UNCHANGED <<l, size, cells>>
        BY <1>1, <2>3, LevelStep DEF Clean
    <2> QED BY <2>1, <2>2, <2>3 DEF DestroySub
<1>4. TypeOK'
    BY <1>1, <1>3 DEF TypeOK, BufType
<1>5. Owner' /\ FinishedIsWhole'
    BY <1>1, <1>2 DEF IInv, Owner, FinishedIsWhole
<1> QED BY <1>3, <1>4, <1>5 DEF IInv

\* The destructor of a sub-builder when _done() throws out of it.
LEMMA DestroyThrowsStep ==
    ASSUME IInv, DestroyThrows, phase' \in {"unwind", "terminated"}
    PROVE  IInv'
<1>1. BufType /\ BufInv /\ Len(levels) > 1 /\ Len(levels) > 0 /\ data /\ Pop
    BY DEF IInv, TypeOK, BufType, DestroyThrows
<1>2. BufType' /\ BufInv'
    BY <1>1, LevelStep DEF DestroyThrows
<1>3. Len(levels') > 0
    BY <1>1, PopProps DEF BufType
<1> QED BY <1>1, <1>2, <1>3, UnwindStep DEF DestroyThrows

\* obj() preserves the invariant: it returns an owned object, or throws.
LEMMA ObjStep ==
    ASSUME IInv, Obj
    PROVE  IInv'
<1>1. /\ BufType /\ BufInv /\ TypeOK /\ phase = "build"
      /\ data /\ ~oom /\ refs = 0 /\ frees = 0
      /\ Len(levels) > 0 /\ Len(levels) = 1 /\ ~Top.done /\ SetDone
    BY DEF IInv, TypeOK, BufType, Obj, Owner
<1>2. /\ Len(levels') = 1 /\ levels'[1].done
    BY <1>1, SetDoneProps, Zenon
<1>3. CASE GrowThrows(l + 1, size) /\ phase' = "unwind" /\ UNCHANGED <<l, size, cells>>
    <2>1. BufType' /\ BufInv'
        BY <1>1, <1>3, LevelStep
    <2> QED BY <1>1, <1>2, <1>3, <2>1, UnwindStep
<1>4. CASE ~(GrowThrows(l + 1, size) /\ phase' = "unwind" /\ UNCHANGED <<l, size, cells>>)
    <2>1. /\ Fits(l + 1) /\ Seal /\ data' = FALSE /\ oom' = oom
          /\ refs' = IF Valid THEN 1 ELSE 0
          /\ frees' = IF Valid THEN frees ELSE frees + 1
          /\ phase' = IF Valid THEN "built" ELSE "unwind"
        BY <1>4 DEF Obj
    <2>2. BufType' /\ BufInv'
        BY <1>1, <2>1, SealStep
    <2>3. \A o \in DOMAIN cells' :
              /\ cells'[o].k # "torn"
              /\ ~(cells'[o].k = "size" /\ cells'[o].w = 0)
        BY <1>1, <1>2, <2>1, SealClean
    <2>4. TypeOK'
        <3>1. data' \in BOOLEAN /\ oom' \in BOOLEAN
            BY <1>1, <2>1, Zenon DEF TypeOK
        <3>2. refs' \in Nat /\ frees' \in Nat /\ phase' \in Phase
            <4>1. refs' \in {0, 1} /\ phase' \in {"built", "unwind"}
                BY <2>1
            <4>2. frees' \in {0, 1}
                BY <1>1, <2>1
            <4> QED BY <4>1, <4>2 DEF Phase
        <3> QED BY <2>2, <3>1, <3>2 DEF TypeOK, BufType
    <2>5. Clean' /\ Owner'
        BY <1>1, <1>2, <2>1, <2>3 DEF Clean, Owner
    <2>6. FinishedIsWhole'
        <3> SUFFICES ASSUME Valid
                     PROVE  FinishedIsWhole'
            BY <2>1 DEF FinishedIsWhole
        <3>1. Top.off = RefCount
            BY <1>1 DEF Top, BufInv, Frames
        <3>2. /\ l' = l + 1
              /\ cells'[RefCount] = Cell("size", l + 1 - RefCount)
              /\ Closed' = Closed \cup {RefCount}
              /\ RefCount + cells'[RefCount].w = l + 1
            BY <1>1, <2>1, <3>1, SealProps
        <3>3. Cell("size", l + 1 - RefCount).w = l + 1 - RefCount
            BY DEF Cell
        <3>4. cells'[RefCount].w <= MaxInternal
            BY <3>1, <3>2, <3>3 DEF Valid
        <3>5. \A o \in DOMAIN cells' : cells'[o].k = "size" => o \in Closed'
            <4>1. ASSUME NEW o \in DOMAIN cells', cells'[o].k = "size"
                  PROVE  o \in Closed'
                <5>1. cells'[o].w \in Nat /\ cells'[o].w # 0
                    BY <2>2, <2>3, <4>1 DEF BufType, CellSet
                <5> QED BY <4>1, <5>1 DEF Closed
            <4> QED BY <4>1
        <3> QED BY <2>3, <3>2, <3>4, <3>5 DEF FinishedIsWhole, End
    <2> QED BY <2>2, <2>4, <2>5, <2>6 DEF IInv
<1> QED BY <1>3, <1>4

\* The steps that leave the buffer's contents alone: the root builder is
\* destroyed, a BSONObj is copied or dropped, the client throws.
LEMMA OwnerStep ==
    ASSUME IInv,
           \/ Leave \/ CopyRef \/ DropRef \/ ClientThrows
           \/ /\ phase = "unwind" /\ Len(levels) = 1 /\ Kill /\ levels' = <<>>
              /\ phase' = "failed" /\ UNCHANGED <<l, size, cells>>
    PROVE  IInv'
<1>1. BufType /\ BufInv /\ TypeOK
    BY DEF IInv, TypeOK, BufType
<1>2. UNCHANGED <<l, size, cells>> /\ (UNCHANGED levels \/ levels' = <<>>)
    BY DEF Leave, CopyRef, DropRef, ClientThrows
<1>3. BufType' /\ BufInv'
    BY <1>1, <1>2, LevelStep
<1>4. /\ data' \in BOOLEAN /\ oom' \in BOOLEAN /\ refs' \in Nat /\ frees' \in Nat
      /\ phase' \in Phase
    <2>1. refs \in Nat /\ frees \in Nat
        BY <1>1 DEF TypeOK
    <2>2. phase' \in Phase
        BY <1>1 DEF TypeOK, Phase, Leave, Kill, CopyRef, DropRef, ClientThrows, mem
    <2>5. data' \in BOOLEAN /\ oom' \in BOOLEAN
        BY <1>1, Zenon DEF TypeOK, Leave, Kill, CopyRef, DropRef, ClientThrows, mem
    <2>3. refs' \in {refs, refs + 1, refs - 1} /\ (refs' = refs - 1 => refs > 0)
        BY <2>1 DEF Leave, Kill, CopyRef, DropRef, ClientThrows, mem
    <2>4. frees' \in {frees, frees + 1}
        BY DEF Leave, Kill, CopyRef, DropRef, ClientThrows, mem
    <2>6. refs' \in Nat /\ frees' \in Nat
        BY <2>1, <2>3, <2>4
    <2> QED BY <2>2, <2>5, <2>6
<1>5. TypeOK'
    BY <1>3, <1>4 DEF TypeOK, BufType
<1>6. Clean'
    BY DEF IInv, Clean, Leave, CopyRef, DropRef, ClientThrows
<1>7. Owner'
    BY <1>1 DEF IInv, TypeOK, Owner, Leave, Kill, CopyRef, DropRef, ClientThrows, mem
<1>8. FinishedIsWhole'
    <2>1. refs' > 0 => refs > 0
        BY <1>1 DEF TypeOK, Leave, Kill, CopyRef, DropRef, ClientThrows, mem
    <2> QED BY <1>2, <2>1 DEF IInv, FinishedIsWhole, Closed, End
<1> QED BY <1>3, <1>5, <1>6, <1>7, <1>8 DEF IInv

\* Every step of the builders and their client preserves the invariant.
LEMMA NextIInv == IInv /\ [Next]_vars => IInv'
<1> SUFFICES ASSUME IInv, [Next]_vars PROVE IInv'
    OBVIOUS
<1>1. ASSUME NEW n \in NameSizes, NEW v \in ValueSizes, AppendValue(n, v) PROVE IInv'
    BY <1>1, AppendStep
<1>2. ASSUME NEW n \in NameSizes, SubStart(n) PROVE IInv'
    BY <1>2, SubStartStep
<1>3. CASE Done
    BY <1>3, DoneStep
<1>4. CASE CloseSub
    BY <1>4, DestroyStep, DestroyThrowsStep DEF CloseSub
<1>5. CASE Obj
    BY <1>5, ObjStep
<1>6. CASE Leave \/ CopyRef \/ DropRef \/ ClientThrows
    BY <1>6, OwnerStep
<1>7. CASE Unwind
    BY <1>7, DestroyStep, DestroyThrowsStep, OwnerStep, SMTT(30) DEF Unwind
<1>8. CASE UNCHANGED vars
    BY <1>8 DEF vars, IInv, TypeOK, BufInv, Capacity, Frames, Separate, SizeFieldsExact,
                Clean, Owner, FinishedIsWhole, Closed, End
<1> QED BY <1>1, <1>2, <1>3, <1>4, <1>5, <1>6, <1>7, <1>8 DEF Next

-----------------------------------------------------------------------------
(* Theorems *)

\* The inductive invariant holds of every behaviour of the builders.
THEOREM BuilderInvariant == Spec => []IInv
<1>1. Init => IInv
    BY InitIInv
<1>2. IInv /\ [Next]_vars => IInv'
    BY NextIInv
<1> QED BY <1>1, <1>2, PTL DEF Spec

\* grow(), _done(), obj() and the destructors keep the state of buffer and
\* builders well typed.
THEOREM BuilderTypeCorrect == Spec => []TypeOK
<1>1. IInv => TypeOK
    BY DEF IInv
<1> QED BY <1>1, BuilderInvariant, PTL

\* Every size field _done() wrote spans exactly one terminated document, and
\* documents are disjoint or nested, for every limit and every nesting.
THEOREM SizeFieldsAreExact == Spec => []SizeFieldsExact
<1>1. IInv => SizeFieldsExact
    BY DEF IInv, BufInv
<1> QED BY <1>1, BuilderInvariant, PTL

\* A BSONObj that obj() returned is whole and has a valid size.
THEOREM FinishedObjectsAreWhole == Spec => []FinishedIsWhole
<1>1. IInv => FinishedIsWhole
    BY DEF IInv
<1> QED BY <1>1, BuilderInvariant, PTL

\* The malloc'ed buffer is freed exactly once on every path out of a builder
\* on which realloc() did not fail.
THEOREM BufferFreedOnce == Spec => []FreedOnce
<1>1. IInv => FreedOnce
    BY DEF IInv, Owner, FreedOnce, TypeOK
<1> QED BY <1>1, BuilderInvariant, PTL

\* A write at l and the patch of an open size field touch no closed document.
LEMMA ClosedUntouched ==
    ASSUME IInv, [Next]_vars, NEW o \in Closed, NEW x \in DOMAIN cells, o <= x, x < End(o)
    PROVE  x \in DOMAIN cells' /\ cells'[x] = cells[x]
<1>1. BufType /\ BufInv
    BY DEF IInv, TypeOK, BufType
<1>2. x \in Nat /\ x # l /\ x < l
    BY <1>1 DEF BufType, BufInv, Capacity
<1>3. CASE \E c : cells' = Put(cells, l, c)
    BY <1>2, <1>3 DEF Put
<1>4. CASE \E n \in NameSizes : SubStart(n) /\ ~(UNCHANGED cells)
               /\ ~(\E c : cells' = Put(cells, l, c))
    <2>1. PICK n \in NameSizes :
              cells' = Put(Put(cells, l, Cell("sub", 1 + n)), l + 1 + n, Cell("size", 0))
        BY <1>4 DEF SubStart, ThrowsIn
    <2>2. x # l + 1 + n
        BY <1>1, <1>2, BuilderAssumption, SMTT(30) DEF BufType
    <2> QED BY <1>2, <2>1, <2>2, SMTT(30) DEF Put
<1>5. CASE Seal /\ ~Top.done /\ Len(levels) > 0 /\ Fits(l + 1)
    <2>1. Top.off \notin Closed /\ Top.off \in Nat
        BY <1>1, <1>5, SealProps, TopProps
    <2>2. x # Top.off
        <3> SUFFICES ASSUME x = Top.off PROVE FALSE
            OBVIOUS
        <3>1. o < Top.off
            BY <1>1, <2>1, ClosedProps, SMTT(30)
        <3>2. End(o) <= Top.off
            BY <1>1, <1>5, <3>1, TopProps DEF BufInv, Separate, Top
        <3> QED BY <1>1, <2>1, <3>2, ClosedProps
    <2> QED BY <1>1, <1>5, <2>2, SealProps
<1>6. CASE UNCHANGED cells
    BY <1>6
<1>7. \/ UNCHANGED cells
      \/ \E c : cells' = Put(cells, l, c)
      \/ \E n \in NameSizes : SubStart(n)
      \/ Seal /\ ~Top.done /\ Len(levels) > 0 /\ Fits(l + 1)
    <2>1. ASSUME NEW n \in NameSizes, NEW v \in ValueSizes, AppendValue(n, v)
          PROVE  UNCHANGED cells \/ \E c : cells' = Put(cells, l, c)
        BY <2>1 DEF AppendValue, ThrowsIn
    <2>2. CASE Done \/ CloseSub \/ Obj \/ Unwind
        BY <2>2 DEF Done, CloseSub, Obj, Unwind, DestroySub, DestroyThrows, IInv, Owner
    <2>3. CASE Leave \/ CopyRef \/ DropRef \/ ClientThrows \/ UNCHANGED vars
        BY <2>3 DEF Leave, CopyRef, DropRef, ClientThrows, vars
    <2> QED BY <2>1, <2>2, <2>3, SMTT(30) DEF Next
<1> QED BY <1>3, <1>4, <1>5, <1>6, <1>7

\* No later step writes into a document that has been closed.
THEOREM ClosedDocumentsAreFinal == Spec => ClosedIsFinal
<1>1. IInv /\ [Next]_vars =>
        [\A o \in Closed : \A x \in DOMAIN cells :
            o <= x /\ x < End(o) => x \in DOMAIN cells' /\ cells'[x] = cells[x]]_vars
    BY ClosedUntouched
<1> QED BY <1>1, BuilderInvariant, PTL DEF Spec, ClosedIsFinal

\* With one spare byte per open sub-builder, unwinding neither runs out of room
\* nor calls std::terminate while realloc() succeeds.
THEOREM UnwindingHasRoom == Spec => RoomToUnwind
<1> DEFINE A == phase = "unwind" /\ Room =>
                  \/ phase' # "terminated" /\ (phase' = "unwind" => Room')
                  \/ oom' # oom
<1>1. ASSUME IInv, Next PROVE A
    <2> SUFFICES ASSUME phase = "unwind", Room, oom' = oom
                 PROVE  phase' # "terminated" /\ (phase' = "unwind" => Room')
        OBVIOUS
    <2>1. BufType /\ BufInv /\ l \in Nat /\ Len(levels) \in Nat /\ size \in Nat
        BY <1>1 DEF IInv, TypeOK, BufType
    <2>2. CASE Unwind
        <3>1. CASE DestroyThrows
            <4>1. l + 1 <= l + Len(levels) - 1 /\ l + Len(levels) - 1 \in Nat /\ l + 1 \in Nat
                BY <2>1, <3>1 DEF DestroyThrows
            <4>2. Fits(l + 1)
                BY <2>1, <4>1, FitsMonotone DEF Room
            <4>3. oom = TRUE
                BY <3>1, <4>2, Zenon DEF DestroyThrows, GrowThrows
            <4> QED BY <1>1, <3>1, <4>3 DEF DestroyThrows, IInv, Owner
        <3>2. CASE DestroySub
            <4>1. Len(levels) > 1 /\ Len(levels') = Len(levels) - 1 /\ phase' = phase
                BY <2>1, <3>2, PopProps DEF DestroySub
            <4>2. CASE Seal
                <5>1. l' = l + 1 /\ l' + Len(levels') - 1 = l + Len(levels) - 1
                    BY <2>1, <4>1, <4>2 DEF Seal, GrowTo
                <5>2. size' = Grown(l + 1)
                    BY <4>2 DEF Seal, GrowTo
                <5>3. CASE l + 1 <= size
                    BY <2>1, <4>1, <5>1, <5>2, <5>3 DEF Grown, Room, Fits
                <5>4. CASE ~(l + 1 <= size)
                    <6>1. ~(l + Len(levels) - 1 <= size)
                        BY <2>1, <4>1, <5>4
                    <6> QED BY <4>1, <5>1, <6>1 DEF Room, Fits
                <5> QED BY <4>1, <5>3, <5>4
            <4>3. CASE UNCHANGED <<l, size, cells>>
                <5>1. /\ l + Len(levels) - 1 \in Nat /\ l + (Len(levels) - 1) - 1 \in Nat
                      /\ l + (Len(levels) - 1) - 1 <= l + Len(levels) - 1
                    BY <2>1, <4>1
                <5>2. Fits(l + (Len(levels) - 1) - 1)
                    BY <2>1, <5>1, FitsMonotone DEF Room
                <5> QED BY <4>1, <4>3, <5>2 DEF Room, Fits
            <4> QED BY <3>2, <4>2, <4>3 DEF DestroySub
        <3>3. CASE phase' = "failed"
            BY <3>3
        <3> QED BY <2>2, <3>1, <3>2, <3>3 DEF Unwind
    <2>3. CASE CopyRef \/ DropRef
        BY <1>1, <2>3 DEF CopyRef, DropRef, IInv, Owner
    <2> QED BY <1>1, <2>2, <2>3 DEF Next, AppendValue, SubStart, Done, CloseSub, Obj, Leave,
                                  ClientThrows
<1>2. IInv /\ [Next]_vars => [A]_vars
    BY <1>1
<1> QED BY <1>2, BuilderInvariant, PTL DEF Spec, RoomToUnwind

-----------------------------------------------------------------------------
(* Reading what the builders wrote *)

\* f[n] reads the buffer c in up to n calls.
IsIterator(f, c, max) ==
    /\ \A p, e \in Nat : f[0][p][e] = <<>>
    /\ \A n \in 1..max : \A p, e \in Nat : f[n][p][e] = ElementsFrom(c, f[n - 1], p, e)

\* BSONObjIterator and embeddedObject() call each other; whatever the buffer
\* holds, a bounded number of their calls has a result.
LEMMA IteratorProps ==
    ASSUME NEW c, NEW max \in Nat
    PROVE  IsIterator(Iterator(c, max), c, max)
<1> DEFINE Z == [p \in Nat |-> [e \in Nat |-> <<>>]]
           U(g) == [p \in Nat |-> [e \in Nat |-> ElementsFrom(c, g, p, e)]]
           Body(f, n) == [p \in Nat |-> [e \in Nat |->
                             IF n = 0 THEN <<>> ELSE ElementsFrom(c, f[n - 1], p, e)]]
           Eqn(f) == f = [n \in 0..max |-> Body(f, n)]
           read == CHOOSE f : Eqn(f)
<1>1. Iterator(c, max) = read
    BY DEF Iterator
<1>2. \A f : Body(f, 0) = Z /\ \A n \in 1..max : Body(f, n) = U(f[n - 1])
    OBVIOUS
<1>3. /\ \A p, e \in Nat : Z[p][e] = <<>>
      /\ \A g : \A p, e \in Nat : U(g)[p][e] = ElementsFrom(c, g, p, e)
    OBVIOUS
<1> HIDE DEF Body, Z, U
<1> DEFINE Upto(k) == \E f : f[0] = Z /\ \A n \in 1..k : f[n] = U(f[n - 1])
           K == {k \in 0..max : Upto(k)}
<1>5. 0 \in K
    <2> DEFINE f == [n \in 0..max |-> Z]
    <2>1. f[0] = Z /\ \A n \in 1..0 : f[n] = U(f[n - 1])
        OBVIOUS
    <2>2. Upto(0)
        <3> HIDE DEF f
        <3> QED
            BY <2>1
    <2> HIDE DEF Upto
    <2> QED
        BY <2>2
<1>6. ASSUME NEW k \in 0..(max - 1), k \in K PROVE k + 1 \in K
    <2>1. PICK f : f[0] = Z /\ \A n \in 1..k : f[n] = U(f[n - 1])
        BY <1>6
    <2> DEFINE g == [n \in 0..max |-> IF n = k + 1 THEN U(f[k]) ELSE f[n]]
    <2>2. k \in 0..max /\ k + 1 \in 1..max /\ k + 1 \in 0..max
        OBVIOUS
    <2>3. g[k + 1] = U(f[k]) /\ \A n \in 0..k : g[n] = f[n]
        <3>1. \A n \in 0..k : n \in 0..max /\ n # k + 1
            OBVIOUS
        <3>2. \A n \in 0..max : g[n] = IF n = k + 1 THEN U(f[k]) ELSE f[n]
            OBVIOUS
        <3> HIDE DEF g
        <3> QED
            BY <2>2, <3>1, <3>2
    <2> HIDE DEF g
    <2>4. ASSUME NEW n \in 1..(k + 1) PROVE g[n] = U(g[n - 1])
        <3>1. CASE n = k + 1
            <4>1. n - 1 = k /\ k \in 0..k
                BY <2>2, <3>1
            <4> QED
                BY <2>3, <3>1, <4>1
        <3>2. CASE n # k + 1
            <4>1. n \in 1..k /\ n - 1 \in 0..k /\ n \in 0..k
                BY <2>2, <3>2
            <4> QED
                BY <2>1, <2>3, <4>1
        <3> QED
            BY <3>1, <3>2
    <2>5. g[0] = Z
        BY <2>1, <2>2, <2>3
    <2>6. Upto(k + 1)
        BY <2>4, <2>5
    <2> HIDE DEF Upto
    <2> QED
        BY <2>2, <2>6
<1> HIDE DEF K
<1>7. \A k \in 0..max : k \in K
    BY <1>5, <1>6, IntervalInduction
<1>8. PICK h : h[0] = Z /\ \A n \in 1..max : h[n] = U(h[n - 1])
    <2>1. max \in K
        BY <1>7
    <2> QED
        BY <2>1 DEF K
<1> DEFINE g == [n \in 0..max |-> h[n]]
<1>9. \A n \in 0..max : g[n] = h[n]
    OBVIOUS
<1>10. ASSUME NEW n \in 0..max PROVE g[n] = Body(g, n)
    <2> HIDE DEF g
    <2>1. CASE n = 0
        BY <1>2, <1>8, <1>9, <2>1
    <2>2. CASE n # 0
        <3>1. n \in 1..max /\ n - 1 \in 0..max
            BY <2>2
        <3>2. g[n] = U(g[n - 1])
            BY <1>8, <1>9, <3>1
        <3> QED
            BY <1>2, <3>1, <3>2
    <2> QED
        BY <2>1, <2>2
<1>11. Eqn(g)
    BY <1>10
<1>12. Eqn(read)
    <2> HIDE DEF Eqn
    <2> QED
        BY <1>11, Zenon
<1>13. \A n \in 0..max : read[n] = Body(read, n)
    BY <1>12, Zenon
<1> HIDE DEF read
<1>14. read[0] = Z /\ \A n \in 1..max : read[n] = U(read[n - 1])
    <2>1. 0 \in 0..max /\ \A n \in 1..max : n \in 0..max
        OBVIOUS
    <2> QED
        BY <1>2, <1>13, <2>1, Zenon
<1>15. IsIterator(read, c, max)
    BY <1>3, <1>14 DEF IsIterator
<1> QED
    BY <1>1, <1>15, Zenon

\* An element that is no document lies at p, before e.
ElemAt(c, p, e) ==
    p \in DOMAIN c /\ c[p].k = "elem" /\ c[p].w \in Nat \ {0} /\ p + c[p].w <= e

\* The header at p belongs to a finished document at d that ends before e.
SubAt(c, p, d, e) ==
    /\ p \in DOMAIN c /\ c[p].k = "sub" /\ c[p].w \in Nat \ {0}
    /\ d \in DOMAIN c /\ d = p + c[p].w
    /\ c[d].w \in Nat /\ c[d].w > SizeField /\ d + c[d].w <= e

\* What lies from p to e of the buffer c are the fields f: an iterator that
\* starts at p meets an element after the other and arrives at e.  R holds what
\* lies between other offsets.
Unfolds(c, R, p, e, f) ==
    \/ p = e /\ f = <<>>
    \/ /\ ElemAt(c, p, e)
       /\ \E g \in R[p + c[p].w][e] : f = <<<<"value", c[p].w>>>> \o g
    \/ \E d : /\ SubAt(c, p, d, e)
             /\ \E g \in R[d + SizeField][d + c[d].w - 1], h \in R[d + c[d].w][e] :
                   f = <<<<"doc", c[p].w, g>>>> \o h
Spans(c, R, S) ==
    /\ R \in [Nat -> [Nat -> SUBSET Seq(S)]]
    /\ \A p, e \in Nat : \A f \in R[p][e] : Unfolds(c, R, p, e, f)
Holds(c, p, e, f) == \E R, S : Spans(c, R, S) /\ p \in Nat /\ e \in Nat /\ f \in R[p][e]

\* Where the parts of an embedded document are.
LEMMA SubAtProps ==
    ASSUME NEW c, NEW p \in Nat, NEW e \in Nat, NEW d, SubAt(c, p, d, e)
    PROVE  /\ p \in DOMAIN c /\ d \in DOMAIN c /\ d \in Nat /\ p < d
           /\ d + SizeField \in Nat /\ d < d + SizeField
           /\ d + c[d].w - 1 \in Nat /\ d + SizeField <= d + c[d].w - 1
           /\ d + c[d].w \in Nat /\ d + c[d].w - 1 < d + c[d].w /\ d + c[d].w <= e
BY DEF SubAt, SizeField

\* They lie in every part of the buffer that has the whole document.
LEMMA SubAtWithin ==
    ASSUME NEW c, NEW p \in Nat, NEW q \in Nat, NEW b \in Nat, NEW e \in Nat, p <= q, b <= e,
           NEW o, SubAt(c, q, o, b)
    PROVE  /\ p <= q /\ q < e /\ p <= o /\ o < e /\ o < b
           /\ p <= o + SizeField /\ o + c[o].w - 1 <= e /\ p <= o + c[o].w
<1>1. /\ o \in Nat /\ q < o /\ o + SizeField \in Nat /\ o < o + SizeField
      /\ o + c[o].w - 1 \in Nat /\ o + SizeField <= o + c[o].w - 1
      /\ o + c[o].w \in Nat /\ o + c[o].w - 1 < o + c[o].w /\ o + c[o].w <= b
    BY SubAtProps, Zenon
<1> QED
    BY <1>1, SMTT(30)

LEMMA SubAtWider ==
    ASSUME NEW c, NEW q \in Nat, NEW m \in Nat, NEW b \in Nat, m <= b, NEW o, SubAt(c, q, o, m)
    PROVE  SubAt(c, q, o, b)
<1>1. o + c[o].w \in Nat /\ o + c[o].w <= m
    BY SubAtProps, Zenon
<1>2. o + c[o].w <= b
    BY <1>1, SMTT(30)
<1> QED
    BY <1>2, Zenon DEF SubAt

\* Nothing lies between an offset and itself.
LEMMA HoldsEmpty ==
    ASSUME NEW c, NEW p \in Nat
    PROVE  Holds(c, p, p, <<>>)
<1> DEFINE R == [q \in Nat |-> [b \in Nat |-> IF q = b THEN {<<>>} ELSE {}]]
           S == {}
<1>1. R \in [Nat -> [Nat -> SUBSET Seq(S)]]
    OBVIOUS
<1>2. \A q, b \in Nat : \A f \in R[q][b] : q = b /\ f = <<>>
    OBVIOUS
<1>3. <<>> \in R[p][p]
    OBVIOUS
<1> HIDE DEF R, S
<1>4. Spans(c, R, S)
    BY <1>1, <1>2 DEF Spans, Unfolds
<1> QED
    BY <1>3, <1>4 DEF Holds

\* The spans that lie in a part of the buffer are there in every buffer that
\* agrees on this part.
LEMMA HoldsFrame ==
    ASSUME NEW c, NEW d, NEW p, NEW e, NEW f, Holds(c, p, e, f), DOMAIN c \subseteq Nat,
           \A x \in DOMAIN c : p <= x /\ x < e => x \in DOMAIN d /\ d[x] = c[x]
    PROVE  Holds(d, p, e, f)
<1>1. PICK R, S : Spans(c, R, S) /\ p \in Nat /\ e \in Nat /\ f \in R[p][e]
    BY DEF Holds
<1>2. /\ R \in [Nat -> [Nat -> SUBSET Seq(S)]]
      /\ \A q, b \in Nat : \A g \in R[q][b] : Unfolds(c, R, q, b, g)
    BY <1>1 DEF Spans
<1> DEFINE Q == [q \in Nat |-> [b \in Nat |-> IF p <= q /\ b <= e THEN R[q][b] ELSE {}]]
<1>3. Q \in [Nat -> [Nat -> SUBSET Seq(S)]]
    BY <1>2
<1>4. \A q, b \in Nat : Q[q][b] = IF p <= q /\ b <= e THEN R[q][b] ELSE {}
    OBVIOUS
<1>5. f \in Q[p][e]
    BY <1>1, <1>4
<1> HIDE DEF Q
<1>6. ASSUME NEW q \in Nat, NEW b \in Nat, NEW g \in Q[q][b]
      PROVE  Unfolds(d, Q, q, b, g)
    <2>1. p <= q /\ b <= e /\ g \in R[q][b] /\ Unfolds(c, R, q, b, g)
        BY <1>1, <1>2, <1>4
    <2>2. CASE q = b /\ g = <<>>
        BY <2>2 DEF Unfolds
    <2>3. CASE /\ ElemAt(c, q, b)
               /\ \E h \in R[q + c[q].w][b] : g = <<<<"value", c[q].w>>>> \o h
        <3>1. PICK h \in R[q + c[q].w][b] : g = <<<<"value", c[q].w>>>> \o h
            BY <2>3, Zenon
        <3>2. q \in DOMAIN d /\ d[q] = c[q]
            BY <1>1, <2>1, <2>3, SMTT(30) DEF ElemAt
        <3>3. h \in Q[q + c[q].w][b]
            BY <1>1, <1>4, <2>1, <2>3, <3>1, SMTT(30) DEF ElemAt
        <3>4. ElemAt(d, q, b)
            BY <2>3, <3>2 DEF ElemAt
        <3> QED
            BY <3>1, <3>2, <3>3, <3>4, Zenon DEF Unfolds
    <2>4. ASSUME NEW o, SubAt(c, q, o, b),
                 NEW i \in R[o + SizeField][o + c[o].w - 1], NEW h \in R[o + c[o].w][b],
                 g = <<<<"doc", c[q].w, i>>>> \o h
          PROVE  Unfolds(d, Q, q, b, g)
        <3>1. /\ q \in DOMAIN c /\ o \in DOMAIN c /\ q < o /\ o < b /\ o \in Nat
              /\ o + SizeField \in Nat /\ o + c[o].w - 1 \in Nat /\ o + c[o].w \in Nat
              /\ p <= o + SizeField /\ o + c[o].w - 1 <= e /\ p <= o + c[o].w
            <4>1. /\ q \in DOMAIN c /\ o \in DOMAIN c /\ o \in Nat /\ q < o
                  /\ o + SizeField \in Nat /\ o < o + SizeField
                  /\ o + c[o].w - 1 \in Nat /\ o + SizeField <= o + c[o].w - 1
                  /\ o + c[o].w \in Nat /\ o + c[o].w - 1 < o + c[o].w /\ o + c[o].w <= b
                BY <2>4, SubAtProps, Zenon
            <4>2. p \in Nat /\ e \in Nat /\ p <= q /\ b <= e
                BY <1>1, <2>1, Zenon
            <4>3. o < b /\ p <= o + SizeField /\ o + c[o].w - 1 <= e /\ p <= o + c[o].w
                BY <2>4, <4>2, SubAtWithin, Zenon
            <4> QED
                BY <4>1, <4>3, Zenon
        <3>2. q \in DOMAIN d /\ d[q] = c[q] /\ o \in DOMAIN d /\ d[o] = c[o]
            <4>1. p <= q /\ q < e /\ p <= o /\ o < e
                <5>1. p \in Nat /\ e \in Nat /\ p <= q /\ b <= e
                    BY <1>1, <2>1, Zenon
                <5> QED
                    BY <2>4, <5>1, SubAtWithin, Zenon
            <4> QED
                BY <3>1, <4>1, Zenon
        <3>3. i \in Q[o + SizeField][o + c[o].w - 1]
            BY <1>4, <3>1, SMTT(30)
        <3>4. h \in Q[o + c[o].w][b]
            BY <1>4, <2>1, <3>1, SMTT(30)
        <3>5. SubAt(d, q, o, b)
            BY <2>4, <3>2, SMTT(30) DEF SubAt
        <3> QED
            BY <2>4, <3>2, <3>3, <3>4, <3>5, ZenonT(30) DEF Unfolds
    <2> QED
        BY <2>1, <2>2, <2>3, <2>4, Zenon DEF Unfolds
<1>7. Spans(d, Q, S)
    BY <1>3, <1>6, SMTT(30) DEF Spans
<1> QED
    BY <1>1, <1>5, <1>7 DEF Holds

\* An iterator moves forward.
LEMMA HoldsOrder ==
    ASSUME NEW c, NEW p, NEW e, NEW f, Holds(c, p, e, f)
    PROVE  p \in Nat /\ e \in Nat /\ p <= e
<1>1. PICK R, S : Spans(c, R, S) /\ p \in Nat /\ e \in Nat /\ f \in R[p][e]
    BY DEF Holds
<1>2. Unfolds(c, R, p, e, f)
    BY <1>1 DEF Spans
<1>3. CASE ElemAt(c, p, e)
    BY <1>1, <1>3 DEF ElemAt
<1>4. ASSUME NEW d, SubAt(c, p, d, e) PROVE p <= e
    <2>1. p < d /\ d \in Nat /\ d < d + SizeField /\ d + SizeField <= d + c[d].w - 1
          /\ d + SizeField \in Nat /\ d + c[d].w - 1 \in Nat /\ d + c[d].w \in Nat
          /\ d + c[d].w - 1 < d + c[d].w /\ d + c[d].w <= e
        BY <1>1, <1>4, SubAtProps, SMTT(30)
    <2> QED
        BY <1>1, <2>1, SMTT(30)
<1> QED
    BY <1>1, <1>2, <1>3, <1>4 DEF Unfolds

\* A field in front of two parts.
Regroups(x, h, g) == (<<x>> \o h) \o g = <<x>> \o (h \o g)
LEMMA ConsConcat ==
    ASSUME NEW S, NEW x, NEW h \in Seq(S), NEW g \in Seq(S)
    PROVE  Regroups(x, h, g)
<1> DEFINE T == S \cup {x}
<1>1. <<x>> \in Seq(T) /\ h \in Seq(T) /\ g \in Seq(T)
    OBVIOUS
<1> QED
    BY <1>1 DEF Regroups

\* With more spans at hand, what unfolded still does.
LEMMA UnfoldsMore ==
    ASSUME NEW c, NEW R, NEW Q, NEW p \in Nat, NEW e \in Nat, NEW f, Unfolds(c, R, p, e, f),
           \A q, b \in Nat : R[q][b] \subseteq Q[q][b]
    PROVE  Unfolds(c, Q, p, e, f)
<1>1. CASE p = e /\ f = <<>>
    BY <1>1 DEF Unfolds
<1>2. ASSUME ElemAt(c, p, e),
             NEW g \in R[p + c[p].w][e], f = <<<<"value", c[p].w>>>> \o g
      PROVE  Unfolds(c, Q, p, e, f)
    <2>1. p + c[p].w \in Nat
        BY <1>2 DEF ElemAt
    <2>2. g \in Q[p + c[p].w][e]
        BY <2>1
    <2> QED
        BY <1>2, <2>2, Zenon DEF Unfolds
<1>3. ASSUME NEW d, SubAt(c, p, d, e),
             NEW g \in R[d + SizeField][d + c[d].w - 1], NEW h \in R[d + c[d].w][e],
             f = <<<<"doc", c[p].w, g>>>> \o h
      PROVE  Unfolds(c, Q, p, e, f)
    <2>1. d + SizeField \in Nat /\ d + c[d].w - 1 \in Nat /\ d + c[d].w \in Nat
        BY <1>3, SubAtProps, SMTT(30)
    <2>2. g \in Q[d + SizeField][d + c[d].w - 1] /\ h \in Q[d + c[d].w][e]
        BY <2>1, SMTT(30)
    <2> QED
        BY <1>3, <2>2, Zenon DEF Unfolds
<1> QED
    BY <1>1, <1>2, <1>3, Zenon DEF Unfolds

\* What lies before an offset and what lies behind it make one span.
LEMMA HoldsConcat ==
    ASSUME NEW c, NEW p, NEW m, NEW e, NEW f, NEW g, Holds(c, p, m, f), Holds(c, m, e, g)
    PROVE  Holds(c, p, e, f \o g)
<1>1. PICK R1, S1 : Spans(c, R1, S1) /\ p \in Nat /\ m \in Nat /\ f \in R1[p][m]
    BY DEF Holds
<1>2. PICK R2, S2 : Spans(c, R2, S2) /\ m \in Nat /\ e \in Nat /\ g \in R2[m][e]
    BY DEF Holds
<1> DEFINE S == S1 \cup S2
<1>3. Seq(S1) \subseteq Seq(S) /\ Seq(S2) \subseteq Seq(S)
    OBVIOUS
<1> HIDE DEF S
<1>4. /\ R1 \in [Nat -> [Nat -> SUBSET Seq(S)]]
      /\ \A q, b \in Nat : \A u \in R1[q][b] : Unfolds(c, R1, q, b, u)
    BY <1>1, <1>3 DEF Spans
<1>5. /\ R2 \in [Nat -> [Nat -> SUBSET Seq(S)]]
      /\ \A q, b \in Nat : \A u \in R2[q][b] : Unfolds(c, R2, q, b, u)
    BY <1>2, <1>3 DEF Spans
<1>6. g \in Seq(S) /\ \A q, b \in Nat : \A u \in R1[q][b] : u \in Seq(S) /\ u \o g \in Seq(S)
    <2>1. g \in Seq(S)
        BY <1>2, <1>5
    <2>2. \A q, b \in Nat : \A u \in R1[q][b] : u \in Seq(S)
        BY <1>4
    <2>3. \A u \in Seq(S) : u \o g \in Seq(S)
        BY <2>1
    <2> QED
        BY <2>1, <2>2, <2>3, Zenon
<1> DEFINE More(q) == {u \o g : u \in R1[q][m]}
           Q == [q \in Nat |-> [b \in Nat |->
                    R1[q][b] \cup R2[q][b] \cup (IF b = e THEN More(q) ELSE {})]]
<1>7. \A q \in Nat : \A v : v \in More(q) <=> \E u \in R1[q][m] : v = u \o g
    OBVIOUS
<1> HIDE DEF More
<1>8. \A q \in Nat : More(q) \subseteq Seq(S)
    <2> SUFFICES ASSUME NEW q \in Nat, NEW v \in More(q) PROVE v \in Seq(S)
        OBVIOUS
    <2>1. PICK u \in R1[q][m] : v = u \o g
        BY <1>7, Zenon
    <2> QED
        BY <1>1, <1>6, <2>1
<1>9. \A q, b \in Nat : Q[q][b] = R1[q][b] \cup R2[q][b] \cup (IF b = e THEN More(q) ELSE {})
    OBVIOUS
<1>10. Q \in [Nat -> [Nat -> SUBSET Seq(S)]]
    BY <1>4, <1>5, <1>8, SMTT(30)
<1> HIDE DEF Q
<1>11. \A q, b \in Nat : R1[q][b] \subseteq Q[q][b] /\ R2[q][b] \subseteq Q[q][b]
    BY <1>9
<1>12. \A q \in Nat : \A u \in R1[q][m] : u \o g \in Q[q][e]
    BY <1>2, <1>7, <1>9, Zenon
<1>15. m <= e
    BY HoldsOrder
<1>13. ASSUME NEW q \in Nat, NEW b \in Nat, NEW v \in Q[q][b] PROVE Unfolds(c, Q, q, b, v)
    <2>1. CASE v \in R1[q][b]
        BY <1>4, <1>11, <2>1, UnfoldsMore, SMTT(30)
    <2>2. CASE v \in R2[q][b]
        BY <1>5, <1>11, <2>2, UnfoldsMore
    <2>3. ASSUME b = e, NEW u \in R1[q][m], v = u \o g PROVE Unfolds(c, Q, q, b, v)
        <3>0. Unfolds(c, R1, q, m, u) /\ m \in Nat
            BY <1>1, <1>4, Zenon
        <3>1. CASE q = m /\ u = <<>>
            <4>1. v = g
                BY <1>6, <2>3, <3>1, SMTT(30)
            <4>2. v \in R2[q][b]
                BY <1>2, <2>3, <3>1, <4>1
            <4> QED
                BY <2>2, <4>2
        <3>2. ASSUME ElemAt(c, q, m),
                     NEW h \in R1[q + c[q].w][m], u = <<<<"value", c[q].w>>>> \o h
              PROVE  Unfolds(c, Q, q, b, v)
            <4>1. q + c[q].w \in Nat /\ ElemAt(c, q, b)
                BY <1>1, <1>15, <2>3, <3>2, SMTT(30) DEF ElemAt
            <4>2. h \in Seq(S) /\ h \o g \in Q[q + c[q].w][b]
                BY <1>1, <1>6, <1>12, <2>3, <4>1, SMTT(30)
            <4> DEFINE x == <<"value", c[q].w>>
            <4> HIDE DEF x
            <4>3. v = (<<x>> \o h) \o g
                BY <2>3, <3>2 DEF x
            <4>4. v = <<x>> \o (h \o g)
                <5>1. Regroups(x, h, g)
                    BY <1>6, <4>2, ConsConcat, Zenon
                <5> QED
                    BY <4>3, <5>1, Zenon DEF Regroups
            <4> QED
                BY <4>1, <4>2, <4>4, Zenon DEF Unfolds, x
        <3>3. ASSUME NEW d, SubAt(c, q, d, m),
                     NEW i \in R1[d + SizeField][d + c[d].w - 1], NEW h \in R1[d + c[d].w][m],
                     u = <<<<"doc", c[q].w, i>>>> \o h
              PROVE  Unfolds(c, Q, q, b, v)
            <4>1. /\ d + SizeField \in Nat /\ d + c[d].w - 1 \in Nat /\ d + c[d].w \in Nat
                  /\ d + c[d].w <= m
                BY <1>1, <3>3, SubAtProps, Zenon
            <4>2. SubAt(c, q, d, b)
                BY <1>1, <1>2, <1>15, <2>3, <3>3, SubAtWider, Zenon
            <4>3. /\ h \in Seq(S) /\ h \o g \in Q[d + c[d].w][b]
                  /\ i \in Q[d + SizeField][d + c[d].w - 1]
                BY <1>1, <1>6, <1>11, <1>12, <2>3, <4>1, Zenon
            <4> DEFINE x == <<"doc", c[q].w, i>>
            <4> HIDE DEF x
            <4>4. v = (<<x>> \o h) \o g
                BY <2>3, <3>3, Zenon DEF x
            <4>5. v = <<x>> \o (h \o g)
                <5>1. h \in Seq(S) /\ g \in Seq(S)
                    BY <1>6, <4>3, Zenon
                <5>2. Regroups(x, h, g)
                    BY <5>1, ConsConcat, Zenon
                <5> QED
                    BY <4>4, <5>2, Zenon DEF Regroups
            <4> QED
                BY <4>2, <4>3, <4>5, Zenon DEF Unfolds, x
        <3> QED
            BY <3>0, <3>1, <3>2, <3>3, Zenon DEF Unfolds
    <2>4. v \in R1[q][b] \/ v \in R2[q][b] \/ (b = e /\ v \in More(q))
        BY <1>9
    <2>5. v \in More(q) => \E u \in R1[q][m] : v = u \o g
        BY <1>7, Zenon
    <2> QED
        BY <2>1, <2>2, <2>3, <2>4, <2>5, Zenon
<1>14. Spans(c, Q, S)
    BY <1>10, <1>13 DEF Spans
<1> QED
    BY <1>1, <1>2, <1>12, <1>14 DEF Holds

\* An element that is no document, as a span of its own.
LEMMA HoldsElem ==
    ASSUME NEW c, NEW p \in Nat, NEW e, e = p + c[p].w, ElemAt(c, p, e)
    PROVE  Holds(c, p, e, <<<<"value", c[p].w>>>>)
<1> DEFINE x == <<"value", c[p].w>>
           S == {x}
           R == [q \in Nat |-> [b \in Nat |->
                    IF q = e /\ b = e THEN {<<>>}
                    ELSE IF q = p /\ b = e THEN {<<x>>} ELSE {}]]
<1>1. e \in Nat /\ e # p
    BY DEF ElemAt
<1> HIDE DEF x
<1>2. <<>> \in Seq(S) /\ <<x>> \in Seq(S) /\ <<x>> = <<x>> \o <<>>
    OBVIOUS
<1>3. R \in [Nat -> [Nat -> SUBSET Seq(S)]]
    BY <1>2
<1>4. \A q, b \in Nat : R[q][b] = IF q = e /\ b = e THEN {<<>>}
                                  ELSE IF q = p /\ b = e THEN {<<x>>} ELSE {}
    OBVIOUS
<1> HIDE DEF R, S
<1>5. <<x>> \in R[p][e] /\ <<>> \in R[e][e]
    BY <1>1, <1>4
<1>6. Unfolds(c, R, p, e, <<x>>)
    BY <1>2, <1>5, Zenon DEF Unfolds, x
<1>7. Unfolds(c, R, e, e, <<>>)
    BY DEF Unfolds
<1>8. ASSUME NEW q \in Nat, NEW b \in Nat, NEW f \in R[q][b] PROVE Unfolds(c, R, q, b, f)
    <2>1. (q = e /\ b = e /\ f = <<>>) \/ (q = p /\ b = e /\ f = <<x>>)
        BY <1>4
    <2> QED
        BY <1>6, <1>7, <2>1, Zenon
<1>9. Spans(c, R, S)
    BY <1>3, <1>8, SMTT(30) DEF Spans
<1>10. Holds(c, p, e, <<x>>)
    BY <1>1, <1>5, <1>9 DEF Holds
<1> QED
    BY <1>10 DEF x

\* A finished document with its header, as a span of its own.
LEMMA HoldsDoc ==
    ASSUME NEW c, NEW p \in Nat, NEW d, NEW e, e = d + c[d].w, SubAt(c, p, d, e),
           NEW g, Holds(c, d + SizeField, e - 1, g)
    PROVE  Holds(c, p, e, <<<<"doc", c[p].w, g>>>>)
<1>0. PICK R0, S0 : /\ Spans(c, R0, S0) /\ d + SizeField \in Nat /\ e - 1 \in Nat
                    /\ g \in R0[d + SizeField][e - 1]
    BY DEF Holds
<1>1. /\ e \in Nat /\ e # p
      /\ d + SizeField \in Nat /\ d + c[d].w - 1 = e - 1 /\ d + c[d].w = e
    BY DEF SubAt, SizeField
<1> DEFINE x == <<"doc", c[p].w, g>>
           S == S0 \cup {x}
           R == [q \in Nat |-> [b \in Nat |->
                    R0[q][b] \cup IF q = e /\ b = e THEN {<<>>}
                                  ELSE IF q = p /\ b = e THEN {<<x>>} ELSE {}]]
<1> HIDE DEF x
<1>2. <<>> \in Seq(S) /\ <<x>> \in Seq(S) /\ <<x>> = <<x>> \o <<>> /\ Seq(S0) \subseteq Seq(S)
    OBVIOUS
<1>3. R \in [Nat -> [Nat -> SUBSET Seq(S)]]
    <2>1. R0 \in [Nat -> [Nat -> SUBSET Seq(S0)]]
        BY <1>0 DEF Spans
    <2>2. R0 \in [Nat -> [Nat -> SUBSET Seq(S)]]
        BY <1>2, <2>1
    <2> HIDE DEF S
    <2> QED
        BY <1>2, <2>2, Zenon
<1>4. \A q, b \in Nat : R[q][b] = R0[q][b] \cup IF q = e /\ b = e THEN {<<>>}
                                                ELSE IF q = p /\ b = e THEN {<<x>>} ELSE {}
    BY SMTT(30)
<1> HIDE DEF R, S
<1>5. <<x>> \in R[p][e] /\ <<>> \in R[e][e] /\ g \in R[d + SizeField][e - 1]
    BY <1>0, <1>1, <1>4, SMTT(30)
<1>6. Unfolds(c, R, p, e, <<x>>)
    BY <1>1, <1>2, <1>5, Zenon DEF Unfolds, x
<1>7. Unfolds(c, R, e, e, <<>>)
    BY DEF Unfolds
<1>8. ASSUME NEW q \in Nat, NEW b \in Nat, NEW f \in R[q][b] PROVE Unfolds(c, R, q, b, f)
    <2>1. (q = e /\ b = e /\ f = <<>>) \/ (q = p /\ b = e /\ f = <<x>>) \/ f \in R0[q][b]
        BY <1>4, SMTT(30)
    <2>2. CASE f \in R0[q][b]
        <3>1. Unfolds(c, R0, q, b, f)
            BY <1>0, <2>2 DEF Spans
        <3>2. \A s, t \in Nat : R0[s][t] \subseteq R[s][t]
            BY <1>4
        <3> QED
            BY <3>1, <3>2, UnfoldsMore, SMTT(30)
    <2> QED
        BY <1>6, <1>7, <2>1, <2>2, Zenon
<1>9. Spans(c, R, S)
    BY <1>3, <1>8, SMTT(30) DEF Spans
<1>10. Holds(c, p, e, <<x>>)
    BY <1>1, <1>5, <1>9, SMTT(30) DEF Holds
<1> QED
    BY <1>10 DEF x

\* BSONObjIterator finds the fields of a span, and needs no more calls than the
\* span has bytes.
LEMMA HoldsRead ==
    ASSUME NEW c, NEW p, NEW e, NEW f, Holds(c, p, e, f), NEW max \in Nat, e <= max
    PROVE  Iterator(c, max)[max][p][e] = f
<1>1. PICK R, S : Spans(c, R, S) /\ p \in Nat /\ e \in Nat /\ f \in R[p][e]
    BY DEF Holds
<1>2. \A q, b \in Nat : \A g \in R[q][b] : Unfolds(c, R, q, b, g)
    BY <1>1 DEF Spans
<1> DEFINE it == Iterator(c, max)
<1>3. IsIterator(it, c, max)
    BY IteratorProps, SMTT(30)
<1> HIDE DEF it
<1> DEFINE Reads(n) == \A q, b \in Nat : \A g \in R[q][b] : b - q <= n => it[n][q][b] = g
           T == {n \in 0..max : Reads(n)}
<1>4. \A q, b \in Nat : \A g \in R[q][b] : q <= b /\ (q = b => g = <<>>)
    <2> SUFFICES ASSUME NEW q \in Nat, NEW b \in Nat, NEW g \in R[q][b]
                 PROVE  q <= b /\ (q = b => g = <<>>)
        OBVIOUS
    <2>1. Unfolds(c, R, q, b, g)
        BY <1>2
    <2>2. CASE ElemAt(c, q, b)
        BY <2>2 DEF ElemAt
    <2>3. ASSUME NEW d, SubAt(c, q, d, b) PROVE q < b
        <3>1. q < d /\ d \in Nat /\ d < d + SizeField /\ d + SizeField <= d + c[d].w - 1
              /\ d + SizeField \in Nat /\ d + c[d].w - 1 \in Nat /\ d + c[d].w \in Nat
              /\ d + c[d].w - 1 < d + c[d].w /\ d + c[d].w <= b
            BY <2>3, SubAtProps, SMTT(30)
        <3> QED
            BY <3>1, SMTT(30)
    <2> QED
        BY <2>1, <2>2, <2>3 DEF Unfolds
<1>5. 0 \in T
    <2>1. ASSUME NEW q \in Nat, NEW b \in Nat, NEW g \in R[q][b], b - q <= 0
          PROVE  it[0][q][b] = g
        <3>1. g = <<>>
            BY <1>4, <2>1
        <3> QED
            BY <1>3, <3>1, SMTT(30) DEF IsIterator
    <2> QED
        BY <2>1
<1>6. ASSUME NEW n \in 0..(max - 1), n \in T PROVE n + 1 \in T
    <2>1. n + 1 \in 1..max /\ n + 1 \in 0..max /\ (n + 1) - 1 = n /\ n \in Nat
        OBVIOUS
    <2>2. Reads(n)
        BY <1>6
    <2>3. ASSUME NEW q \in Nat, NEW b \in Nat, NEW g \in R[q][b], b - q <= n + 1
          PROVE  it[n + 1][q][b] = g
        <3>1. it[n + 1][q][b] = ElementsFrom(c, it[n], q, b)
            BY <1>3, <2>1 DEF IsIterator
        <3>2. CASE q = b
            BY <1>4, <3>1, <3>2 DEF ElementsFrom
        <3>3. ASSUME ElemAt(c, q, b),
                     NEW h \in R[q + c[q].w][b], g = <<<<"value", c[q].w>>>> \o h
              PROVE  it[n + 1][q][b] = g
            <4>1. q < b /\ q + c[q].w \in Nat /\ b - (q + c[q].w) <= n
                BY <2>1, <2>3, <3>3, SMTT(30) DEF ElemAt
            <4>2. it[n][q + c[q].w][b] = h
                BY <2>2, <4>1
            <4>3. ElementSize(c, q) = c[q].w /\ Element(c, it[n], q) = <<"value", c[q].w>>
                BY <3>3 DEF ElemAt, ElementSize, Element
            <4> QED
                BY <3>1, <3>3, <4>1, <4>2, <4>3, Zenon DEF ElementsFrom
        <3>4. ASSUME NEW d, SubAt(c, q, d, b),
                     NEW i \in R[d + SizeField][d + c[d].w - 1], NEW h \in R[d + c[d].w][b],
                     g = <<<<"doc", c[q].w, i>>>> \o h
              PROVE  it[n + 1][q][b] = g
            <4>1. /\ d \in Nat /\ q < d /\ d < d + SizeField /\ d + SizeField <= d + c[d].w - 1
                  /\ d + SizeField \in Nat /\ d + c[d].w - 1 \in Nat /\ d + c[d].w \in Nat
                  /\ d + c[d].w - 1 < d + c[d].w /\ d + c[d].w <= b
                BY <3>4, SubAtProps, SMTT(30)
            <4>2. /\ q < b /\ b - (d + c[d].w) <= n
                  /\ (d + c[d].w - 1) - (d + SizeField) <= n
                BY <2>1, <2>3, <4>1, SMTT(30)
            <4>3. it[n][d + c[d].w][b] = h /\ it[n][d + SizeField][d + c[d].w - 1] = i
                BY <2>2, <4>1, <4>2, SMTT(30)
            <4>4. d = q + c[q].w /\ c[q].k = "sub" /\ c[q].w \in Nat /\ c[d].w \in Nat
                BY <3>4, SMTT(30) DEF SubAt
            <4>5. ElementSize(c, q) = c[q].w + c[d].w /\ q + (c[q].w + c[d].w) = d + c[d].w
                BY <4>4 DEF ElementSize
            <4>6. Element(c, it[n], q) = <<"doc", c[q].w, i>>
                BY <4>3, <4>4, Zenon DEF Element
            <4> QED
                BY <3>1, <3>4, <4>2, <4>3, <4>5, <4>6, Zenon DEF ElementsFrom
        <3>5. Unfolds(c, R, q, b, g)
            BY <1>2, SMTT(30)
        <3> QED
            BY <3>2, <3>3, <3>4, <3>5, Zenon DEF Unfolds
    <2>4. Reads(n + 1)
        BY <2>3
    <2> QED
        BY <2>1, <2>4
<1> HIDE DEF T
<1>7. max \in T
    BY <1>5, <1>6, IntervalInduction
<1>8. Reads(max)
    BY <1>7 DEF T
<1> QED
    BY <1>1, <1>8, SMTT(30) DEF it

-----------------------------------------------------------------------------
(* The loop of grow_reallocate, for every limit and every width of int: what it *)
(* allocates covers what is written and is at most twice as large, and past     *)
(* half of the range of an int its variable never gets to what is asked for.    *)

\* What the recursive definition of the doublings computes.
LEMMA DoublingDef ==
    /\ Doubling \in [0..MaxInt -> Nat] /\ Doubling[0] = FirstTry
    /\ \A i \in 1..MaxInt : Doubling[i] = 2 * Doubling[i - 1]
<1> DEFINE X == Nat
           step == [i \in 1..MaxInt |-> [m \in X |-> 2 * m]]
           Def(f) == f = [i \in 0..MaxInt |-> IF i = 0 THEN FirstTry ELSE 2 * f[i - 1]]
<1>1. MaxInt \in Nat /\ FirstTry \in Nat
    BY GrowAssumption
<1>2. FirstTry \in X /\ \A i \in 1..MaxInt, m \in X : step[i][m] = 2 * m /\ 2 * m \in X
    BY <1>1
<1>3. PICK f \in [0..MaxInt -> Nat] : f[0] = FirstTry /\ \A i \in 1..MaxInt : f[i] = step[i][f[i - 1]]
    <2> HIDE DEF X
    <2>1. step \in [1..MaxInt -> [X -> X]]
        BY <1>2
    <2> HIDE DEF step
    <2>2. FirstTry \in X /\ MaxInt \in Nat
        BY <1>1, <1>2
    <2>3. \E f \in [0..MaxInt -> X] : f[0] = FirstTry /\ \A i \in 1..MaxInt : f[i] = step[i][f[i - 1]]
        BY ONLY <2>1, <2>2, LoopExists, SMTT(30)
    <2> QED
        BY <2>3 DEF X
<1>4. \A i \in 1..MaxInt : f[i] = 2 * f[i - 1]
    <2>1. \A i \in 1..MaxInt : f[i - 1] \in Nat
        BY <1>1
    <2> HIDE DEF step
    <2> QED
        BY <1>2, <1>3, <2>1
<1>5. Def(f)
    <2>1. \A i \in 0..MaxInt : f[i] = IF i = 0 THEN FirstTry ELSE 2 * f[i - 1]
        BY <1>1, <1>3, <1>4
    <2> QED
        BY <1>3, <2>1
<1>6. Doubling = CHOOSE g : Def(g)
    BY Zenon DEF Doubling
<1>7. Def(Doubling)
    <2> HIDE DEF Def
    <2> QED
        BY <1>5, <1>6, Zenon
<1>8. DOMAIN Doubling = 0..MaxInt /\ Doubling[0] = FirstTry
    BY <1>1, <1>7
<1>9. \A i \in 1..MaxInt : Doubling[i] = 2 * Doubling[i - 1]
    BY <1>1, <1>7
<1> DEFINE T == {i \in 0..MaxInt : Doubling[i] \in Nat}
<1>10. 0 \in T
    BY <1>1, <1>8
<1>11. \A i \in 0..(MaxInt - 1) : i \in T => i + 1 \in T
    BY <1>1, <1>9
<1>12. \A i \in 0..MaxInt : i \in T
    <2> HIDE DEF T
    <2> QED
        BY <1>1, <1>10, <1>11, IntervalInduction
<1>13. Doubling \in [0..MaxInt -> Nat]
    BY <1>7, <1>12
<1> QED
    BY <1>8, <1>9, <1>13

\* Below the first doubling that is no int there is no larger one.
LEMMA DoublingsBelow ==
    ASSUME NEW n \in 1..MaxInt
    PROVE  \A k \in 0..(n - 1) : 0 < Doubling[k] /\ 2 * Doubling[k] <= Doubling[n]
<1>1. MaxInt \in Nat /\ FirstTry \in Nat /\ FirstTry > 0
    BY GrowAssumption
<1>2. \A i \in 1..MaxInt : Doubling[i] = 2 * Doubling[i - 1] /\ Doubling[i] \in Nat /\ Doubling[i - 1] \in Nat
    BY <1>1, DoublingDef
<1> DEFINE T == {i \in 0..(n - 1) : 0 < Doubling[i]}
           U == {i \in 0..(n - 1) : 2 * Doubling[n - 1 - i] <= Doubling[n]}
           N == n - 1
<1>3. N \in Nat /\ n - 1 = N
    BY <1>1
<1>4. 0 \in T /\ \A i \in 0..(N - 1) : i \in T => i + 1 \in T
    BY <1>1, <1>2, DoublingDef
<1>5. 0 \in U
    BY <1>1, <1>2
<1>6. ASSUME NEW i \in 0..(N - 1), i \in U PROVE i + 1 \in U
    <2>1. n - 1 - i \in 1..MaxInt /\ n - 1 - (i + 1) = (n - 1 - i) - 1
        BY <1>1
    <2>2. Doubling[n - 1 - i] = 2 * Doubling[n - 1 - (i + 1)]
        BY <1>2, <2>1
    <2>3. Doubling[n - 1 - i] \in Nat /\ Doubling[n] \in Nat
        BY <1>2, <2>1
    <2> QED
        BY <1>6, <2>2, <2>3
<1>7. \A i \in 0..N : i \in T /\ i \in U
    <2> HIDE DEF T, U, N
    <2>1. \A i \in 0..N : i \in T
        BY <1>3, <1>4, IntervalInduction
    <2>2. \A i \in 0..N : i \in U
        BY <1>3, <1>5, <1>6, IntervalInduction
    <2> QED
        BY <2>1, <2>2
<1> SUFFICES ASSUME NEW k \in 0..(n - 1) PROVE 0 < Doubling[k] /\ 2 * Doubling[k] <= Doubling[n]
    OBVIOUS
<1>8. n - 1 - (n - 1 - k) = k /\ n - 1 - k \in 0..N /\ k \in 0..N
    BY <1>1
<1>9. n - 1 - k \in U /\ k \in T
    BY <1>7, <1>8
<1> QED
    BY <1>8, <1>9

\* What the loop variable can be: a doubling, or what is left of it in an int.
LoopVariable == \/ \E k \in 0..MaxInt : tried = Doubling[k] /\ 0 < tried /\ 2 * tried <= MaxInt + 1
                \/ tried \in {-MaxInt - 1, 0}

\* What grow_reallocate() is called with.
Request == request = "loop" => allocated < newLen /\ newLen <= MaxBuffer + MaxBy

GrowIInv == GrowTypeOK /\ Covered /\ Tight /\ Request /\ LoopVariable

\* The loop starts with a doubling that leaves room for another.
LEMMA FirstDoubling == FirstTry = Doubling[0] /\ 0 < FirstTry /\ 2 * FirstTry <= MaxInt + 1
<1>1. PICK n \in 1..MaxInt : Doubling[n] = MaxInt + 1
    BY DoublingAssumption
<1>2. 0 \in 0..(n - 1)
    BY GrowAssumption
<1> QED
    BY <1>1, <1>2, DoublingsBelow, DoublingDef

\* A doubling in the range of an int doubles to another one, or to the least int.
LEMMA NextDoubling ==
    ASSUME NEW k \in 0..MaxInt, NEW m, m = Doubling[k], 0 < m, 2 * m <= MaxInt + 1
    PROVE  \/ 2 * m = MaxInt + 1
           \/ \E j \in 0..MaxInt : 2 * m = Doubling[j] /\ 4 * m <= MaxInt + 1
<1>1. PICK n \in 1..MaxInt : Doubling[n] = MaxInt + 1
    BY DoublingAssumption
<1>2. MaxInt \in Nat /\ m \in Nat
    BY GrowAssumption, DoublingDef
<1>3. CASE k < n - 1
    <2>1. k + 1 \in 0..(n - 1) /\ k + 1 \in 1..MaxInt /\ (k + 1) - 1 = k
        BY <1>2, <1>3
    <2>2. Doubling[k + 1] = 2 * m
        BY <2>1, DoublingDef
    <2>3. 2 * Doubling[k + 1] <= MaxInt + 1
        BY <1>1, <2>1, DoublingsBelow
    <2> QED
        BY <1>2, <2>1, <2>2, <2>3
<1>4. CASE k = n - 1
    <2>1. k = n - 1 /\ Doubling[n] = 2 * Doubling[n - 1]
        BY <1>4, DoublingDef
    <2> QED
        BY <1>1, <2>1
<1>5. CASE k = n
    BY <1>1, <1>2, <1>5
<1>6. CASE k > n
    <2>1. k \in 1..MaxInt /\ n \in 0..(k - 1)
        BY <1>2, <1>6
    <2>2. 2 * Doubling[n] <= Doubling[k]
        BY <2>1, DoublingsBelow
    <2> QED
        BY <1>1, <1>2, <2>2
<1> QED
    BY <1>2, <1>3, <1>4, <1>5, <1>6

\* A new buffer.
LEMMA GrowInit == InitGrow => GrowIInv
<1> SUFFICES ASSUME InitGrow PROVE GrowIInv
    OBVIOUS
<1>1. LoopVariable
    BY FirstDoubling, GrowAssumption DEF InitGrow, LoopVariable
<1> QED
    BY <1>1, GrowAssumption DEF InitGrow, GrowIInv, GrowTypeOK, Covered, Tight, Request

\* Every step of grow() and grow_reallocate() keeps the invariant.
LEMMA GrowStep == GrowIInv /\ [NextGrow]_buffer => GrowIInv'
<1> SUFFICES ASSUME GrowIInv, [NextGrow]_buffer PROVE GrowIInv'
    OBVIOUS
<1> USE GrowAssumption
<1>1. ASSUME NEW by \in 0..MaxBy, Grow(by) PROVE GrowIInv'
    <2>1. LoopVariable'
        BY <1>1, FirstDoubling DEF Grow, GrowIInv, LoopVariable
    <2>2. Tight'
        BY <1>1, FirstDoubling DEF Grow, GrowIInv, GrowTypeOK, Covered, Tight, InReach
    <2> QED
        BY <1>1, <2>1, <2>2, FirstDoubling DEF Grow, GrowIInv, GrowTypeOK, Covered, Request
<1>2. CASE Double
    <2> DEFINE top == MaxInt + 1
    <2>1. /\ tried \in Int /\ newLen \in Nat /\ tried < newLen /\ top \in Nat /\ top > 1 /\ newLen < top
          /\ tried' = Twice(tried) /\ UNCHANGED <<used, allocated, request, newLen>>
        BY <1>2 DEF Double, GrowIInv, GrowTypeOK
    <2>2. InReach => tried > 0 /\ 2 * newLen <= top
        <3>1. InReach => newLen + newLen <= top /\ tried > 0
            BY <1>2 DEF Double, GrowIInv, Tight, InReach
        <3> QED
            BY <2>1, <3>1
    <2>3. CASE \E k \in 0..MaxInt : tried = Doubling[k] /\ 0 < tried /\ 2 * tried <= MaxInt + 1
        <3>1. PICK k \in 0..MaxInt : tried = Doubling[k] /\ 0 < tried /\ 2 * tried <= MaxInt + 1
            BY <2>3
        <3>2. CASE 2 * tried = MaxInt + 1
            <4>1. tried' = -MaxInt - 1 /\ ~InReach
                BY <2>1, <2>2, <3>2 DEF Twice
            <4>2. LoopVariable' /\ Tight'
                BY <2>1, <4>1 DEF LoopVariable, Tight, InReach
            <4> QED
                BY <2>1, <4>1, <4>2 DEF GrowIInv, GrowTypeOK, Covered, Request
        <3>3. CASE 2 * tried # MaxInt + 1
            <4>1. PICK j \in 0..MaxInt : 2 * tried = Doubling[j] /\ 4 * tried <= MaxInt + 1
                BY <3>1, <3>3, NextDoubling
            <4>2. tried' = 2 * tried /\ 0 < tried' /\ 2 * tried' <= MaxInt + 1 /\ tried' = Doubling[j]
                BY <2>1, <3>1, <4>1 DEF Twice
            <4>3. LoopVariable'
                BY <4>2 DEF LoopVariable
            <4>4. Tight'
                BY <2>1, <2>2, <4>2 DEF Tight, InReach
            <4> QED
                BY <2>1, <4>2, <4>3, <4>4 DEF GrowIInv, GrowTypeOK, Covered, Request
        <3> QED
            BY <3>2, <3>3
    <2>4. CASE tried \in {-MaxInt - 1, 0}
        <3>1. tried' = 0 /\ ~InReach
            BY <2>1, <2>2, <2>4 DEF Twice
        <3>2. LoopVariable' /\ Tight'
            BY <2>1, <3>1 DEF LoopVariable, Tight, InReach
        <3> QED
            BY <2>1, <3>1, <3>2 DEF GrowIInv, GrowTypeOK, Covered, Request
    <2> QED
        BY <2>3, <2>4 DEF GrowIInv, LoopVariable
<1>3. CASE Reallocate
    BY <1>3 DEF Reallocate, GrowIInv, GrowTypeOK, Covered, Tight, Request, LoopVariable
<1>4. CASE UNCHANGED buffer
    BY <1>4 DEF buffer, GrowIInv, GrowTypeOK, Covered, Tight, Request, LoopVariable, InReach
<1> QED
    BY <1>1, <1>2, <1>3, <1>4 DEF NextGrow, Loop

\* The invariant holds throughout.
THEOREM GrowInvariant == GrowSpec => []GrowIInv
BY GrowInit, GrowStep, PTL DEF GrowSpec

\* Lengths, sizes and the loop variable of grow_reallocate() stay in the range of an int.
THEOREM GrowTypeCorrect == GrowSpec => []GrowTypeOK
BY GrowInvariant, PTL DEF GrowIInv

\* grow() never writes past the allocation, nor allocates past BufferMaxSize.
THEOREM BufferCovered == GrowSpec => []Covered
BY GrowInvariant, PTL DEF GrowIInv

\* The doubling loop neither overflows nor overshoots for a length up to 2^30, and
\* overflows without having got to the length for every longer one.
THEOREM LoopTight == GrowSpec => []Tight
BY GrowInvariant, PTL DEF GrowIInv

\* grow_reallocate() only enlarges the buffer, to less than twice what is needed.
THEOREM AllocationLeast == GrowSpec => GrowsToLeast
<1>1. GrowIInv /\ [NextGrow]_buffer =>
        [allocated' # allocated => /\ newLen <= allocated' /\ allocated < allocated'
                                   /\ allocated' = FirstTry \/ allocated' < 2 * newLen]_buffer
    BY GrowAssumption
    DEF GrowIInv, GrowTypeOK, Tight, Request, NextGrow, Loop, Grow, Double, Reallocate, buffer
<1> QED
    BY <1>1, GrowInvariant, PTL DEF GrowSpec, GrowsToLeast

\* A request longer than 2^30 is never answered: no step leaves the loop with it.
THEOREM LoopEndless == GrowSpec => [][request = "loop" /\ ~InReach => UNCHANGED <<request, newLen>>]_buffer
<1>1. GrowIInv /\ [NextGrow]_buffer =>
        [request = "loop" /\ ~InReach => UNCHANGED <<request, newLen>>]_buffer
    BY GrowAssumption
    DEF GrowIInv, GrowTypeOK, Tight, NextGrow, Loop, Grow, Double, Reallocate, buffer
<1> QED
    BY <1>1, GrowInvariant, PTL DEF GrowSpec
=============================================================================
