-------------------------- MODULE RowToBsonProofs --------------------------
(* Proofs about row_to_bson, for rows of any shape and any number of calls:    *)
(* composite_to_bson keeps its pins; what is returned represents the row; and *)
(* the getters read the columns back from it.                                 *)
EXTENDS RowRoundTrip, DataInduction, FiniteSetTheorems, TLAPS

\* What is known of rows and the records in them.
LEMMA RowProps ==
    /\ Rows \subseteq Composites
    /\ \A r \in Composites :
           /\ r.desc \in Descs /\ Len(r.cols) \in Nat
           /\ \A i \in 1..Len(r.cols) : r.cols[i].typ = "record" /\ ~r.cols[i].null => r.cols[i].rec \in Composites
<1>1. \A r \in Composites : Len(r.cols) \in Nat
    <2> SUFFICES ASSUME NEW r \in Composites PROVE Len(r.cols) \in Nat
        OBVIOUS
    <2>1. r.cols \in Seq({r.cols[i] : i \in DOMAIN r.cols})
        BY RowAssumption, Zenon
    <2> QED
        BY <2>1
<1> QED
    BY <1>1, RowAssumption, Zenon

\* The activations in fr that work on a row of type d.
On(d, fr) == {k \in 1..Len(fr) : fr[k].comp.desc = d}

\* The invariant: pins and activations correspond.  It is inductive as it stands.
IInv == TypeOK /\ PinsMatchFrames

-----------------------------------------------------------------------------
(* Lemmas about the stack of activations *)

\* Activations are finitely many.
LEMMA OnFinite ==
    ASSUME NEW fr \in Seq(FrameSet), NEW d
    PROVE  IsFiniteSet(On(d, fr)) /\ Cardinality(On(d, fr)) \in Nat
<1>1. IsFiniteSet(1..Len(fr))
  BY FS_Interval
<1>2. On(d, fr) \subseteq 1..Len(fr)
  BY DEF On
<1>3. IsFiniteSet(On(d, fr))
  BY <1>1, <1>2, FS_Subset
<1> QED
  BY <1>3, FS_CardinalityType

\* A further activation counts for its own row type only.
LEMMA OnAppend ==
    ASSUME NEW fr \in Seq(FrameSet), NEW f \in FrameSet, NEW d
    PROVE  Cardinality(On(d, Append(fr, f))) =
               Cardinality(On(d, fr)) + (IF f.comp.desc = d THEN 1 ELSE 0)
<1> DEFINE n == Len(fr) + 1
           g == Append(fr, f)
<1>1. Len(g) = n /\ g[n] = f /\ (\A k \in 1..Len(fr) : g[k] = fr[k])
  OBVIOUS
<1>2. IsFiniteSet(On(d, fr)) /\ n \notin On(d, fr)
  <2>1. n \notin On(d, fr)
    BY DEF On
  <2> QED
    BY <2>1, OnFinite
<1>3. CASE f.comp.desc = d
  <2>1. On(d, g) = On(d, fr) \cup {n}
    BY <1>1, <1>3 DEF On
  <2>2. Cardinality(On(d, g)) = Cardinality(On(d, fr)) + 1
    BY <1>2, <2>1, FS_AddElement, ZenonT(30)
  <2> QED
    BY <1>3, <2>2
<1>4. CASE f.comp.desc # d
  <2>1. On(d, g) = On(d, fr)
    BY <1>1, <1>4 DEF On
  <2> QED
    BY <1>4, <2>1, OnFinite
<1> QED
  BY <1>3, <1>4

\* The end of the innermost activation takes its pin, and no other, off the count.
LEMMA OnOuter ==
    ASSUME NEW fr \in Seq(FrameSet), fr # <<>>, NEW d
    PROVE  /\ Outer(fr) \in Seq(FrameSet) /\ Len(Outer(fr)) = Len(fr) - 1
           /\ Cardinality(On(d, Outer(fr))) =
                 Cardinality(On(d, fr)) - (IF fr[Len(fr)].comp.desc = d THEN 1 ELSE 0)
<1> DEFINE n == Len(fr)
           g == Outer(fr)
<1>1. n \in Nat /\ n > 0
  OBVIOUS
<1>2. /\ g \in Seq(FrameSet) /\ Len(g) = n - 1
      /\ \A k \in 1..(n - 1) : g[k] = fr[k]
  <2>1. n - 1 \in 0..n
    BY <1>1
  <2>2. /\ SubSeq(fr, 1, n - 1) \in Seq(FrameSet)
        /\ Len(SubSeq(fr, 1, n - 1)) = n - 1
        /\ \A k \in 1..(n - 1) : SubSeq(fr, 1, n - 1)[k] = fr[k]
    BY <2>1, FrontOfSeq
  <2>3. g = SubSeq(fr, 1, n - 1)
    BY DEF Outer
  <2> HIDE DEF n, g
  <2> QED
    BY <1>1, <2>2, <2>3
<1>3. IsFiniteSet(On(d, fr))
  BY OnFinite
<1>4. CASE fr[n].comp.desc = d
  <2>1. On(d, g) = On(d, fr) \ {n} /\ n \in On(d, fr)
    BY <1>1, <1>2, <1>4 DEF On
  <2>2. Cardinality(On(d, fr) \ {n}) = Cardinality(On(d, fr)) - 1
    BY <1>3, <2>1, FS_RemoveElement, Zenon
  <2> QED
    BY <1>2, <1>4, <2>1, <2>2
<1>5. CASE fr[n].comp.desc # d
  <2>1. On(d, g) = On(d, fr)
    BY SMTT(30), <1>1, <1>2, <1>5 DEF On
  <2> QED
    BY <1>2, <1>5, <2>1, OnFinite
<1> QED
  BY <1>4, <1>5

\* Going on to the next column changes no pin.
LEMMA OnAdvance ==
    ASSUME NEW fr \in Seq(FrameSet), fr # <<>>, NEW d
    PROVE  LET g == [fr EXCEPT ![Len(fr)].i = @ + 1]
           IN  g \in Seq(FrameSet) /\ Len(g) = Len(fr) /\ On(d, g) = On(d, fr)
<1> DEFINE n == Len(fr)
           f == [fr[n] EXCEPT !.i = @ + 1]
           g == [fr EXCEPT ![n] = f]
<1>1. n \in 1..Len(fr) /\ fr[n] \in FrameSet
  OBVIOUS
<1>2. f \in FrameSet /\ f.comp = fr[n].comp
  BY <1>1 DEF FrameSet
<1>3. g \in Seq(FrameSet) /\ Len(g) = n /\ \A k \in 1..n : g[k] = IF k = n THEN f ELSE fr[k]
  BY <1>1, <1>2
<1>4. On(d, g) = On(d, fr)
  BY <1>2, <1>3 DEF On
<1>5. g = [fr EXCEPT ![Len(fr)].i = @ + 1]
  OBVIOUS
<1> QED
  BY <1>3, <1>4, <1>5

-----------------------------------------------------------------------------
(* Steps *)

\* The pins are the activations, counted by On.
LEMMA PinsAreCounted ==
    PinsMatchFrames <=> \A d \in Descs : pins[d] = Cardinality(On(d, frames))
BY DEF PinsMatchFrames, On

\* While a row is converted there is an activation, of a composite.
LEMMA TopType ==
    ASSUME TypeOK, phase = "convert"
    PROVE  /\ frames # <<>> /\ Len(frames) \in Nat \ {0}
           /\ Top \in FrameSet /\ Top.comp \in Composites /\ Top.i \in Nat \ {0}
           /\ Top.comp.desc \in Descs
<1>1. frames \in Seq(FrameSet) /\ frames # <<>>
  BY DEF TypeOK
<1>2. Len(frames) \in Nat \ {0}
  BY <1>1
<1>3. Top \in FrameSet
  BY <1>1, <1>2 DEF Top
<1>4. Top.comp \in Composites /\ Top.i \in Nat \ {0}
  BY <1>3 DEF FrameSet
<1> QED
  BY <1>1, <1>2, <1>3, <1>4, RowProps

\* Nothing is pinned at the beginning.
LEMMA InitIInv == Init => IInv
<1> SUFFICES ASSUME Init PROVE IInv
  OBVIOUS
<1>1. TypeOK
  BY DEF Init, TypeOK
<1>2. \A d \in Descs : On(d, frames) = {}
  BY DEF Init, On
<1>3. PinsMatchFrames
  BY <1>2, PinsAreCounted, FS_EmptySet DEF Init
<1> QED
  BY <1>1, <1>3 DEF IInv

\* After an error nothing is pinned and there is no activation.
LEMMA RaiseErrorIInv ==
    ASSUME IInv, RaiseError, calls' \in Nat
    PROVE  IInv'
<1>1. TypeOK'
  BY DEF IInv, RaiseError, TypeOK
<1>2. \A d \in Descs : On(d, <<>>) = {}
  BY DEF On
<1>3. \A d \in Descs : pins'[d] = Cardinality(On(d, frames'))
  BY <1>2, FS_EmptySet, Zenon DEF RaiseError
<1>4. PinsMatchFrames'
  BY <1>3 DEF PinsMatchFrames, On
<1> QED
  BY <1>1, <1>4 DEF IInv

\* A new activation comes with a pin.
LEMMA EnterIInv ==
    ASSUME IInv, NEW name, NEW comp \in Composites, Enter(name, comp), calls' \in Nat
    PROVE  IInv'
<1> DEFINE f == [comp |-> comp, i |-> 1]
<1>1. f \in FrameSet /\ f.comp.desc = comp.desc /\ comp.desc \in Descs
  <2>1. comp.desc \in Descs
    BY RowProps
  <2> QED
    BY <2>1 DEF FrameSet
<1>2. frames \in Seq(FrameSet) /\ frames' = Append(frames, f) /\ pins \in [Descs -> Nat]
  BY DEF IInv, TypeOK, Enter
<1>3. \A d \in Descs : pins[d] = Cardinality(On(d, frames))
  BY PinsAreCounted DEF IInv
<1>4. \A d \in Descs : pins'[d] = pins[d] + (IF comp.desc = d THEN 1 ELSE 0)
  BY <1>2 DEF Enter
<1>5. \A d \in Descs : pins'[d] = Cardinality(On(d, frames'))
  BY <1>1, <1>2, <1>3, <1>4, OnAppend
<1>6. PinsMatchFrames'
  BY <1>5 DEF PinsMatchFrames, On
<1>7. frames' \in Seq(FrameSet) /\ frames' # <<>>
  BY <1>1, <1>2
<1>8. pins' \in [Descs -> Nat]
  BY <1>1, <1>2 DEF Enter
<1>9. TypeOK'
  BY <1>7, <1>8 DEF Enter, IInv, TypeOK
<1> QED
  BY <1>6, <1>9 DEF IInv

\* Going on to the next column of a row leaves its pins alone.
LEMMA AdvanceIInv ==
    ASSUME IInv, phase = "convert", NEW els, Advance(frames, builders, els), UNCHANGED pins
    PROVE  IInv'
<1>1. frames \in Seq(FrameSet) /\ frames # <<>>
  BY TopType DEF IInv, TypeOK
<1>2. frames' = [frames EXCEPT ![Len(frames)].i = @ + 1]
  BY DEF Advance
<1>3. frames' \in Seq(FrameSet) /\ Len(frames') = Len(frames)
  BY <1>1, <1>2, OnAdvance
<1>4. \A d : On(d, frames') = On(d, frames)
  BY <1>1, <1>2, OnAdvance, Zenon
<1>5. \A d \in Descs : pins'[d] = Cardinality(On(d, frames'))
  BY <1>4, PinsAreCounted DEF IInv
<1>6. PinsMatchFrames'
  BY <1>5 DEF PinsMatchFrames, On
<1>7. TypeOK'
  BY <1>1, <1>3 DEF Advance, IInv, TypeOK
<1> QED
  BY <1>6, <1>7 DEF IInv

\* The end of a record in a row releases its descriptor and no other.
LEMMA LeaveRecordIInv ==
    ASSUME IInv, LeaveRecord
    PROVE  IInv'
<1> DEFINE g == Outer(frames)
<1>1. phase = "convert" /\ Len(frames) > 1
  BY DEF LeaveRecord, AtEnd
<1>2. frames \in Seq(FrameSet) /\ frames # <<>> /\ Top.comp.desc \in Descs /\ pins \in [Descs -> Nat]
  BY <1>1, TopType DEF IInv, TypeOK
<1>3. g \in Seq(FrameSet) /\ Len(g) = Len(frames) - 1
  BY <1>2, OnOuter
<1>4. g # <<>>
  BY <1>1, <1>2, <1>3
<1>5. frames' = [g EXCEPT ![Len(g)].i = @ + 1]
  BY DEF LeaveRecord, Advance
<1> HIDE DEF g
<1>6. /\ frames' \in Seq(FrameSet) /\ Len(frames') = Len(g)
      /\ \A d : On(d, frames') = On(d, g)
  BY <1>3, <1>4, <1>5, OnAdvance, Zenon
<1>7. \A d \in Descs : /\ pins[d] = Cardinality(On(d, frames))
                       /\ pins'[d] = pins[d] - (IF Top.comp.desc = d THEN 1 ELSE 0)
  BY <1>2, PinsAreCounted DEF IInv, LeaveRecord, Release
<1>8. \A d \in Descs : pins'[d] = Cardinality(On(d, frames'))
  BY SMTT(30), <1>2, <1>6, <1>7, OnOuter DEF Top, g
<1>9. PinsMatchFrames'
  BY <1>8 DEF PinsMatchFrames, On
<1>10. pins' \in [Descs -> Nat]
  <2>1. \A d \in Descs : pins'[d] \in Nat
    BY <1>6, <1>8, OnFinite, FS_CardinalityType
  <2> QED
    BY <1>2, <2>1 DEF LeaveRecord, Release
<1>11. frames' # <<>>
  BY <1>3, <1>4, <1>6
<1>12. TypeOK'
  BY <1>1, <1>6, <1>10, <1>11 DEF LeaveRecord, Advance, IInv, TypeOK
<1> QED
  BY <1>9, <1>12 DEF IInv

\* The end of the outermost row releases the last pin.
LEMMA ReturnIInv ==
    ASSUME IInv, Return
    PROVE  IInv'
<1>1. CASE RaiseError
  BY <1>1, RaiseErrorIInv DEF Return, IInv, TypeOK
<1>2. CASE phase' = "idle" /\ frames' = <<>> /\ Release /\ UNCHANGED lost
  <2>1. phase = "convert" /\ Len(frames) = 1 /\ UNCHANGED calls
    BY DEF Return, AtEnd
  <2>2. frames \in Seq(FrameSet) /\ frames # <<>> /\ Top.comp.desc \in Descs /\ pins \in [Descs -> Nat]
    BY <2>1, TopType DEF IInv, TypeOK
  <2>3. Outer(frames) \in Seq(FrameSet) /\ Len(Outer(frames)) = 0
    BY SMTT(30), <2>1, <2>2, OnOuter
  <2>4. \A d : On(d, frames') = {} /\ On(d, Outer(frames)) = {}
    BY <1>2, <2>3 DEF On
  <2>5. \A d \in Descs : /\ pins[d] = Cardinality(On(d, frames))
                         /\ pins'[d] = pins[d] - (IF Top.comp.desc = d THEN 1 ELSE 0)
    BY <1>2, <2>2, PinsAreCounted DEF IInv, Release
  <2>6. \A d \in Descs : pins'[d] = Cardinality(On(d, frames')) /\ pins'[d] \in Nat
    <3> SUFFICES ASSUME NEW d \in Descs
                 PROVE  pins'[d] = Cardinality(On(d, frames')) /\ pins'[d] \in Nat
      OBVIOUS
    <3>1. Cardinality(On(d, frames')) = 0 /\ Cardinality(On(d, Outer(frames))) = 0
      BY <2>4, FS_EmptySet
    <3>2. 0 = Cardinality(On(d, frames)) - (IF Top.comp.desc = d THEN 1 ELSE 0)
      BY <2>2, <3>1, OnOuter, Zenon DEF Top
    <3> QED
      BY <2>5, <3>1, <3>2
  <2>7. PinsMatchFrames'
    BY <2>6 DEF PinsMatchFrames, On
  <2>8. pins' \in [Descs -> Nat]
    BY <1>2, <2>2, <2>6 DEF Release
  <2>9. TypeOK'
    BY <1>2, <2>1, <2>8 DEF IInv, TypeOK
  <2> QED
    BY <2>7, <2>9 DEF IInv
<1> QED
  BY <1>1, <1>2 DEF Return

\* Every step keeps the inductive invariant.
LEMMA NextIInv ==
    ASSUME IInv, [Next]_vars
    PROVE  IInv'
<1> USE DEF IInv
<1>0. calls \in Nat
  BY DEF TypeOK
<1>1. CASE UNCHANGED vars
  BY <1>1 DEF vars, TypeOK, PinsMatchFrames
<1>2. ASSUME NEW r \in Rows, Call(r)
      PROVE  IInv'
  <2>1. r \in Composites /\ calls' \in Nat
    <3>1. r \in Composites
      BY RowProps
    <3>2. calls' = calls + 1
      BY <1>2, Zenon DEF Call
    <3> QED
      BY <1>0, <3>1, <3>2
  <2>2. CASE Enter(<<"">>, r)
    BY <2>1, <2>2, EnterIInv, Zenon
  <2>3. CASE RaiseError
    BY <2>1, <2>3, RaiseErrorIInv
  <2> QED
    BY <1>2, <2>2, <2>3, Zenon DEF Call
<1>3. CASE SkipDropped
  BY <1>3, AdvanceIInv DEF SkipDropped, AtColumn
<1>4. CASE AppendDatum
  <2>1. CASE RaiseError /\ UNCHANGED calls
    BY <1>0, <2>1, RaiseErrorIInv
  <2>2. ASSUME NEW e \in Elements(Column), Advance(frames, builders, <<e>>), UNCHANGED pins
        PROVE  IInv'
    BY <1>4, <2>2, AdvanceIInv DEF AppendDatum, AtColumn
  <2> QED
    BY <1>4, <2>1, <2>2, Zenon DEF AppendDatum
<1>5. CASE AppendRecord
  <2>1. Column.rec \in Composites /\ calls' \in Nat
    <3>1. phase = "convert" /\ Top.i <= Len(Top.comp.cols) /\ ~Column.null /\ Column.typ = "record"
      BY <1>5 DEF AppendRecord, AtColumn
    <3>2. Top.comp \in Composites /\ Top.i \in Nat \ {0}
      BY <3>1, TopType
    <3>3. Len(Top.comp.cols) \in Nat
      BY <3>2, RowProps
    <3>4. Top.i \in 1..Len(Top.comp.cols)
      BY <3>1, <3>2, <3>3
    <3>5. Column.rec \in Composites
      BY <3>1, <3>2, <3>4, RowProps DEF Column
    <3> QED
      BY <1>0, <1>5, <3>5 DEF AppendRecord
  <2>2. CASE Enter(Column.name, Column.rec)
    BY <2>1, <2>2, EnterIInv
  <2>3. CASE RaiseError
    BY <2>1, <2>3, RaiseErrorIInv
  <2> QED
    BY <1>5, <2>2, <2>3 DEF AppendRecord
<1>6. CASE LeaveRecord
  BY <1>6, LeaveRecordIInv
<1>7. CASE Return
  BY <1>7, ReturnIInv
<1>8. CASE BuilderThrows
  BY <1>8, TopType DEF BuilderThrows, TypeOK, PinsMatchFrames
<1> QED
  BY <1>1, <1>2, <1>3, <1>4, <1>5, <1>6, <1>7, <1>8 DEF Next, Step

-----------------------------------------------------------------------------
(* Theorems *)

\* The inductive invariant of row_to_bson's activations and pins.
THEOREM PinsInvariant == Spec => []IInv
BY InitIInv, NextIInv, PTL DEF Spec

\* Reference counts of row descriptors never become negative, and there is a
\* row under conversion whenever composite_to_bson runs.
THEOREM RowTypeCorrect == Spec => []TypeOK
BY PinsInvariant, PTL DEF IInv

\* Whatever rows are converted, however deep they nest, and wherever an error is
\* raised, each activation holds one pin and nothing is pinned between calls.
THEOREM PinsAreKept == Spec => []PinsMatchFrames
BY PinsInvariant, PTL DEF IInv

-----------------------------------------------------------------------------
(* Fields and columns *)

\* The place of a column goes up by one with every column that is not dropped.
LEMMA PlaceStep ==
    ASSUME NEW cols, Len(cols) \in Nat
    PROVE  /\ Place(cols, 0) = 0
           /\ \A n \in Nat : Place(cols, n) \in Nat
           /\ \A n \in 0..(Len(cols) - 1) :
                  Place(cols, n + 1) = Place(cols, n) + (IF cols[n + 1].dropped THEN 0 ELSE 1)
<1> DEFINE S(n) == {j \in Live(cols) : j <= n}
<1>1. ASSUME NEW n \in Nat PROVE IsFiniteSet(S(n)) /\ Cardinality(S(n)) \in Nat
    <2>1. IsFiniteSet(1..Len(cols)) /\ S(n) \subseteq 1..Len(cols)
        BY FS_Interval DEF Live
    <2>2. IsFiniteSet(S(n))
        BY <2>1, FS_Subset
    <2> QED
        BY <2>2, FS_CardinalityType
<1>2. S(0) = {}
    BY DEF Live
<1>3. Place(cols, 0) = 0
    BY <1>2, FS_EmptySet DEF Place
<1>4. ASSUME NEW n \in 0..(Len(cols) - 1)
      PROVE  Place(cols, n + 1) = Place(cols, n) + (IF cols[n + 1].dropped THEN 0 ELSE 1)
    <2>1. n \in Nat /\ n + 1 \in 1..Len(cols)
        OBVIOUS
    <2>2. CASE cols[n + 1].dropped
        <3>1. S(n + 1) = S(n)
            BY <2>1, <2>2 DEF Live
        <3> HIDE DEF S
        <3>2. Cardinality(S(n)) \in Nat
            BY <1>1, <2>1
        <3>3. Place(cols, n + 1) = Cardinality(S(n + 1)) /\ Place(cols, n) = Cardinality(S(n))
            BY DEF Place, S
        <3> QED
            BY <2>2, <3>1, <3>2, <3>3
    <2>3. CASE ~cols[n + 1].dropped
        <3>1. S(n + 1) = S(n) \cup {n + 1} /\ n + 1 \notin S(n)
            BY <2>1, <2>3 DEF Live
        <3>2. Place(cols, n + 1) = Cardinality(S(n + 1)) /\ Place(cols, n) = Cardinality(S(n))
            BY DEF Place
        <3> HIDE DEF S
        <3>3. IsFiniteSet(S(n)) /\ Cardinality(S(n)) \in Nat
            BY <1>1, <2>1
        <3>4. Cardinality(S(n + 1)) = Cardinality(S(n)) + 1
            BY <3>1, <3>3, FS_AddElement, Zenon
        <3> QED
            BY <2>3, <3>2, <3>4
    <2> QED
        BY <2>2, <2>3
<1> QED
    BY <1>1, <1>3, <1>4, Zenon DEF Place

\* The columns that are not dropped and the fields correspond one to one: the
\* places count from 1, and grow from one such column to the next.
LEMMA PlaceRange ==
    ASSUME NEW cols, Len(cols) \in Nat
    PROVE  /\ \A i \in Live(cols) : Place(cols, i) \in 1..Place(cols, Len(cols))
           /\ \A k \in 1..Place(cols, Len(cols)) : \E i \in Live(cols) : Place(cols, i) = k
<1> DEFINE N == Len(cols)
           P(n) == Place(cols, n)
           Low(n) == \A i \in Live(cols) : i <= n => P(i) \in 1..P(n)
           Onto(n) == \A k \in 1..P(n) : \E i \in Live(cols) : P(i) = k
           T == {n \in 0..N : Low(n) /\ Onto(n)}
<1>1. P(0) = 0 /\ (\A n \in Nat : P(n) \in Nat)
      /\ \A n \in 0..(N - 1) : P(n + 1) = P(n) + (IF cols[n + 1].dropped THEN 0 ELSE 1)
    BY PlaceStep
<1>2. \A i : i \in Live(cols) <=> i \in 1..N /\ ~cols[i].dropped
    BY DEF Live
<1> HIDE DEF P
<1>3. 0 \in T
    BY <1>1, <1>2
<1>4. ASSUME NEW n \in 0..(N - 1), n \in T PROVE n + 1 \in T
    <2>1. n \in Nat /\ n + 1 \in 1..N /\ n + 1 \in 0..N /\ P(n) \in Nat /\ P(n + 1) \in Nat
        BY <1>1
    <2>2. Low(n) /\ Onto(n)
        BY <1>4
    <2>0. /\ P(n + 1) = P(n) + (IF cols[n + 1].dropped THEN 0 ELSE 1)
          /\ n + 1 \in Live(cols) <=> ~cols[n + 1].dropped
        BY <1>1, <1>2, <2>1, Zenon
    <2>3. P(n + 1) = P(n) \/ (P(n + 1) = P(n) + 1 /\ n + 1 \in Live(cols))
        BY <2>0, <2>1
    <2>4. n + 1 \in Live(cols) => P(n + 1) = P(n) + 1
        BY <2>0, <2>1
    <2>5. Low(n + 1)
        <3> SUFFICES ASSUME NEW i \in Live(cols), i <= n + 1 PROVE P(i) \in 1..P(n + 1)
            OBVIOUS
        <3>1. i \in 1..N
            BY <1>2
        <3>2. CASE i = n + 1
            BY <2>1, <2>4, <3>2
        <3>3. CASE i <= n
            <4>1. P(i) \in 1..P(n)
                BY <2>2, <3>3
            <4> QED
                BY <2>1, <2>3, <4>1
        <3> QED
            BY <2>1, <3>1, <3>2, <3>3
    <2>6. Onto(n + 1)
        <3> SUFFICES ASSUME NEW k \in 1..P(n + 1) PROVE \E i \in Live(cols) : P(i) = k
            OBVIOUS
        <3>1. CASE k \in 1..P(n)
            BY <2>2, <3>1
        <3>2. CASE k \notin 1..P(n)
            BY <2>1, <2>3, <3>2
        <3> QED
            BY <3>1, <3>2
    <2> HIDE DEF Low, Onto
    <2> QED
        BY <2>1, <2>5, <2>6
<1> HIDE DEF T
<1>5. \A n \in 0..N : n \in T
    BY <1>3, <1>4, IntervalInduction
<1>6. Low(N) /\ Onto(N)
    <2> HIDE DEF Low, Onto
    <2> QED
        BY <1>5 DEF T
<1> QED
    BY <1>2, <1>6 DEF P

\* One more column: the places of the others stay.
LEMMA AppendPlaces ==
    ASSUME NEW X, NEW cols \in Seq(X), NEW c
    PROVE  LET d == Append(cols, c)
               n == Len(cols)
           IN  /\ n \in Nat /\ Len(d) = n + 1 /\ d[n + 1] = c /\ \A i \in 1..n : d[i] = cols[i]
               /\ \A i : i \in Live(d) <=> i \in Live(cols) \/ (i = n + 1 /\ ~c.dropped)
               /\ \A i : i \in Records(d) <=>
                      \/ i \in Records(cols)
                      \/ i = n + 1 /\ ~c.dropped /\ ~c.null /\ c.typ = "record"
               /\ \A i \in 0..n : Place(d, i) = Place(cols, i)
               /\ Place(d, n + 1) = Place(cols, n) + (IF c.dropped THEN 0 ELSE 1)
<1> DEFINE d == Append(cols, c)
           n == Len(cols)
<1>1. cols \in Seq(X \cup {c}) /\ c \in X \cup {c}
    OBVIOUS
<1>2. n \in Nat /\ Len(d) = n + 1 /\ d[n + 1] = c /\ \A i \in 1..n : d[i] = cols[i]
    BY <1>1
<1>3. \A i : i \in 1..(n + 1) <=> i \in 1..n \/ i = n + 1
    BY <1>2
<1>4. ~(n + 1 \in 1..n)
    BY <1>2
<1> HIDE DEF d, n
<1>5. \A i : i \in Live(d) <=> i \in Live(cols) \/ (i = n + 1 /\ ~c.dropped)
    <2>1. \A i : /\ i \in Live(d) <=> i \in 1..(n + 1) /\ ~d[i].dropped
                 /\ i \in Live(cols) <=> i \in 1..n /\ ~cols[i].dropped
        BY <1>2 DEF Live, n
    <2> QED
        BY <1>2, <1>3, <2>1, Zenon
<1>6. \A i : i \in Records(d) <=>
                 \/ i \in Records(cols)
                 \/ i = n + 1 /\ ~c.dropped /\ ~c.null /\ c.typ = "record"
    <2>1. \A i : /\ i \in Records(d) <=> i \in Live(d) /\ ~d[i].null /\ d[i].typ = "record"
                 /\ i \in Records(cols) <=> i \in Live(cols) /\ ~cols[i].null /\ cols[i].typ = "record"
        BY DEF Records
    <2>2. \A i \in Live(cols) : i \in 1..n
        BY DEF Live, n
    <2> QED
        BY <1>2, <1>5, <2>1, <2>2, Zenon
<1>7. ASSUME NEW i \in 0..n PROVE Place(d, i) = Place(cols, i)
    <2>1. ~(n + 1 <= i)
        BY <1>2
    <2>2. {j \in Live(d) : j <= i} = {j \in Live(cols) : j <= i}
        BY <1>5, <2>1, Zenon
    <2> QED
        BY <2>2, Zenon DEF Place
<1>8. Place(d, n + 1) = Place(cols, n) + (IF c.dropped THEN 0 ELSE 1)
    <2>1. n \in 0..(Len(d) - 1) /\ Len(d) \in Nat /\ n \in 0..n
        BY <1>2
    <2>2. Place(d, n + 1) = Place(d, n) + (IF d[n + 1].dropped THEN 0 ELSE 1)
        BY <2>1, PlaceStep, SMTT(30)
    <2> QED
        BY <1>2, <1>7, <2>1, <2>2
<1> QED
    BY <1>2, <1>5, <1>6, <1>7, <1>8, Zenon DEF d, n

\* A set of documents with the columns they come from, down to the records in
\* records: each matches, and what is inside it is in the set.
Faithful(R) ==
    \A p \in R : /\ Matches(p[1], p[2])
                 /\ \A i \in Records(p[2]) : <<p[1][Place(p[2], i)].sub, p[2][i].rec.cols>> \in R

\* doc represents cols, however deep the records go.
Rep(doc, cols) == \E R : Faithful(R) /\ <<doc, cols>> \in R

\* It does if it matches and the documents in it represent the records.
LEMMA RepUnfolds ==
    ASSUME NEW doc, NEW cols
    PROVE  Rep(doc, cols) <=>
               /\ Matches(doc, cols)
               /\ \A i \in Records(cols) : Rep(doc[Place(cols, i)].sub, cols[i].rec.cols)
<1> DEFINE sub(i) == <<doc[Place(cols, i)].sub, cols[i].rec.cols>>
           all(i) == CHOOSE R : Faithful(R) /\ sub(i) \in R
           Q == {<<doc, cols>>} \cup UNION {all(i) : i \in Records(cols)}
           root == <<doc, cols>>
<1>0. root[1] = doc /\ root[2] = cols
    OBVIOUS
<1>1. ASSUME Rep(doc, cols)
      PROVE  /\ Matches(doc, cols)
             /\ \A i \in Records(cols) : Rep(doc[Place(cols, i)].sub, cols[i].rec.cols)
    <2>1. PICK R : Faithful(R) /\ root \in R
        BY <1>1 DEF Rep
    <2> HIDE DEF root
    <2>2. /\ Matches(doc, cols)
          /\ \A i \in Records(cols) : <<doc[Place(cols, i)].sub, cols[i].rec.cols>> \in R
        BY <1>0, <2>1, Zenon DEF Faithful
    <2> QED
        BY <2>1, <2>2, Zenon DEF Rep
<1>2. ASSUME Matches(doc, cols),
             \A i \in Records(cols) : Rep(doc[Place(cols, i)].sub, cols[i].rec.cols)
      PROVE  Rep(doc, cols)
    <2>1. ASSUME NEW i \in Records(cols) PROVE Faithful(all(i)) /\ sub(i) \in all(i)
        <3>1. \E R : Faithful(R) /\ sub(i) \in R
            BY <1>2 DEF Rep
        <3> HIDE DEF sub
        <3> QED
            BY <3>1, Zenon
    <2> HIDE DEF all
    <2>2. \A i \in Records(cols) : all(i) \subseteq Q
        OBVIOUS
    <2>3. \A p \in Q : p = root \/ \E i \in Records(cols) : p \in all(i)
        OBVIOUS
    <2>4. root \in Q
        OBVIOUS
    <2> HIDE DEF Q
    <2>5. ASSUME NEW p \in Q
          PROVE  /\ Matches(p[1], p[2])
                 /\ \A i \in Records(p[2]) : <<p[1][Place(p[2], i)].sub, p[2][i].rec.cols>> \in Q
        <3>1. CASE p = root
            <4>1. \A i \in Records(cols) : sub(i) \in Q
                BY <2>1, <2>2, Zenon
            <4> HIDE DEF root
            <4>2. p[1] = doc /\ p[2] = cols
                BY <1>0, <3>1
            <4> QED
                BY <1>2, <4>1, <4>2, Zenon
        <3>2. CASE \E i \in Records(cols) : p \in all(i)
            <4>1. PICK j \in Records(cols) : p \in all(j)
                BY <3>2
            <4>2. Faithful(all(j)) /\ all(j) \subseteq Q
                BY <2>1, <2>2, Zenon
            <4> QED
                BY <4>1, <4>2, Zenon DEF Faithful
        <3> QED
            BY <2>3, <3>1, <3>2
    <2>6. Faithful(Q)
        BY <2>5, Zenon DEF Faithful
    <2> QED
        BY <2>4, <2>6 DEF Rep
<1> QED
    BY <1>1, <1>2

\* f is a field that column c becomes.
Fits(f, c) ==
    /\ f.name = c.name
    /\ IF ~c.null /\ c.typ = "record" THEN f.type = "object" ELSE f \in Elements(c)

\* Matches, in terms of it.
LEMMA MatchesFits ==
    ASSUME NEW doc, NEW cols
    PROVE  Matches(doc, cols) <=>
               /\ Len(doc) = Place(cols, Len(cols))
               /\ \A i \in Live(cols) : Fits(doc[Place(cols, i)], cols[i])
<1>1. \A i \in Live(cols) : i \in Records(cols) <=> ~cols[i].null /\ cols[i].typ = "record"
    BY DEF Records
<1> QED
    BY <1>1, Zenon DEF Matches, Fits

\* The empty document represents a row without columns.
LEMMA RepEmpty == Rep(<<>>, <<>>)
<1>1. Len(<<>>) = 0 /\ Live(<<>>) = {}
    BY DEF Live
<1>2. Records(<<>>) = {}
    BY <1>1 DEF Records
<1>3. Place(<<>>, Len(<<>>)) = 0
    <2>1. {j \in Live(<<>>) : j <= Len(<<>>)} = {}
        BY <1>1
    <2> QED
        BY <2>1, FS_EmptySet, Zenon DEF Place
<1>4. Matches(<<>>, <<>>)
    BY <1>1, <1>3, MatchesFits
<1> QED
    BY <1>2, <1>4, RepUnfolds, Zenon

\* A dropped column adds nothing.
LEMMA RepSkip ==
    ASSUME NEW X, NEW cols \in Seq(X), NEW c, NEW doc, Rep(doc, cols)
    PROVE  c.dropped => Rep(doc, Append(cols, c))
<1> DEFINE d == Append(cols, c)
           n == Len(cols)
<1>0. /\ n \in Nat /\ Len(d) = n + 1 /\ d[n + 1] = c /\ \A i \in 1..n : d[i] = cols[i]
      /\ \A i : i \in Live(d) <=> i \in Live(cols) \/ (i = n + 1 /\ ~c.dropped)
      /\ \A i : i \in Records(d) <=>
             \/ i \in Records(cols)
             \/ i = n + 1 /\ ~c.dropped /\ ~c.null /\ c.typ = "record"
      /\ \A i \in 0..n : Place(d, i) = Place(cols, i)
      /\ Place(d, n + 1) = Place(cols, n) + (IF c.dropped THEN 0 ELSE 1)
    BY AppendPlaces, Zenon
<1> HAVE c.dropped
<1>1. /\ n \in Nat /\ Len(d) = n + 1 /\ \A i \in 1..n : d[i] = cols[i]
      /\ Live(d) = Live(cols) /\ Records(d) = Records(cols)
      /\ \A i \in 0..n : Place(d, i) = Place(cols, i)
      /\ Place(d, n + 1) = Place(cols, n) + (IF c.dropped THEN 0 ELSE 1)
    <2>1. \A i : i \in Live(d) <=> i \in Live(cols)
        BY <1>0, Zenon
    <2>2. \A i : i \in Records(d) <=> i \in Records(cols)
        BY <1>0, Zenon
    <2> HIDE DEF d, n
    <2>3. Live(d) = Live(cols) /\ Records(d) = Records(cols)
        BY <2>1, <2>2, Zenon
    <2> QED
        BY <1>0, <2>3
<1>2. Matches(doc, cols) /\ \A i \in Records(cols) : Rep(doc[Place(cols, i)].sub, cols[i].rec.cols)
    BY RepUnfolds
<1>3. \A i \in Live(cols) : i \in 1..n /\ i \in 0..n
    BY DEF Live
<1>4. Place(cols, n) \in Nat
    BY PlaceStep, <1>1
<1> HIDE DEF d, n
<1>5. Place(d, Len(d)) = Place(cols, n)
    BY <1>1, <1>4
<1>6. Matches(doc, d)
    BY <1>1, <1>2, <1>3, <1>5, MatchesFits, Zenon DEF n
<1>7. \A i \in Records(cols) : i \in Live(cols)
    BY DEF Records
<1>8. \A i \in Records(d) : Rep(doc[Place(d, i)].sub, d[i].rec.cols)
    BY <1>1, <1>2, <1>3, <1>7, Zenon
<1> QED
    BY <1>6, <1>8, RepUnfolds, Zenon DEF d

\* Another column adds its field at the end.
LEMMA RepAppend ==
    ASSUME NEW X, NEW cols \in Seq(X), NEW c, NEW Y, NEW doc \in Seq(Y), NEW e,
           Rep(doc, cols), ~c.dropped, Fits(e, c),
           ~c.null /\ c.typ = "record" => Rep(e.sub, c.rec.cols)
    PROVE  Rep(doc \o <<e>>, Append(cols, c))
<1> DEFINE d == Append(cols, c)
           n == Len(cols)
           m == Len(doc)
           w == doc \o <<e>>
<1>1. /\ n \in Nat /\ Len(d) = n + 1 /\ d[n + 1] = c /\ \A i \in 1..n : d[i] = cols[i]
      /\ \A i : i \in Live(d) <=> i \in Live(cols) \/ (i = n + 1 /\ ~c.dropped)
      /\ \A i : i \in Records(d) <=>
             \/ i \in Records(cols)
             \/ i = n + 1 /\ ~c.dropped /\ ~c.null /\ c.typ = "record"
      /\ \A i \in 0..n : Place(d, i) = Place(cols, i)
      /\ Place(d, n + 1) = Place(cols, n) + (IF c.dropped THEN 0 ELSE 1)
    BY AppendPlaces, Zenon
<1>2. Matches(doc, cols) /\ \A i \in Records(cols) : Rep(doc[Place(cols, i)].sub, cols[i].rec.cols)
    BY RepUnfolds
<1>3. \A i \in Live(cols) : i \in 1..n /\ i \in 0..n
    BY DEF Live
<1>4. m = Place(cols, n) /\ m \in Nat
    BY <1>2, MatchesFits
<1>5. \A i \in Live(cols) : Place(cols, i) \in 1..m
    BY PlaceRange, <1>4
<1>6. Len(w) = m + 1 /\ w[m + 1] = e /\ \A k \in 1..m : w[k] = doc[k]
    <2>1. doc \in Seq(Y \cup {e}) /\ <<e>> \in Seq(Y \cup {e})
        OBVIOUS
    <2> QED
        BY <2>1
<1> HIDE DEF d, n, m, w
<1>7. Place(d, Len(d)) = m + 1 /\ Place(d, n + 1) = m + 1
    BY <1>1, <1>4
<1>8. \A i \in Live(d) : Fits(w[Place(d, i)], d[i])
    <2>1. \A i \in Live(cols) : Fits(doc[Place(cols, i)], cols[i])
        BY <1>2, MatchesFits
    <2>2. \A i \in Live(cols) : Fits(w[Place(d, i)], d[i])
        BY <1>1, <1>3, <1>5, <1>6, <2>1, Zenon
    <2>3. Fits(w[Place(d, n + 1)], d[n + 1])
        BY <1>1, <1>6, <1>7, Zenon
    <2> QED
        BY <1>1, <2>2, <2>3, Zenon
<1>9. Matches(w, d)
    BY <1>6, <1>7, <1>8, MatchesFits
<1>10. \A i \in Records(d) : Rep(w[Place(d, i)].sub, d[i].rec.cols)
    <2>1. \A i \in Records(cols) : i \in Live(cols)
        BY DEF Records
    <2>2. \A i \in Records(cols) : Rep(w[Place(d, i)].sub, d[i].rec.cols)
        BY <1>1, <1>2, <1>3, <1>5, <1>6, <2>1, Zenon
    <2>3. ~c.null /\ c.typ = "record" => Rep(w[Place(d, n + 1)].sub, d[n + 1].rec.cols)
        BY <1>1, <1>6, <1>7, Zenon
    <2> QED
        BY <1>1, <2>2, <2>3, Zenon
<1> QED
    BY <1>9, <1>10, RepUnfolds, Zenon DEF d, w

-----------------------------------------------------------------------------
(* The parts of a result *)

\* The whole result; the parts one level down; levels all the way.
Whole(doc, cols) == [doc |-> doc, cols |-> cols, name |-> <<>>]
Below(L, T) == \A x : x \in L <=> \E p \in T : x \in Parts(p)
IsLevels(f, doc, cols) == f[0] = {Whole(doc, cols)} /\ \A n \in 1..MaxNesting : Below(f[n], f[n - 1])

\* Levels builds them, whatever the document.
LEMMA LevelsProps ==
    ASSUME NEW doc, NEW cols
    PROVE  IsLevels(Levels(doc, cols), doc, cols)
<1> DEFINE N == MaxNesting
           d == Whole(doc, cols)
           U(T) == UNION {Parts(p) : p \in T}
           Body(f, n) == IF n = 0 THEN {d} ELSE U(f[n - 1])
           Eqn(f) == f = [n \in 0..N |-> Body(f, n)]
           levels == CHOOSE f : Eqn(f)
<1>1. Levels(doc, cols) = levels
    BY DEF Levels, Whole
<1>2. N \in Nat
    BY NestingAssumption
<1>3. \A T : Below(U(T), T)
    BY Zenon DEF Below
<1> HIDE DEF N, U, d
<1>4. \A f : Body(f, 0) = {d} /\ \A n \in 1..N : Body(f, n) = U(f[n - 1])
    BY <1>2
<1> HIDE DEF Body
<1> DEFINE Upto(k) == \E f : f[0] = {d} /\ \A n \in 1..k : f[n] = U(f[n - 1])
           K == {k \in 0..N : Upto(k)}
<1>5. 0 \in K
    <2> DEFINE f == [n \in 0..N |-> {d}]
    <2>1. f[0] = {d} /\ \A n \in 1..0 : f[n] = U(f[n - 1])
        BY <1>2
    <2>2. Upto(0)
        <3> HIDE DEF f
        <3> QED
            BY <2>1
    <2> HIDE DEF Upto
    <2> QED
        BY <1>2, <2>2
<1>6. ASSUME NEW k \in 0..(N - 1), k \in K PROVE k + 1 \in K
    <2>1. PICK f : f[0] = {d} /\ \A n \in 1..k : f[n] = U(f[n - 1])
        BY <1>6
    <2> DEFINE g == [n \in 0..N |-> IF n = k + 1 THEN U(f[k]) ELSE f[n]]
    <2>2. k \in 0..N /\ k + 1 \in 1..N /\ k + 1 \in 0..N
        BY <1>2
    <2>3. g[k + 1] = U(f[k]) /\ \A n \in 0..k : g[n] = f[n]
        <3>1. \A n \in 0..k : n \in 0..N /\ n # k + 1
            BY <1>2
        <3>2. \A n \in 0..N : g[n] = IF n = k + 1 THEN U(f[k]) ELSE f[n]
            OBVIOUS
        <3> HIDE DEF g
        <3> QED
            BY <2>2, <3>1, <3>2
    <2> HIDE DEF g
    <2>4. ASSUME NEW n \in 1..(k + 1) PROVE g[n] = U(g[n - 1])
        <3>1. CASE n = k + 1
            <4>1. n - 1 = k /\ k \in 0..k
                BY <2>2, <3>1
            <4> QED
                BY <2>3, <3>1, <4>1
        <3>2. CASE n # k + 1
            <4>1. n \in 1..k /\ n - 1 \in 0..k /\ n \in 0..k
                BY <2>2, <3>2
            <4> QED
                BY <2>1, <2>3, <4>1
        <3> QED
            BY <3>1, <3>2
    <2>5. g[0] = {d}
        BY <2>1, <2>2, <2>3
    <2>6. Upto(k + 1)
        BY <2>4, <2>5
    <2> HIDE DEF Upto
    <2> QED
        BY <2>2, <2>6
<1> HIDE DEF K
<1>7. \A k \in 0..N : k \in K
    BY <1>2, <1>5, <1>6, IntervalInduction
<1>8. PICK h : h[0] = {d} /\ \A n \in 1..N : h[n] = U(h[n - 1])
    <2>1. N \in K
        BY <1>2, <1>7
    <2> QED
        BY <2>1 DEF K
<1> DEFINE g == [n \in 0..N |-> h[n]]
<1>9. \A n \in 0..N : g[n] = h[n]
    OBVIOUS
<1>10. ASSUME NEW n \in 0..N PROVE g[n] = Body(g, n)
    <2> HIDE DEF g
    <2>1. CASE n = 0
        BY <1>2, <1>4, <1>8, <1>9, <2>1
    <2>2. CASE n # 0
        <3>1. n \in 1..N /\ n - 1 \in 0..N
            BY <1>2, <2>2
        <3>2. g[n] = U(g[n - 1])
            BY <1>8, <1>9, <3>1
        <3> QED
            BY <1>4, <3>1, <3>2
    <2> QED
        BY <2>1, <2>2
<1>11. Eqn(g)
    BY <1>10
<1>12. Eqn(levels)
    <2> HIDE DEF Eqn
    <2> QED
        BY <1>11, Zenon
<1>13. \A n \in 0..N : levels[n] = Body(levels, n)
    BY <1>12, Zenon
<1> HIDE DEF levels
<1>14. levels[0] = {d} /\ \A n \in 1..N : levels[n] = U(levels[n - 1])
    BY <1>2, <1>4, <1>13
<1>15. ASSUME NEW n \in 1..N PROVE Below(levels[n], levels[n - 1])
    BY <1>3, <1>14
<1> QED
    BY <1>1, <1>14, <1>15, Zenon DEF IsLevels, N, d

\* A part one level down is a record of its parent.
LEMMA PartProps ==
    ASSUME NEW p, NEW q \in Parts(p)
    PROVE  \E i \in Records(p.cols) :
               /\ q.doc = p.doc[Place(p.cols, i)].sub
               /\ q.cols = p.cols[i].rec.cols
               /\ q.name = p.name \o p.cols[i].name
<1> DEFINE part(i) == [doc |-> p.doc[Place(p.cols, i)].sub, cols |-> p.cols[i].rec.cols,
                       name |-> p.name \o p.cols[i].name]
<1>1. PICK i \in Records(p.cols) : q = part(i)
    BY Zenon DEF Parts
<1>2. /\ q.doc = p.doc[Place(p.cols, i)].sub
      /\ q.cols = p.cols[i].rec.cols
      /\ q.name = p.name \o p.cols[i].name
    BY <1>1, Zenon
<1> QED
    BY <1>2, Zenon

\* The parts of a document that represents a row match their records.
LEMMA RepRepresents ==
    ASSUME NEW doc, NEW cols, Rep(doc, cols)
    PROVE  Represents(doc, cols)
<1> DEFINE N == MaxNesting
           f == Levels(doc, cols)
           K == {n \in 0..N : \A p \in f[n] : Rep(p.doc, p.cols)}
<1>1. N \in Nat
    BY NestingAssumption
<1>2. f[0] = {Whole(doc, cols)} /\ \A n \in 1..N : Below(f[n], f[n - 1])
    BY LevelsProps DEF IsLevels
<1> HIDE DEF f, N
<1>3. 0 \in K
    <2>1. \A p \in f[0] : p.doc = doc /\ p.cols = cols
        BY <1>2 DEF Whole
    <2>2. \A p \in f[0] : Rep(p.doc, p.cols)
        BY <2>1, Zenon
    <2> QED
        BY <1>1, <2>2
<1>4. ASSUME NEW n \in 0..(N - 1), n \in K PROVE n + 1 \in K
    <2>1. n + 1 \in 0..N /\ n + 1 \in 1..N /\ n + 1 - 1 = n
        BY <1>1
    <2>2. ASSUME NEW q \in f[n + 1] PROVE Rep(q.doc, q.cols)
        <3>1. Below(f[n + 1], f[n])
            BY <1>2, <2>1
        <3>2. PICK p \in f[n] : q \in Parts(p)
            BY <3>1, Zenon DEF Below
        <3>3. PICK i \in Records(p.cols) : /\ q.doc = p.doc[Place(p.cols, i)].sub
                                           /\ q.cols = p.cols[i].rec.cols
                                           /\ q.name = p.name \o p.cols[i].name
            BY <3>2, PartProps, Zenon
        <3>4. Rep(p.doc, p.cols)
            BY <1>4
        <3> QED
            BY <3>3, <3>4, RepUnfolds
    <2> QED
        BY <2>1, <2>2
<1> HIDE DEF K
<1>5. \A n \in 0..N : n \in K
    BY <1>1, <1>3, <1>4, IntervalInduction
<1>6. \A n \in 0..N : \A p \in f[n] : Matches(p.doc, p.cols)
    BY <1>5, RepUnfolds DEF K
<1> QED
    BY <1>6, Zenon DEF Represents, f, N

-----------------------------------------------------------------------------
(* Activations and their builders *)

IsBuilder(b) == \E N, F : b \in [name : N, fields : Seq(F)]

\* The builder b of activation f has the columns the loop of f has passed.
Converted(f, b) ==
    /\ IsBuilder(b) /\ f.i <= Len(f.comp.cols) + 1
    /\ Rep(b.fields, SubSeq(f.comp.cols, 1, f.i - 1))

\* Activation g, with builder b, converts the record at which f has called it.
Hangs(f, g, b) ==
    /\ f.i \in Records(f.comp.cols)
    /\ g.comp = f.comp.cols[f.i].rec /\ b.name = f.comp.cols[f.i].name

Stack(fr, bs) ==
    /\ fr \in Seq(FrameSet) /\ (\E B : bs \in Seq(B)) /\ Len(bs) = Len(fr)
    /\ \A k \in 1..Len(fr) : Converted(fr[k], bs[k])
    /\ \A k \in 1..(Len(fr) - 1) : Hangs(fr[k], fr[k + 1], bs[k + 1])

\* The inductive invariant for what row_to_bson returns.
FInv ==
    /\ Stack(frames, builders)
    /\ \A p \in returned : p[1] \in Composites /\ Rep(p[2], p[1].cols)

\* The columns passed by the loop, one after the other.
LEMMA Passed ==
    ASSUME NEW r \in Composites
    PROVE  /\ SubSeq(r.cols, 1, 0) = <<>> /\ SubSeq(r.cols, 1, Len(r.cols)) = r.cols
           /\ Len(r.cols) \in Nat
           /\ \A i \in 1..Len(r.cols) :
                 /\ SubSeq(r.cols, 1, i) = Append(SubSeq(r.cols, 1, i - 1), r.cols[i])
                 /\ \E X : SubSeq(r.cols, 1, i - 1) \in Seq(X)
<1> DEFINE cols == r.cols
           X == {cols[i] : i \in DOMAIN cols}
<1>1. cols \in Seq(X)
    BY RowAssumption, Zenon
<1> HIDE DEF cols, X
<1>2. Len(cols) \in Nat
    BY <1>1
<1>3. SubSeq(cols, 1, 0) = <<>> /\ SubSeq(cols, 1, Len(cols)) = cols
    BY <1>1, <1>2, Fronts
<1>4. ASSUME NEW i \in 1..Len(cols)
      PROVE  /\ SubSeq(cols, 1, i) = Append(SubSeq(cols, 1, i - 1), cols[i])
             /\ SubSeq(cols, 1, i - 1) \in Seq(X)
    <2>1. SubSeq(cols, 1, i - 1) \in Seq(X) /\ cols[i] \in X /\ i \in Nat
        BY <1>1, <1>2
    <2>2. 1 \in 1..Len(cols) /\ i \in 1..Len(cols)
        BY <1>2
    <2>3. SubSeq(cols, 1, i) = SubSeq(cols, 1, i - 1) \o <<cols[i]>>
        BY <1>1, <2>2, Fronts
    <2>4. \A s \in Seq(X), x \in X : s \o <<x>> = Append(s, x)
        OBVIOUS
    <2> QED
        BY <2>1, <2>3, <2>4, Zenon
<1> QED
    BY <1>2, <1>3, <1>4, Zenon DEF cols

\* A turn of the loop in composite_to_bson: a dropped column adds nothing, any other
\* its field.
LEMMA ConvertedTurn ==
    ASSUME NEW f \in FrameSet, NEW b, Converted(f, b), f.i <= Len(f.comp.cols)
    PROVE  LET c == f.comp.cols[f.i]
               g == [f EXCEPT !.i = @ + 1]
           IN  /\ c.dropped => Converted(g, [b EXCEPT !.fields = @ \o <<>>])
               /\ \A e : /\ ~c.dropped /\ Fits(e, c)
                         /\ ~c.null /\ c.typ = "record" => Rep(e.sub, c.rec.cols)
                         => Converted(g, [b EXCEPT !.fields = @ \o <<e>>])
<1> DEFINE r == f.comp
           i == f.i
           c == f.comp.cols[f.i]
           g == [f EXCEPT !.i = @ + 1]
<1>1. r \in Composites /\ i \in Nat \ {0} /\ g.comp = r /\ g.i = i + 1
    BY DEF FrameSet
<1>2. Len(r.cols) \in Nat /\ i <= Len(r.cols) /\ r.cols[i] = c
    BY <1>1, RowProps
<1>3. i \in 1..Len(r.cols) /\ g.i <= Len(g.comp.cols) + 1 /\ g.i - 1 = i
    BY <1>1, <1>2
<1>4. PICK X : SubSeq(r.cols, 1, i - 1) \in Seq(X)
    BY <1>1, <1>3, Passed, Zenon
<1>5. SubSeq(r.cols, 1, i) = Append(SubSeq(r.cols, 1, i - 1), c)
    BY <1>1, <1>2, <1>3, Passed, Zenon
<1>6. IsBuilder(b) /\ Rep(b.fields, SubSeq(r.cols, 1, i - 1))
    BY DEF Converted
<1>7. PICK N, F : b \in [name : N, fields : Seq(F)]
    BY <1>6 DEF IsBuilder
<1>8. b.fields \in Seq(F)
    BY <1>7
<1> DEFINE new(x) == [b EXCEPT !.fields = @ \o x]
<1>9. \A x : /\ new(x).fields = b.fields \o x
             /\ \A H : b.fields \o x \in Seq(H) => new(x) \in [name : N, fields : Seq(H)]
    BY <1>7, Zenon
<1> HIDE DEF new, g, c, r, i
<1>10. ASSUME NEW x, NEW H, b.fields \o x \in Seq(H), Rep(b.fields \o x, SubSeq(r.cols, 1, i))
       PROVE  Converted(g, new(x))
    <2>1. IsBuilder(new(x))
        BY <1>9, <1>10, Zenon DEF IsBuilder
    <2>2. Rep(new(x).fields, SubSeq(g.comp.cols, 1, g.i - 1))
        BY <1>1, <1>3, <1>9, <1>10, Zenon
    <2> QED
        BY <1>3, <2>1, <2>2 DEF Converted
<1>11. c.dropped => Converted(g, new(<<>>))
    <2>1. b.fields \o <<>> = b.fields
        BY <1>8
    <2>2. c.dropped => Rep(b.fields, SubSeq(r.cols, 1, i))
        BY <1>4, <1>5, <1>6, RepSkip, Zenon
    <2> QED
        BY <1>8, <1>10, <2>1, <2>2, Zenon
<1>12. ASSUME NEW e, ~c.dropped, Fits(e, c),
              ~c.null /\ c.typ = "record" => Rep(e.sub, c.rec.cols)
       PROVE  Converted(g, new(<<e>>))
    <2>1. Rep(b.fields \o <<e>>, SubSeq(r.cols, 1, i))
        BY <1>4, <1>5, <1>6, <1>8, <1>12, RepAppend, Zenon
    <2>2. b.fields \o <<e>> \in Seq(F \cup {e})
        <3>1. b.fields \in Seq(F \cup {e}) /\ <<e>> \in Seq(F \cup {e})
            BY <1>8
        <3> QED
            BY <3>1
    <2> QED
        BY <1>10, <2>1, <2>2, Zenon
<1> QED
    BY <1>11, <1>12, Zenon DEF c, g, new

\* No activation, no builder.
LEMMA StackEmpty == Stack(<<>>, <<>>)
<1>1. <<>> \in Seq(FrameSet) /\ <<>> \in Seq({}) /\ Len(<<>>) = 0 /\ 1..0 = {} /\ 1..(0 - 1) = {}
    OBVIOUS
<1> QED
    BY <1>1 DEF Stack

\* composite_to_bson calls itself: the new activation has passed no column.
LEMMA StackEnter ==
    ASSUME NEW fr, NEW bs, Stack(fr, bs), NEW r \in Composites, NEW name,
           Len(fr) # 0 => /\ fr[Len(fr)].i \in Records(fr[Len(fr)].comp.cols)
                          /\ r = fr[Len(fr)].comp.cols[fr[Len(fr)].i].rec
                          /\ name = fr[Len(fr)].comp.cols[fr[Len(fr)].i].name
    PROVE  Stack(Append(fr, [comp |-> r, i |-> 1]), Append(bs, [name |-> name, fields |-> <<>>]))
<1> DEFINE n == Len(fr)
           f == [comp |-> r, i |-> 1]
           b == [name |-> name, fields |-> <<>>]
           gr == Append(fr, f)
           cs == Append(bs, b)
<1>1. /\ fr \in Seq(FrameSet) /\ Len(bs) = n /\ n \in Nat
      /\ \A k \in 1..n : Converted(fr[k], bs[k])
      /\ \A k \in 1..(n - 1) : Hangs(fr[k], fr[k + 1], bs[k + 1])
    BY DEF Stack
<1>2. PICK B : bs \in Seq(B)
    BY DEF Stack
<1>3. f \in FrameSet /\ f.comp = r /\ f.i = 1 /\ b.name = name /\ b.fields = <<>>
    BY DEF FrameSet
<1>4. IsBuilder(b)
    <2>1. b \in [name : {name}, fields : Seq({})]
        OBVIOUS
    <2> QED
        BY <2>1, Zenon DEF IsBuilder
<1> HIDE DEF f, b
<1>5. Converted(f, b)
    <2>1. f.i <= Len(f.comp.cols) + 1 /\ f.i - 1 = 0
        BY <1>3, RowProps
    <2>2. SubSeq(f.comp.cols, 1, f.i - 1) = <<>>
        BY <1>3, <2>1, Passed
    <2> QED
        BY <1>3, <1>4, <2>1, <2>2, RepEmpty, Zenon DEF Converted
<1>6. gr \in Seq(FrameSet) /\ Len(gr) = n + 1 /\ gr[n + 1] = f /\ \A k \in 1..n : gr[k] = fr[k]
    BY <1>1, <1>3
<1>7. cs \in Seq(B \cup {b}) /\ Len(cs) = n + 1 /\ cs[n + 1] = b /\ \A k \in 1..n : cs[k] = bs[k]
    <2>1. bs \in Seq(B \cup {b}) /\ b \in B \cup {b}
        BY <1>2
    <2> QED
        BY <1>1, <2>1
<1> HIDE DEF gr, cs
<1>8. \A k \in 1..(n + 1) : Converted(gr[k], cs[k])
    <2>1. \A k \in 1..(n + 1) : k \in 1..n \/ k = n + 1
        BY <1>1
    <2> QED
        BY <1>1, <1>5, <1>6, <1>7, <2>1, Zenon
<1>9. ASSUME NEW k \in 1..n PROVE Hangs(gr[k], gr[k + 1], cs[k + 1])
    <2>1. CASE k = n
        <3>1. n # 0
            BY <1>1
        <3>2. Hangs(fr[n], f, b)
            BY <1>3, <3>1, Zenon DEF Hangs, n
        <3> QED
            BY <1>6, <1>7, <2>1, <3>2, Zenon
    <2>2. CASE k # n
        <3>1. k \in 1..(n - 1) /\ k + 1 \in 1..n
            BY <1>1, <2>2
        <3> QED
            BY <1>1, <1>6, <1>7, <3>1, Zenon
    <2> QED
        BY <2>1, <2>2
<1>10. Len(gr) - 1 = n
    BY <1>1, <1>6
<1> QED
    BY <1>6, <1>7, <1>8, <1>9, <1>10, Zenon DEF Stack, gr, cs, f, b

\* The loop of the innermost activation goes on to the next column.
LEMMA StackTurn ==
    ASSUME NEW fr, NEW bs, NEW els, Stack(fr, bs), Len(fr) # 0,
           Converted([fr[Len(fr)] EXCEPT !.i = @ + 1], [bs[Len(bs)] EXCEPT !.fields = @ \o els])
    PROVE  Stack([fr EXCEPT ![Len(fr)].i = @ + 1], [bs EXCEPT ![Len(bs)].fields = @ \o els])
<1> DEFINE n == Len(fr)
           f == [fr[n] EXCEPT !.i = @ + 1]
           b == [bs[n] EXCEPT !.fields = @ \o els]
           gr == [fr EXCEPT ![n] = f]
           cs == [bs EXCEPT ![n] = b]
<1>1. /\ fr \in Seq(FrameSet) /\ Len(bs) = n /\ n \in Nat
      /\ \A k \in 1..n : Converted(fr[k], bs[k])
      /\ \A k \in 1..(n - 1) : Hangs(fr[k], fr[k + 1], bs[k + 1])
    BY DEF Stack
<1>2. PICK B : bs \in Seq(B)
    BY DEF Stack
<1>3. n \in 1..n /\ fr[n] \in FrameSet
    BY <1>1
<1>4. f \in FrameSet /\ f.comp = fr[n].comp
    BY <1>3 DEF FrameSet
<1>5. b.name = bs[n].name
    <2>1. IsBuilder(bs[n])
        BY <1>1, <1>3 DEF Converted
    <2>2. PICK N, F : bs[n] \in [name : N, fields : Seq(F)]
        BY <2>1 DEF IsBuilder
    <2> QED
        BY <2>2
<1>6. Converted(f, b)
    BY <1>1
<1>7. gr = [fr EXCEPT ![Len(fr)].i = @ + 1] /\ cs = [bs EXCEPT ![Len(bs)].fields = @ \o els]
    BY <1>1
<1> HIDE DEF f, b
<1>8. gr \in Seq(FrameSet) /\ Len(gr) = n /\ gr[n] = f /\ \A k \in 1..(n - 1) : gr[k] = fr[k]
    BY <1>1, <1>3, <1>4
<1>9. cs \in Seq(B \cup {b}) /\ Len(cs) = n /\ cs[n] = b /\ \A k \in 1..(n - 1) : cs[k] = bs[k]
    <2>1. bs \in Seq(B \cup {b}) /\ b \in B \cup {b}
        BY <1>2
    <2> QED
        BY <1>1, <1>3, <2>1
<1> HIDE DEF gr, cs
<1>10. \A k \in 1..n : Converted(gr[k], cs[k])
    <2>1. \A k \in 1..n : k \in 1..(n - 1) \/ k = n
        BY <1>1
    <2> QED
        BY <1>1, <1>6, <1>8, <1>9, <2>1, Zenon
<1>11. ASSUME NEW k \in 1..(n - 1) PROVE Hangs(gr[k], gr[k + 1], cs[k + 1])
    <2>1. Hangs(fr[k], fr[k + 1], bs[k + 1]) /\ gr[k] = fr[k]
        BY <1>1, <1>8
    <2>2. gr[k + 1].comp = fr[k + 1].comp /\ cs[k + 1].name = bs[k + 1].name
        <3>1. k + 1 \in 1..(n - 1) \/ k + 1 = n
            BY <1>1
        <3> QED
            BY <1>4, <1>5, <1>8, <1>9, <3>1, Zenon
    <2> QED
        BY <2>1, <2>2, Zenon DEF Hangs
<1>12. Stack(gr, cs)
    BY <1>8, <1>9, <1>10, <1>11, Zenon DEF Stack
<1> QED
    BY <1>7, <1>12, Zenon

\* Without its last activation a stack is one.
LEMMA StackLeave ==
    ASSUME NEW fr, NEW bs, Stack(fr, bs), Len(fr) # 0
    PROVE  /\ Stack(Outer(fr), Outer(bs)) /\ Len(Outer(fr)) = Len(fr) - 1 /\ Len(Outer(bs)) = Len(fr) - 1
           /\ \A k \in 1..(Len(fr) - 1) : Outer(fr)[k] = fr[k] /\ Outer(bs)[k] = bs[k]
<1> DEFINE n == Len(fr)
           m == n - 1
           gr == Outer(fr)
           cs == Outer(bs)
<1>1. /\ fr \in Seq(FrameSet) /\ Len(bs) = n /\ n \in Nat
      /\ \A k \in 1..n : Converted(fr[k], bs[k])
      /\ \A k \in 1..(n - 1) : Hangs(fr[k], fr[k + 1], bs[k + 1])
    BY DEF Stack
<1>2. PICK B : bs \in Seq(B)
    BY DEF Stack
<1>3. m \in Nat /\ m <= n /\ 1..m \subseteq 1..n
    BY <1>1
<1>4. gr \in Seq(FrameSet) /\ Len(gr) = m /\ \A k \in 1..m : gr[k] = fr[k]
    BY <1>1, <1>3 DEF Outer
<1>5. cs \in Seq(B) /\ Len(cs) = m /\ \A k \in 1..m : cs[k] = bs[k]
    BY <1>1, <1>2, <1>3 DEF Outer
<1> HIDE DEF gr, cs
<1>6. \A k \in 1..m : Converted(gr[k], cs[k])
    BY <1>1, <1>3, <1>4, <1>5, Zenon
<1>7. \A k \in 1..(m - 1) : Hangs(gr[k], gr[k + 1], cs[k + 1])
    <2>1. \A k \in 1..(m - 1) : k \in 1..m /\ k + 1 \in 1..m
        BY <1>3
    <2> QED
        BY <1>1, <1>4, <1>5, <2>1, Zenon
<1>8. Stack(gr, cs)
    BY <1>4, <1>5, <1>6, <1>7, Zenon DEF Stack
<1> QED
    BY <1>4, <1>5, <1>8, Zenon DEF gr, cs

-----------------------------------------------------------------------------
(* What datum_to_bson appends *)

\* The element of a column that is not a record, by its type.
LEMMA ElementProps ==
    ASSUME NEW c, NEW e \in Elements(c)
    PROVE  /\ c.null => e = Scalar(c.name, "null", <<>>)
           /\ ~c.null =>
                 /\ c.typ = "bool" => e = Scalar(c.name, "bool", c.v)
                 /\ c.typ = "char" => e = Scalar(c.name, "string", c.v)
                 /\ c.typ = "int8" => e = Scalar(c.name, "long", c.v)
                 /\ c.typ \in {"int2", "int4"} => e = Scalar(c.name, "int", c.v)
                 /\ c.typ \in {"float4", "float8"} => e = Scalar(c.name, "double", c.v)
                 /\ c.typ = "timestamp" => e = Scalar(c.name, "date", c.v)
                 /\ c.typ = "bson" => e = Embedded(c.name, "object", c.doc)
                 /\ c.typ \notin {"bool", "char", "int8", "int2", "int4", "float4", "float8", "timestamp", "bson"}
                       => \E b \in PastEnd \cup {0} : e = Scalar(c.name, "string", Append(c.v, b))
<1> DEFINE t == c.typ
           el(type, v) == {Scalar(c.name, type, v)}
           a1 == el("bool", c.v)
           a2 == el("string", c.v)
           a3 == el("long", c.v)
           a4 == el("int", c.v)
           a5 == UNION {el("string", Append(c.v, b)) : b \in PastEnd}
           a6 == el("double", c.v)
           a7 == el("date", c.v)
           a8 == {Embedded(c.name, "object", c.doc)}
           a9 == el("string", Append(c.v, 0))
           E == CASE t = "bool" -> a1 [] t = "char" -> a2 [] t = "int8" -> a3 [] t \in {"int2", "int4"} -> a4
                  [] t \in Text -> a5 [] t \in {"float4", "float8"} -> a6 [] t = "timestamp" -> a7
                  [] t = "bson" -> a8 [] OTHER -> a9
<1>1. Elements(c) = IF c.null THEN el("null", <<>>) ELSE E
    BY DEF Elements
<1>2. \A x \in a5 : \E b \in PastEnd : x = Scalar(c.name, "string", Append(c.v, b))
    OBVIOUS
<1>3. ~c.null => e \in E
    BY <1>1
<1> HIDE DEF t, a1, a2, a3, a4, a5, a6, a7, a8, a9
<1>4. /\ t = "bool" => E = a1
      /\ t = "char" => E = a2
      /\ t = "int8" => E = a3
      /\ t \in {"int2", "int4"} => E = a4
      /\ t \in {"float4", "float8"} => E = a6
      /\ t = "timestamp" => E = a7
      /\ t = "bson" => E = a8
      /\ t \in Text => E = a5
      /\ t \notin {"bool", "char", "int8", "int2", "int4", "float4", "float8", "timestamp", "bson"} \cup Text => E = a9
    BY DEF Text
<1> HIDE DEF E
<1>5. c.null => e = Scalar(c.name, "null", <<>>)
    BY <1>1
<1>6. ~c.null =>
          /\ c.typ = "bool" => e = Scalar(c.name, "bool", c.v)
          /\ c.typ = "char" => e = Scalar(c.name, "string", c.v)
          /\ c.typ = "int8" => e = Scalar(c.name, "long", c.v)
          /\ c.typ \in {"int2", "int4"} => e = Scalar(c.name, "int", c.v)
          /\ c.typ \in {"float4", "float8"} => e = Scalar(c.name, "double", c.v)
          /\ c.typ = "timestamp" => e = Scalar(c.name, "date", c.v)
          /\ c.typ = "bson" => e = Embedded(c.name, "object", c.doc)
    BY <1>3, <1>4 DEF t, a1, a2, a3, a4, a6, a7, a8
<1>7. ASSUME ~c.null, t \notin {"bool", "char", "int8", "int2", "int4", "float4", "float8", "timestamp", "bson"}
      PROVE  \E b \in PastEnd \cup {0} : e = Scalar(c.name, "string", Append(c.v, b))
    <2>1. CASE t \in Text
        <3>1. e \in a5
            BY <1>3, <1>4, <1>7, <2>1
        <3> QED
            BY <1>2, <3>1, Zenon
    <2>2. CASE t \notin Text
        <3>1. e \in a9
            BY <1>3, <1>4, <1>7, <2>2
        <3>2. e = Scalar(c.name, "string", Append(c.v, 0))
            BY <3>1 DEF a9
        <3> QED
            BY <3>2, Zenon
    <2> QED
        BY <2>1, <2>2
<1> QED
    BY <1>5, <1>6, <1>7 DEF t

\* It is a field for the column.
LEMMA ElementFits ==
    ASSUME NEW c, NEW e \in Elements(c), c.null \/ c.typ # "record"
    PROVE  Fits(e, c)
<1>1. e.name = c.name
    <2>1. CASE c.null
        BY <2>1, ElementProps DEF Scalar
    <2>2. CASE ~c.null /\ c.typ = "bson"
        BY <2>2, ElementProps DEF Embedded
    <2>3. CASE ~c.null /\ c.typ # "bson"
        <3>1. \E type, v : e = Scalar(c.name, type, v)
            BY <2>3, ElementProps, Zenon
        <3> QED
            BY <3>1 DEF Scalar
    <2> QED
        BY <2>1, <2>2, <2>3
<1> QED
    BY <1>1 DEF Fits

-----------------------------------------------------------------------------
(* The documents and the steps *)

\* Nothing is converted at the beginning.
LEMMA InitFInv == Init => FInv
<1> SUFFICES ASSUME Init PROVE FInv
    OBVIOUS
<1>1. frames = <<>> /\ builders = <<>> /\ returned = {}
    BY DEF Init
<1> QED
    BY <1>1, StackEmpty DEF FInv

\* The innermost activation and its builder.
LEMMA TopProps ==
    ASSUME TypeOK, FInv, phase = "convert"
    PROVE  /\ Stack(frames, builders) /\ Len(frames) \in Nat \ {0} /\ Len(builders) = Len(frames)
           /\ Top \in FrameSet /\ Top.comp \in Composites /\ Top.i \in Nat \ {0}
           /\ Converted(Top, Builder) /\ Len(Top.comp.cols) \in Nat
           /\ AtColumn => Top.i \in 1..Len(Top.comp.cols)
           /\ AtEnd => Rep(Builder.fields, Top.comp.cols)
<1>1. /\ Stack(frames, builders) /\ Len(frames) \in Nat \ {0} /\ Len(builders) = Len(frames)
      /\ Top \in FrameSet /\ Top.comp \in Composites /\ Top.i \in Nat \ {0}
    BY TopType DEF FInv, Stack
<1>2. Converted(Top, Builder)
    <2>1. Len(frames) \in 1..Len(frames)
        BY <1>1
    <2> QED
        BY <1>1, <2>1, Zenon DEF Stack, Top, Builder
<1>3. Len(Top.comp.cols) \in Nat
    BY <1>1, RowProps
<1>4. AtColumn => Top.i \in 1..Len(Top.comp.cols)
    BY <1>1, <1>3 DEF AtColumn
<1>5. ASSUME AtEnd PROVE Rep(Builder.fields, Top.comp.cols)
    <2>1. Top.i - 1 = Len(Top.comp.cols)
        BY <1>1, <1>2, <1>3, <1>5 DEF AtEnd, Converted
    <2>2. SubSeq(Top.comp.cols, 1, Top.i - 1) = Top.comp.cols
        BY <1>1, <2>1, Passed
    <2> QED
        BY <1>2, <2>2, Zenon DEF Converted
<1> QED
    BY <1>1, <1>2, <1>3, <1>4, <1>5, SMTT(30)

\* An error unwinds everything.
LEMMA RaiseErrorFInv ==
    ASSUME FInv, RaiseError
    PROVE  FInv'
<1>1. frames' = <<>> /\ builders' = <<>> /\ returned' = returned
    BY DEF RaiseError
<1>2. Stack(frames', builders')
    BY <1>1, StackEmpty
<1> QED
    BY <1>1, <1>2, Zenon DEF FInv

\* A new activation: the first, or one for the record the innermost has come to.
LEMMA EnterFInv ==
    ASSUME FInv, NEW r \in Composites, NEW name, Enter(name, r),
           Len(frames) # 0 => /\ Top.i \in Records(Top.comp.cols)
                              /\ r = Column.rec /\ name = Column.name
    PROVE  FInv'
<1>1. /\ frames' = Append(frames, [comp |-> r, i |-> 1])
      /\ builders' = Append(builders, [name |-> name, fields |-> <<>>]) /\ returned' = returned
    BY DEF Enter
<1>2. Stack(frames, builders)
    BY DEF FInv
<1>3. Stack(frames', builders')
    BY <1>1, <1>2, StackEnter, Zenon DEF Top, Column
<1> QED
    BY <1>1, <1>3, Zenon DEF FInv

\* The innermost loop goes on.
LEMMA TurnFInv ==
    ASSUME TypeOK, FInv, phase = "convert", NEW els, Advance(frames, builders, els),
           Converted([Top EXCEPT !.i = @ + 1], [Builder EXCEPT !.fields = @ \o els])
    PROVE  FInv'
<1>1. /\ frames' = [frames EXCEPT ![Len(frames)].i = @ + 1]
      /\ builders' = [builders EXCEPT ![Len(builders)].fields = @ \o els] /\ returned' = returned
    BY DEF Advance
<1>2. Stack(frames, builders) /\ Len(frames) # 0
    BY TopProps
<1>3. Stack(frames', builders')
    <2>1. Converted([frames[Len(frames)] EXCEPT !.i = @ + 1], [builders[Len(builders)] EXCEPT !.fields = @ \o els])
        BY DEF Top, Builder
    <2> QED
        BY <1>1, <1>2, <2>1, StackTurn, Zenon
<1> QED
    BY <1>1, <1>3, Zenon DEF FInv

\* The end of a record: its document is the field of the column that holds it.
LEMMA LeaveRecordFInv ==
    ASSUME TypeOK, FInv, LeaveRecord
    PROVE  FInv'
<1> DEFINE n == Len(frames)
           m == n - 1
           gr == Outer(frames)
           cs == Outer(builders)
           f == gr[m]
           c == f.comp.cols[f.i]
           e == Embedded(Builder.name, "object", Builder.fields)
<1>1. phase = "convert" /\ AtEnd /\ n > 1 /\ Advance(gr, cs, <<e>>)
    BY DEF LeaveRecord, AtEnd
<1>2. /\ Stack(frames, builders) /\ n \in Nat \ {0} /\ Len(builders) = n
      /\ Rep(Builder.fields, Top.comp.cols)
    BY <1>1, TopProps
<1>3. /\ Stack(gr, cs) /\ Len(gr) = m /\ Len(cs) = m
      /\ \A k \in 1..m : gr[k] = frames[k] /\ cs[k] = builders[k]
    BY <1>2, StackLeave
<1>4. m \in 1..m /\ m + 1 = n /\ m \in 1..(n - 1) /\ Len(gr) # 0
    BY <1>1, <1>2, <1>3
<1>5. Hangs(f, Top, Builder)
    <2>1. Hangs(frames[m], frames[m + 1], builders[m + 1])
        BY <1>2, <1>4, Zenon DEF Stack
    <2>2. f = frames[m] /\ Top = frames[m + 1] /\ Builder = builders[m + 1]
        BY <1>2, <1>3, <1>4 DEF Top, Builder
    <2> QED
        BY <2>1, <2>2, Zenon
<1>6. Converted(f, cs[m]) /\ f \in FrameSet
    BY <1>3, <1>4 DEF Stack
<1>7. e.name = Builder.name /\ e.type = "object" /\ e.sub = Builder.fields
    BY SMTT(30) DEF Embedded
<1> HIDE DEF e, gr, cs
<1>8. /\ f.i \in Live(f.comp.cols) /\ ~c.null /\ c.typ = "record"
      /\ Top.comp = c.rec /\ Builder.name = c.name
    BY <1>5, SMTT(30) DEF Hangs, Records
<1>9. f.i \in 1..Len(f.comp.cols) /\ ~c.dropped
    BY <1>8 DEF Live
<1>10. f.i <= Len(f.comp.cols)
    BY <1>6, <1>9, RowProps DEF FrameSet
<1>11. Fits(e, c) /\ Rep(e.sub, c.rec.cols)
    BY <1>2, <1>7, <1>8, Zenon DEF Fits
<1>12. Converted([f EXCEPT !.i = @ + 1], [cs[m] EXCEPT !.fields = @ \o <<e>>])
    <2> HIDE DEF f
    <2> QED
        BY <1>6, <1>9, <1>10, <1>11, ConvertedTurn, Zenon
<1>13. /\ frames' = [gr EXCEPT ![Len(gr)].i = @ + 1]
       /\ builders' = [cs EXCEPT ![Len(cs)].fields = @ \o <<e>>] /\ returned' = returned
    BY <1>1 DEF Advance
<1>14. Stack(frames', builders')
    BY <1>3, <1>4, <1>12, <1>13, StackTurn, Zenon
<1> QED
    BY <1>13, <1>14, Zenon DEF FInv

\* The end of the row: what is returned represents it.
LEMMA ReturnFInv ==
    ASSUME TypeOK, FInv, Return
    PROVE  FInv'
<1>1. CASE RaiseError
    BY <1>1, RaiseErrorFInv
<1>2. CASE /\ frames' = <<>> /\ builders' = <<>>
           /\ returned' = returned \cup {<<Top.comp, Builder.fields>>}
    <2> DEFINE p == <<Top.comp, Builder.fields>>
    <2>1. phase = "convert" /\ AtEnd
        BY DEF Return, AtEnd
    <2>2. p[1] = Top.comp /\ p[2] = Builder.fields
        OBVIOUS
    <2>3. p[1] \in Composites /\ Rep(p[2], p[1].cols)
        BY <2>1, <2>2, TopProps
    <2>4. \A x \in returned' : x \in returned \/ x = p
        BY <1>2
    <2> HIDE DEF p
    <2>5. \A x \in returned' : x[1] \in Composites /\ Rep(x[2], x[1].cols)
        BY <2>3, <2>4, Zenon DEF FInv
    <2>6. Stack(frames', builders')
        BY <1>2, StackEmpty
    <2> QED
        BY <2>5, <2>6, Zenon DEF FInv
<1> QED
    BY <1>1, <1>2 DEF Return

\* Every step keeps the documents faithful to the rows.
LEMMA NextFInv ==
    ASSUME TypeOK, FInv, [Next]_vars
    PROVE  FInv'
<1>1. CASE UNCHANGED vars
    <2>1. frames' = frames /\ builders' = builders /\ returned' = returned
        BY <1>1 DEF vars
    <2> QED
        BY <2>1, Zenon DEF FInv
<1>2. ASSUME NEW r \in Rows, Call(r) PROVE FInv'
    <2>1. r \in Composites /\ frames = <<>>
        BY <1>2, RowProps, Zenon DEF Call, TypeOK
    <2>2. Len(frames) = 0
        BY <2>1
    <2>3. CASE Enter(<<"">>, r)
        BY <2>1, <2>2, <2>3, EnterFInv, Zenon
    <2>4. CASE RaiseError
        BY <2>4, RaiseErrorFInv
    <2> QED
        BY <1>2, <2>3, <2>4, Zenon DEF Call
<1>3. CASE SkipDropped
    <2>1. phase = "convert" /\ AtColumn /\ Column.dropped /\ Advance(frames, builders, <<>>)
        BY <1>3 DEF SkipDropped, AtColumn
    <2>2. Top \in FrameSet /\ Converted(Top, Builder) /\ Top.i <= Len(Top.comp.cols)
        BY <2>1, TopProps DEF AtColumn
    <2>3. Converted([Top EXCEPT !.i = @ + 1], [Builder EXCEPT !.fields = @ \o <<>>])
        BY <2>1, <2>2, ConvertedTurn, Zenon DEF Column
    <2> QED
        BY <2>1, <2>3, TurnFInv, Zenon
<1>4. CASE AppendDatum
    <2>1. CASE RaiseError
        BY <2>1, RaiseErrorFInv
    <2>2. ASSUME NEW e \in Elements(Column), Advance(frames, builders, <<e>>) PROVE FInv'
        <3>1. /\ phase = "convert" /\ AtColumn /\ ~Column.dropped
              /\ Column.null \/ Column.typ # "record"
            BY <1>4 DEF AppendDatum, AtColumn
        <3>2. Top \in FrameSet /\ Converted(Top, Builder) /\ Top.i <= Len(Top.comp.cols)
            BY <3>1, TopProps DEF AtColumn
        <3>3. Fits(e, Column)
            BY <3>1, ElementFits
        <3>4. Converted([Top EXCEPT !.i = @ + 1], [Builder EXCEPT !.fields = @ \o <<e>>])
            BY <3>1, <3>2, <3>3, ConvertedTurn, Zenon DEF Column
        <3> QED
            BY <2>2, <3>1, <3>4, TurnFInv, Zenon
    <2> QED
        BY <1>4, <2>1, <2>2, Zenon DEF AppendDatum
<1>5. CASE AppendRecord
    <2>1. /\ phase = "convert" /\ AtColumn /\ ~Column.dropped /\ ~Column.null /\ Column.typ = "record"
        BY <1>5 DEF AppendRecord, AtColumn
    <2>2. Top.comp \in Composites /\ Top.i \in 1..Len(Top.comp.cols)
        BY <2>1, TopProps
    <2>3. Top.i \in Records(Top.comp.cols)
        BY <2>1, <2>2 DEF Records, Live, Column
    <2>4. Column.rec \in Composites
        BY <2>1, <2>2, RowProps DEF Column
    <2>5. CASE Enter(Column.name, Column.rec)
        BY <2>3, <2>4, <2>5, EnterFInv
    <2>6. CASE RaiseError
        BY <2>6, RaiseErrorFInv
    <2> QED
        BY <1>5, <2>5, <2>6 DEF AppendRecord
<1>6. CASE LeaveRecord
    BY <1>6, LeaveRecordFInv
<1>7. CASE Return
    BY <1>7, ReturnFInv
<1>8. CASE BuilderThrows
    <2>1. frames' = frames /\ builders' = builders /\ returned' = returned
        BY <1>8 DEF BuilderThrows
    <2> QED
        BY <2>1, Zenon DEF FInv
<1> QED
    BY <1>1, <1>2, <1>3, <1>4, <1>5, <1>6, <1>7, <1>8, SMTT(30) DEF Next, Step

\* The invariant is enough for the property.
LEMMA FInvFaithful == FInv => RowFaithful
<1> SUFFICES ASSUME FInv PROVE RowFaithful
    OBVIOUS
<1>1. \A p \in returned : Represents(p[2], p[1].cols)
    BY RepRepresents, Zenon DEF FInv
<1>2. ASSUME NEW k \in 1..Len(frames)
      PROVE  Represents(builders[k].fields, SubSeq(frames[k].comp.cols, 1, frames[k].i - 1))
    <2>1. Converted(frames[k], builders[k])
        BY Zenon DEF FInv, Stack
    <2> QED
        BY <2>1, RepRepresents, Zenon DEF Converted
<1> QED
    BY <1>1, <1>2, Zenon DEF RowFaithful

-----------------------------------------------------------------------------
(* Theorems about the documents *)

\* The inductive invariant of activations, builders and results.
THEOREM DocumentsInvariant == Spec => []FInv
<1>1. TypeOK /\ FInv /\ [Next]_vars => FInv'
    BY NextFInv
<1> QED
    BY <1>1, InitFInv, RowTypeCorrect, PTL DEF Spec

\* For rows of any shape, with dropped columns, NULLs and records nested to any
\* depth, and any errors in earlier calls: each builder of composite_to_bson has
\* exactly the columns its loop has passed, and what row_to_bson returns represents
\* the row it was called with.
THEOREM RowsAreFaithful == Spec => []RowFaithful
BY DocumentsInvariant, FInvFaithful, PTL

-----------------------------------------------------------------------------
(* Looking fields up *)

\* The walk of getFieldDotted goes from each document into the next.
LEMMA WalkUnfolds ==
    ASSUME NEW doc, NEW X, NEW name \in Seq(X)
    PROVE  /\ Walk(doc, name)[0] = doc
           /\ \A k \in 1..Len(name) : Walk(doc, name)[k] = GetObjectField(Walk(doc, name)[k - 1], name[k])
<1> DEFINE N == Len(name)
           Body(f, k) == IF k = 0 THEN doc ELSE GetObjectField(f[k - 1], name[k])
           Eqn(f) == f = [k \in 0..N |-> Body(f, k)]
           at == CHOOSE f : Eqn(f)
           Go(x, k) == GetObjectField(x, name[k])
<1>1. Walk(doc, name) = at
    BY DEF Walk
<1>2. N \in Nat
    OBVIOUS
<1> HIDE DEF N
<1>3. \A f : Body(f, 0) = doc /\ \A k \in 1..N : Body(f, k) = Go(f[k - 1], k)
    BY <1>2
<1> HIDE DEF Body, Go
<1> DEFINE Upto(m) == \E f : f[0] = doc /\ \A k \in 1..m : f[k] = Go(f[k - 1], k)
           K == {m \in 0..N : Upto(m)}
<1>4. 0 \in K
    <2> DEFINE f == [k \in 0..N |-> doc]
    <2>1. f[0] = doc /\ \A k \in 1..0 : f[k] = Go(f[k - 1], k)
        BY <1>2
    <2>2. Upto(0)
        <3> HIDE DEF f
        <3> QED
            BY <2>1
    <2> HIDE DEF Upto
    <2> QED
        BY <1>2, <2>2
<1>5. ASSUME NEW m \in 0..(N - 1), m \in K PROVE m + 1 \in K
    <2>1. PICK f : f[0] = doc /\ \A k \in 1..m : f[k] = Go(f[k - 1], k)
        BY <1>5
    <2> DEFINE g == [k \in 0..N |-> IF k = m + 1 THEN Go(f[m], m + 1) ELSE f[k]]
    <2>2. m \in 0..N /\ m + 1 \in 1..N /\ m + 1 \in 0..N
        BY <1>2
    <2>3. g[m + 1] = Go(f[m], m + 1) /\ \A k \in 0..m : g[k] = f[k]
        <3>1. \A k \in 0..m : k \in 0..N /\ k # m + 1
            BY <1>2
        <3>2. \A k \in 0..N : g[k] = IF k = m + 1 THEN Go(f[m], m + 1) ELSE f[k]
            OBVIOUS
        <3> HIDE DEF g
        <3> QED
            BY <2>2, <3>1, <3>2
    <2> HIDE DEF g
    <2>4. ASSUME NEW k \in 1..(m + 1) PROVE g[k] = Go(g[k - 1], k)
        <3>1. CASE k = m + 1
            <4>1. k - 1 = m /\ m \in 0..m
                BY <2>2, <3>1
            <4> QED
                BY <2>3, <3>1, <4>1
        <3>2. CASE k # m + 1
            <4>1. k \in 1..m /\ k - 1 \in 0..m /\ k \in 0..m
                BY <2>2, <3>2
            <4> QED
                BY <2>1, <2>3, <4>1
        <3> QED
            BY <3>1, <3>2
    <2>5. g[0] = doc
        BY <2>1, <2>2, <2>3
    <2>6. Upto(m + 1)
        BY <2>4, <2>5
    <2> HIDE DEF Upto
    <2> QED
        BY <2>2, <2>6
<1> HIDE DEF K
<1>6. \A m \in 0..N : m \in K
    BY <1>2, <1>4, <1>5, IntervalInduction
<1>7. PICK h : h[0] = doc /\ \A k \in 1..N : h[k] = Go(h[k - 1], k)
    <2>1. N \in K
        BY <1>2, <1>6
    <2> QED
        BY <2>1 DEF K
<1> DEFINE g == [k \in 0..N |-> h[k]]
<1>8. \A k \in 0..N : g[k] = h[k]
    OBVIOUS
<1>9. ASSUME NEW k \in 0..N PROVE g[k] = Body(g, k)
    <2> HIDE DEF g
    <2>1. CASE k = 0
        BY <1>2, <1>3, <1>7, <1>8, <2>1, SMTT(30)
    <2>2. CASE k # 0
        <3>1. k \in 1..N /\ k - 1 \in 0..N
            BY <1>2, <2>2
        <3>2. g[k] = Go(g[k - 1], k)
            BY <1>7, <1>8, <3>1
        <3> QED
            BY <1>3, <3>1, <3>2
    <2> QED
        BY <2>1, <2>2
<1>10. Eqn(g)
    BY <1>9
<1>11. Eqn(at)
    <2> HIDE DEF Eqn
    <2> QED
        BY <1>10, Zenon
<1>12. \A k \in 0..N : at[k] = Body(at, k)
    BY <1>11, Zenon
<1> HIDE DEF at
<1>13. at[0] = doc /\ \A k \in 1..N : at[k] = Go(at[k - 1], k)
    BY <1>2, <1>3, <1>12
<1> QED
    BY <1>1, <1>13, Zenon DEF N, Go

\* A longer name leads along the same way.
LEMMA WalkPrefix ==
    ASSUME NEW doc, NEW X, NEW path \in Seq(X), NEW l \in X
    PROVE  \A k \in 0..Len(path) : Walk(doc, path \o <<l>>)[k] = Walk(doc, path)[k]
<1> DEFINE N == Len(path)
           long == path \o <<l>>
           K == {k \in 0..N : Walk(doc, long)[k] = Walk(doc, path)[k]}
<1>1. long \in Seq(X) /\ Len(long) = N + 1 /\ N \in Nat /\ \A k \in 1..N : long[k] = path[k]
    OBVIOUS
<1> HIDE DEF N, long
<1>2. /\ Walk(doc, long)[0] = doc
      /\ \A k \in 1..(N + 1) : Walk(doc, long)[k] = GetObjectField(Walk(doc, long)[k - 1], long[k])
    BY <1>1, WalkUnfolds
<1>3. /\ Walk(doc, path)[0] = doc
      /\ \A k \in 1..N : Walk(doc, path)[k] = GetObjectField(Walk(doc, path)[k - 1], path[k])
    BY WalkUnfolds DEF N
<1>4. 0 \in K
    BY <1>1, <1>2, <1>3
<1>5. ASSUME NEW k \in 0..(N - 1), k \in K PROVE k + 1 \in K
    <2>1. k + 1 \in 1..N /\ k + 1 \in 0..N /\ k + 1 \in 1..(N + 1) /\ (k + 1) - 1 = k
        BY <1>1
    <2>2. Walk(doc, long)[k] = Walk(doc, path)[k]
        BY <1>5
    <2>3. Walk(doc, long)[k + 1] = Walk(doc, path)[k + 1]
        BY <1>1, <1>2, <1>3, <2>1, <2>2
    <2> QED
        BY <2>1, <2>3
<1> HIDE DEF K
<1>6. \A k \in 0..N : k \in K
    BY <1>1, <1>4, <1>5, IntervalInduction, Zenon
<1> QED
    BY <1>6 DEF K, N, long

\* The field with a name that no other field has.
LEMMA GetFieldSingle ==
    ASSUME NEW d, NEW name, NEW j \in 1..Len(d), d[j].name = name,
           \A i \in 1..Len(d) : d[i].name = name => i = j
    PROVE  GetField(d, name) = d[j]
<1> DEFINE hits == {i \in 1..Len(d) : d[i].name = name}
<1>1. GetField(d, name) = IF hits = {} THEN Eoo ELSE d[Min(hits)]
    BY Zenon DEF GetField
<1>2. j \in hits /\ \A i \in hits : i = j
    OBVIOUS
<1>3. j <= j
    OBVIOUS
<1> HIDE DEF hits
<1>4. Min(hits) = j
    <2>1. \E x \in hits : \A y \in hits : x <= y
        BY <1>2, <1>3, Zenon
    <2>2. Min(hits) \in hits
        BY <2>1, Zenon DEF Min
    <2> QED
        BY <1>2, <2>2, Zenon
<1> QED
    BY <1>1, <1>2, <1>4

\* The names of the fields are single labels.
Plain(d) == \A i \in 1..Len(d) : Len(d[i].name) = 1

\* They are not found under a longer name.
LEMMA GetFieldLong ==
    ASSUME NEW d, Plain(d), NEW name, Len(name) # 1
    PROVE  GetField(d, name) = Eoo
<1>1. {i \in 1..Len(d) : d[i].name = name} = {}
    BY DEF Plain
<1> QED
    BY <1>1, Zenon DEF GetField

\* Labels of names.
Label == STRING

\* A document that getFieldDotted comes to along path, past documents whose names
\* have no dots.
Leads(doc, path, d) ==
    /\ path \in Seq(Label) /\ Walk(doc, path)[Len(path)] = d
    /\ \A k \in 1..Len(path) : Plain(Walk(doc, path)[k - 1])

\* One more label.
LEMMA LongerName ==
    ASSUME NEW X, NEW path \in Seq(X), NEW l \in X
    PROVE  LET name == path \o <<l>>
               N == Len(path)
           IN  /\ name \in Seq(X) /\ Len(name) = N + 1 /\ N \in Nat /\ name[N + 1] = l
               /\ SubSeq(name, N + 1, N + 1) = <<l>>
               /\ \A k \in 1..N : Len(SubSeq(name, k, N + 1)) = N + 2 - k
<1> DEFINE name == path \o <<l>>
           N == Len(path)
<1>1. name \in Seq(X) /\ Len(name) = N + 1 /\ N \in Nat /\ name[N + 1] = l
    OBVIOUS
<1> HIDE DEF name, N
<1>2. SubSeq(name, N + 1, N + 1) = <<l>>
    <2>1. \A x \in Seq(X) : Len(x) = 1 => x = <<x[1]>>
        OBVIOUS
    <2>2. /\ SubSeq(name, N + 1, N + 1) \in Seq(X) /\ Len(SubSeq(name, N + 1, N + 1)) = 1
          /\ SubSeq(name, N + 1, N + 1)[1] = name[N + 1]
        BY <1>1
    <2> QED
        BY <1>1, <2>1, <2>2, Zenon
<1>3. \A k \in 1..N : Len(SubSeq(name, k, N + 1)) = N + 2 - k
    BY <1>1
<1> QED
    BY <1>1, <1>2, <1>3 DEF name, N

\* In such a document it finds the field.
LEMMA DottedLeads ==
    ASSUME NEW doc, NEW path, NEW d, Leads(doc, path, d), NEW l \in Label,
           GetField(d, <<l>>) # Eoo
    PROVE  GetFieldDotted(doc, path \o <<l>>) = GetField(d, <<l>>)
<1> DEFINE name == path \o <<l>>
           N == Len(path)
           at == Walk(doc, name)
           found(k) == GetField(at[k - 1], SubSeq(name, k, Len(name)))
           hits == {k \in 1..Len(name) : found(k) # Eoo}
<1>1. path \in Seq(Label)
    BY DEF Leads
<1>2. /\ name \in Seq(Label) /\ Len(name) = N + 1 /\ N \in Nat /\ name[N + 1] = l
      /\ SubSeq(name, N + 1, N + 1) = <<l>>
      /\ \A k \in 1..N : Len(SubSeq(name, k, N + 1)) = N + 2 - k
    BY <1>1, LongerName, Zenon
<1>3. GetFieldDotted(doc, name) = IF hits = {} THEN Eoo ELSE found(Min(hits))
    BY DEF GetFieldDotted
<1>4. \A k \in 0..N : at[k] = Walk(doc, path)[k]
    BY <1>1, WalkPrefix
<1>5. \A k \in 1..N : Plain(at[k - 1])
    <2>1. \A k \in 1..N : k - 1 \in 0..N
        BY <1>2
    <2> QED
        BY <1>4, <2>1 DEF Leads
<1>6. at[N] = d
    <2>1. N \in 0..N
        BY <1>2
    <2> QED
        BY <1>4, <2>1 DEF Leads
<1> HIDE DEF name, at, N
<1>7. ASSUME NEW k \in 1..N PROVE found(k) = Eoo
    <2>1. Len(SubSeq(name, k, Len(name))) = N + 2 - k
        BY <1>2
    <2>2. N + 2 - k # 1
        BY <1>2
    <2> QED
        BY <1>2, <1>5, <2>1, <2>2, GetFieldLong, Zenon
<1>8. found(N + 1) = GetField(d, <<l>>)
    <2>1. (N + 1) - 1 = N
        BY <1>2
    <2>2. at[(N + 1) - 1] = d
        BY <1>6, <2>1, Zenon
    <2>3. SubSeq(name, N + 1, Len(name)) = <<l>>
        BY <1>2, Zenon
    <2> QED
        BY <2>2, <2>3, Zenon
<1> HIDE DEF found
<1>9. N + 1 \in hits /\ \A k \in hits : k = N + 1
    <2>1. \A k \in 1..(N + 1) : k \in 1..N \/ k = N + 1
        BY <1>2
    <2>2. N + 1 \in 1..(N + 1)
        BY <1>2
    <2> QED
        BY <1>2, <1>7, <1>8, <2>1, <2>2
<1>10. N + 1 <= N + 1
    BY <1>2
<1> HIDE DEF hits
<1>11. Min(hits) = N + 1
    <2>1. \E x \in hits : \A y \in hits : x <= y
        BY <1>9, <1>10, Zenon
    <2>2. Min(hits) \in hits
        BY <2>1, Zenon DEF Min
    <2> QED
        BY <1>9, <2>2
<1> QED
    BY <1>3, <1>8, <1>9, <1>11 DEF name

\* The next label leads into the document found.
LEMMA LeadsOn ==
    ASSUME NEW doc, NEW path, NEW d, Leads(doc, path, d), Plain(d), NEW l \in Label
    PROVE  Leads(doc, path \o <<l>>, GetObjectField(d, l))
<1> DEFINE name == path \o <<l>>
           N == Len(path)
<1>1. path \in Seq(Label)
    BY DEF Leads
<1>2. name \in Seq(Label) /\ Len(name) = N + 1 /\ N \in Nat /\ name[N + 1] = l
    BY <1>1, LongerName, Zenon
<1>3. \A k \in 0..N : Walk(doc, name)[k] = Walk(doc, path)[k]
    BY <1>1, WalkPrefix
<1>4. /\ Walk(doc, path)[N] = d
      /\ \A k \in 1..N : Plain(Walk(doc, path)[k - 1])
    BY DEF Leads
<1> HIDE DEF name, N
<1>5. Walk(doc, name)[N] = d
    BY <1>2, <1>3, <1>4
<1>6. Walk(doc, name)[N + 1] = GetObjectField(d, l)
    <2>1. N + 1 \in 1..Len(name) /\ (N + 1) - 1 = N
        BY <1>2
    <2>2. /\ Walk(doc, name)[0] = doc
          /\ \A k \in 1..Len(name) : Walk(doc, name)[k] = GetObjectField(Walk(doc, name)[k - 1], name[k])
        BY <1>2, WalkUnfolds
    <2>3. Walk(doc, name)[N + 1] = GetObjectField(Walk(doc, name)[(N + 1) - 1], name[N + 1])
        BY <2>1, <2>2, Zenon
    <2> QED
        BY <1>2, <1>5, <2>1, <2>3, Zenon
<1>7. ASSUME NEW k \in 1..(N + 1) PROVE Plain(Walk(doc, name)[k - 1])
    <2>1. CASE k = N + 1
        <3>1. k - 1 = N
            BY <1>2, <2>1
        <3> QED
            BY <1>5, <3>1
    <2>2. CASE k # N + 1
        <3>1. k \in 1..N /\ k - 1 \in 0..N
            BY <1>2, <2>2
        <3> QED
            BY <1>3, <1>4, <3>1, Zenon
    <2> QED
        BY <2>1, <2>2
<1> QED
    BY <1>2, <1>6, <1>7 DEF Leads, name

-----------------------------------------------------------------------------
(* Reading columns back *)

\* In a document for columns with distinct names without dots, the name of a column
\* finds its field.
LEMMA FieldOfColumn ==
    ASSUME NEW doc, NEW cols, Len(cols) \in Nat, Matches(doc, cols), Distinct(cols)
    PROVE  /\ Plain(doc)
           /\ \A i \in Live(cols) : /\ Fits(doc[Place(cols, i)], cols[i])
                                    /\ GetField(doc, cols[i].name) = doc[Place(cols, i)]
<1> DEFINE N == Len(doc)
           P(i) == Place(cols, i)
<1>1. N = Place(cols, Len(cols)) /\ \A i \in Live(cols) : Fits(doc[P(i)], cols[i])
    BY MatchesFits
<1>2. \A i \in Live(cols) : P(i) \in 1..N
    BY <1>1, PlaceRange
<1>3. \A k \in 1..N : \E i \in Live(cols) : P(i) = k
    BY <1>1, PlaceRange
<1>4. \A i \in Live(cols) : doc[P(i)].name = cols[i].name /\ Len(cols[i].name) = 1
    BY <1>1 DEF Fits, Distinct
<1>5. \A i, j \in Live(cols) : cols[i].name = cols[j].name => i = j
    BY DEF Distinct
<1> HIDE DEF N, P
<1>6. Plain(doc)
    BY <1>3, <1>4, Zenon DEF Plain, N
<1>7. ASSUME NEW i \in Live(cols) PROVE GetField(doc, cols[i].name) = doc[P(i)]
    <2>1. ASSUME NEW k \in 1..N, doc[k].name = cols[i].name PROVE k = P(i)
        <3>1. PICK j \in Live(cols) : P(j) = k
            BY <1>3
        <3>2. cols[j].name = cols[i].name
            BY <1>4, <2>1, <3>1
        <3> QED
            BY <1>5, <3>1, <3>2
    <2>2. P(i) \in 1..Len(doc) /\ doc[P(i)].name = cols[i].name
        BY <1>2, <1>4 DEF N
    <2>3. \A k \in 1..Len(doc) : doc[k].name = cols[i].name => k = P(i)
        BY <2>1 DEF N
    <2> QED
        BY <2>2, <2>3, GetFieldSingle
<1> QED
    BY <1>1, <1>6, <1>7, Zenon DEF P

\* Names of columns that are one label.
LEMMA ColumnLabel ==
    ASSUME NEW r \in Composites, NEW i \in Live(r.cols), Len(r.cols[i].name) = 1
    PROVE  \E l \in Label : r.cols[i].name = <<l>>
<1>1. i \in 1..Len(r.cols)
    BY DEF Live
<1>2. r.cols[i].name \in Seq(Label)
    BY <1>1, RowAssumption, Zenon DEF Label
<1>3. ASSUME NEW x \in Seq(Label), Len(x) = 1 PROVE x[1] \in Label /\ x = <<x[1]>>
    BY <1>3, SMTT(30)
<1> QED
    BY <1>2, <1>3, Zenon

\* A part of a result: the document for a record, which its dotted name leads to.
Reached(doc, p) ==
    /\ Rep(p.doc, p.cols) /\ (\E r \in Composites : p.cols = r.cols)
    /\ Leads(doc, p.name, p.doc)

\* From one level to the next.
LEMMA ReachedStep ==
    ASSUME NEW doc, NEW p, Reached(doc, p), Distinct(p.cols), NEW q \in Parts(p)
    PROVE  Reached(doc, q)
<1>1. PICK i \in Records(p.cols) : /\ q.doc = p.doc[Place(p.cols, i)].sub
                                   /\ q.cols = p.cols[i].rec.cols
                                   /\ q.name = p.name \o p.cols[i].name
    BY PartProps, Zenon
<1>2. PICK r \in Composites : p.cols = r.cols
    BY DEF Reached
<1>3. i \in Live(p.cols) /\ ~p.cols[i].null /\ p.cols[i].typ = "record"
    BY DEF Records
<1>4. i \in 1..Len(p.cols) /\ Len(p.cols) \in Nat /\ p.cols[i].rec \in Composites
    BY <1>2, <1>3, RowProps, SMTT(30) DEF Live
<1>5. Matches(p.doc, p.cols) /\ Rep(q.doc, q.cols)
    BY <1>1, RepUnfolds, SMTT(30) DEF Reached
<1>6. /\ Plain(p.doc) /\ Fits(p.doc[Place(p.cols, i)], p.cols[i])
      /\ GetField(p.doc, p.cols[i].name) = p.doc[Place(p.cols, i)]
    BY <1>3, <1>4, <1>5, FieldOfColumn, SMTT(30)
<1>7. PICK l \in Label : p.cols[i].name = <<l>>
    <2>1. Len(p.cols[i].name) = 1
        BY <1>3, SMTT(30) DEF Distinct
    <2> QED
        BY <1>2, <1>3, <2>1, ColumnLabel, SMTT(30)
<1>8. GetObjectField(p.doc, l) = q.doc
    <2>1. p.doc[Place(p.cols, i)].type = "object"
        BY <1>3, <1>6, SMTT(30) DEF Fits
    <2> QED
        BY <1>1, <1>6, <1>7, <2>1, SMTT(30) DEF GetObjectField
<1>9. Leads(doc, p.name \o <<l>>, GetObjectField(p.doc, l))
    BY <1>6, LeadsOn DEF Reached
<1>10. Leads(doc, q.name, q.doc)
    BY <1>1, <1>7, <1>8, <1>9, Zenon
<1> QED
    BY <1>1, <1>4, <1>5, <1>10, Zenon DEF Reached

\* So every part is reached.
LEMMA AllReached ==
    ASSUME NEW doc, NEW r \in Composites, Rep(doc, r.cols), Unambiguous(doc, r.cols)
    PROVE  \A n \in 0..MaxNesting : \A p \in Levels(doc, r.cols)[n] : Reached(doc, p)
<1> DEFINE N == MaxNesting
           f == Levels(doc, r.cols)
           K == {n \in 0..N : \A p \in f[n] : Reached(doc, p)}
<1>1. N \in Nat
    BY NestingAssumption
<1>2. f[0] = {Whole(doc, r.cols)} /\ \A n \in 1..N : Below(f[n], f[n - 1])
    BY LevelsProps DEF IsLevels
<1>3. \A n \in 0..N : \A p \in f[n] : Distinct(p.cols)
    BY DEF Unambiguous
<1> HIDE DEF f, N
<1>4. 0 \in K
    <2>1. Leads(doc, <<>>, doc)
        <3>1. <<>> \in Seq(Label) /\ Len(<<>>) = 0 /\ 1..0 = {}
            OBVIOUS
        <3>2. Walk(doc, <<>>)[0] = doc
            BY <3>1, WalkUnfolds, Zenon
        <3> QED
            BY <3>1, <3>2 DEF Leads
    <2>2. ASSUME NEW p \in f[0] PROVE Reached(doc, p)
        <3>1. p.doc = doc /\ p.cols = r.cols /\ p.name = <<>>
            BY <1>2 DEF Whole
        <3> QED
            BY <2>1, <3>1, Zenon DEF Reached
    <2> QED
        BY <1>1, <2>2
<1>5. ASSUME NEW n \in 0..(N - 1), n \in K PROVE n + 1 \in K
    <2>1. n \in 0..N /\ n + 1 \in 0..N /\ n + 1 \in 1..N /\ (n + 1) - 1 = n
        BY <1>1
    <2>2. ASSUME NEW q \in f[n + 1] PROVE Reached(doc, q)
        <3>1. Below(f[n + 1], f[n])
            BY <1>2, <2>1
        <3>2. PICK p \in f[n] : q \in Parts(p)
            BY <3>1, Zenon DEF Below
        <3>3. Reached(doc, p) /\ Distinct(p.cols)
            BY <1>3, <1>5, <2>1
        <3> QED
            BY <3>2, <3>3, ReachedStep, SMTT(30)
    <2> QED
        BY <2>1, <2>2
<1> HIDE DEF K
<1>6. \A n \in 0..N : n \in K
    BY <1>1, <1>4, <1>5, IntervalInduction
<1> QED
    BY <1>6, SMTT(30) DEF K, N, f

\* An element under another name.
Renamed(e, name) == [e EXCEPT !.name = name]

\* A null under another name.
LEMMA RenamedScalar ==
    ASSUME NEW n, NEW m, NEW v
    PROVE  Renamed(Scalar(n, "null", v), m) = Scalar(m, "null", v)
BY DEF Renamed, Scalar

\* What the getters make of the element they find.
LEMMA GettersFind ==
    ASSUME NEW doc, NEW name, NEW e, GetFieldDotted(doc, name) = e, e # Eoo
    PROVE  /\ BsonGet("text", doc, name) = ConvertText(e)
           /\ BsonGet("int", doc, name) = ConvertInt(e)
           /\ BsonGet("double", doc, name) = ConvertDouble(e)
           /\ BsonGet("bigint", doc, name) = ConvertBigint(e)
           /\ e.type = "object" => BsonGetBson(doc, name) = <<"bson", e.sub>>
           /\ e.type # "object" => BsonGetBson(doc, name) = <<"bson", <<Renamed(e, <<"">>)>>>>
<1>1. /\ BsonGet("text", doc, name) = ConvertText(e)
      /\ BsonGet("int", doc, name) = ConvertInt(e)
      /\ BsonGet("double", doc, name) = ConvertDouble(e)
      /\ BsonGet("bigint", doc, name) = ConvertBigint(e)
    BY DEF BsonGet
<1>2. e.type = "object" => BsonGetBson(doc, name) = <<"bson", e.sub>>
    BY DEF BsonGetBson
<1>3. e.type # "object" => BsonGetBson(doc, name) = <<"bson", <<Renamed(e, <<"">>)>>>>
    BY Zenon DEF BsonGetBson, Renamed
<1> QED
    BY <1>1, <1>2, <1>3, Zenon

\* The getter for the type of a column reads its value from the element that
\* datum_to_bson has appended.
LEMMA ElementReads ==
    ASSUME NEW c, NEW e \in Elements(c), c.v \in Seq(Int), NEW doc, NEW name,
           GetFieldDotted(doc, name) = e, e # Eoo
    PROVE  ReadsBack(c, doc, name)
<1> DEFINE t == c.typ
           Listed == {"bool", "char", "int8", "int2", "int4", "float4", "float8", "timestamp", "bson"}
<1>1. CASE c.null
    <2>1. e = Scalar(c.name, "null", <<>>)
        BY <1>1, ElementProps
    <2>2. e.type # "object"
        BY <2>1 DEF Scalar
    <2>3. Renamed(e, <<"">>) = Scalar(<<"">>, "null", <<>>)
        <3>1. Renamed(Scalar(c.name, "null", <<>>), <<"">>) = Scalar(<<"">>, "null", <<>>)
            BY RenamedScalar, Zenon
        <3> QED
            BY <2>1, <3>1, Zenon
    <2>4. BsonGetBson(doc, name) = <<"bson", <<Renamed(e, <<"">>)>>>>
        BY <2>2, GettersFind, Zenon
    <2>5. BsonGetBson(doc, name) = <<"bson", <<Scalar(<<"">>, "null", <<>>)>>>>
        BY <2>3, <2>4, Zenon
    <2> QED
        BY <1>1, <2>5, Zenon DEF ReadsBack
<1>2. CASE ~c.null /\ t = "bool"
    <2>1. e.type = "bool" /\ e.v = c.v
        BY <1>2, ElementProps DEF Scalar
    <2>2. ConvertText(e) = <<"text", "bool", c.v>>
        BY <2>1 DEF ConvertText
    <2> QED
        BY <1>2, <2>2, GettersFind, Zenon DEF ReadsBack
<1>3. CASE ~c.null /\ t \in {"int2", "int4"}
    <2>1. e.type = "int" /\ e.v = c.v
        BY <1>3, ElementProps DEF Scalar
    <2>2. ConvertInt(e) = <<"int4", c.v[1]>>
        BY <2>1 DEF ConvertInt
    <2> QED
        BY <1>3, <2>2, GettersFind, Zenon DEF ReadsBack
<1>4. CASE ~c.null /\ t = "int8"
    <2>1. e.type = "long" /\ e.v = c.v
        BY <1>4, ElementProps DEF Scalar
    <2>2. ConvertBigint(e) = <<"int8", c.v[1]>>
        BY <2>1 DEF ConvertBigint
    <2> QED
        BY <1>4, <2>2, GettersFind, Zenon DEF ReadsBack
<1>5. CASE ~c.null /\ t \in {"float4", "float8"}
    <2>1. e.type = "double" /\ e.v = c.v
        BY <1>5, ElementProps DEF Scalar
    <2>2. ConvertDouble(e) = <<"float8", c.v[1]>>
        BY <2>1 DEF ConvertDouble
    <2> QED
        BY <1>5, <2>2, GettersFind, Zenon DEF ReadsBack
<1>6. CASE ~c.null /\ t = "bson"
    <2>1. e.type = "object" /\ e.sub = c.doc
        BY <1>6, ElementProps DEF Embedded
    <2>2. BsonGetBson(doc, name) = <<"bson", c.doc>>
        BY <2>1, GettersFind, Zenon
    <2> QED
        BY <1>6, <2>2, SMTT(30) DEF ReadsBack
<1>7. CASE ~c.null /\ t \in {"char", "timestamp"}
    <2>1. \A x : <<"bson", x>> # Null
        BY DEF Null
    <2>2. \E x : BsonGetBson(doc, name) = <<"bson", x>>
        <3>1. \/ BsonGetBson(doc, name) = <<"bson", e.sub>>
              \/ BsonGetBson(doc, name) = <<"bson", <<Renamed(e, <<"">>)>>>>
            BY GettersFind, Zenon
        <3> QED
            BY <3>1, Zenon
    <2>3. BsonGetBson(doc, name) # Null
        BY <2>1, <2>2, Zenon
    <2> QED
        BY <1>7, <2>3 DEF ReadsBack
<1>8. CASE ~c.null /\ t \notin Listed
    <2>1. PICK b \in PastEnd \cup {0} : e = Scalar(c.name, "string", Append(c.v, b))
        BY <1>8, ElementProps
    <2>2. e.type = "string" /\ e.v = Append(c.v, b)
        BY <2>1 DEF Scalar
    <2>3. SubSeq(Append(c.v, b), 1, Len(Append(c.v, b)) - 1) = c.v
        <3> DEFINE s == c.v
                   X == Int \cup {b}
                   w == Append(s, b)
        <3>1. s \in Seq(X) /\ b \in X
            OBVIOUS
        <3> HIDE DEF s, X
        <3>2. w \in Seq(X) /\ Len(w) = Len(s) + 1 /\ Len(s) \in Nat /\ \A i \in 1..Len(s) : w[i] = s[i]
            BY <3>1
        <3>3. Len(w) - 1 = Len(s)
            BY <3>2
        <3> HIDE DEF w
        <3>4. SubSeq(w, 1, Len(s)) \in Seq(X) /\ Len(SubSeq(w, 1, Len(s))) = Len(s)
              /\ \A i \in 1..Len(s) : SubSeq(w, 1, Len(s))[i] = s[i]
            BY <3>1, <3>2
        <3>5. SubSeq(w, 1, Len(s)) = s
            BY <3>1, <3>4, SameSeq, Zenon
        <3> QED
            BY <3>3, <3>5 DEF w, s
    <2>4. ConvertText(e) = <<"text", "chars", SubSeq(e.v, 1, Len(e.v) - 1)>>
        BY <2>2 DEF ConvertText
    <2>5. BsonGet("text", doc, name) = <<"text", "chars", c.v>>
        BY <2>2, <2>3, <2>4, GettersFind, Zenon
    <2> QED
        BY <1>8, <2>5, SMTT(30) DEF ReadsBack
<1> QED
    BY <1>1, <1>2, <1>3, <1>4, <1>5, <1>6, <1>7, <1>8, SMTT(30)

\* A column of a part that is reached is read back.
LEMMA ColumnReads ==
    ASSUME NEW doc, NEW p, Reached(doc, p), Distinct(p.cols), NEW i \in Live(p.cols) \ Records(p.cols)
    PROVE  ReadsBack(p.cols[i], doc, p.name \o p.cols[i].name)
<1> DEFINE c == p.cols[i]
           e == p.doc[Place(p.cols, i)]
<1>1. PICK r \in Composites : p.cols = r.cols
    BY DEF Reached
<1>2. i \in Live(p.cols) /\ (c.null \/ c.typ # "record") /\ i \in 1..Len(p.cols) /\ Len(p.cols) \in Nat
    BY <1>1, RowProps DEF Records, Live
<1>3. c.v \in Seq(Int)
    BY <1>1, <1>2, RowAssumption, ZenonT(30)
<1>4. Fits(e, c) /\ GetField(p.doc, c.name) = e
    <2>1. Matches(p.doc, p.cols)
        BY RepUnfolds DEF Reached
    <2> QED
        BY <1>2, <2>1, FieldOfColumn, SMTT(30)
<1>5. e \in Elements(c) /\ e.name = c.name
    BY <1>2, <1>4, Zenon DEF Fits
<1>6. Len(c.name) = 1
    BY <1>2 DEF Distinct
<1>7. PICK l \in Label : c.name = <<l>>
    BY <1>1, <1>2, <1>6, ColumnLabel
<1> HIDE DEF e, c
<1>8. e # Eoo
    <2>1. Len(Eoo.name) = 0 /\ 0 # 1
        BY DEF Eoo
    <2> QED
        BY <1>5, <1>6, <2>1, Zenon
<1>9. GetFieldDotted(doc, p.name \o <<l>>) = GetField(p.doc, <<l>>)
    BY <1>4, <1>7, <1>8, DottedLeads DEF Reached
<1>10. GetFieldDotted(doc, p.name \o c.name) = e
    BY <1>4, <1>7, <1>9, Zenon
<1> QED
    BY <1>3, <1>5, <1>8, <1>10, ElementReads, Zenon DEF c

\* For rows of any shape: if names are unambiguous, every column that is no record,
\* also of a record in a record, is read back from what row_to_bson returns, under
\* its dotted name and by the getter for its type.
THEOREM RowsReadBack == Spec => []RoundTrip
<1>1. FInv => RoundTrip
    <2> SUFFICES ASSUME FInv, NEW x \in returned, Unambiguous(x[2], x[1].cols)
                 PROVE  AllReadBack(x[2], x[1].cols)
        BY Zenon DEF RoundTrip
    <2> DEFINE doc == x[2]
               cols == x[1].cols
    <2>1. x[1] \in Composites /\ Rep(doc, cols)
        BY SMTT(30) DEF FInv
    <2>2. \A n \in 0..MaxNesting : \A p \in Levels(doc, cols)[n] : Reached(doc, p)
        BY <2>1, AllReached, SMTT(30)
    <2>3. \A n \in 0..MaxNesting : \A p \in Levels(doc, cols)[n] : Distinct(p.cols)
        BY DEF Unambiguous
    <2> HIDE DEF doc, cols
    <2>4. AllReadBack(doc, cols)
        BY <2>2, <2>3, ColumnReads, Zenon DEF AllReadBack
    <2> QED
        BY <2>4 DEF doc, cols
<1> QED
    BY <1>1, DocumentsInvariant, PTL
=============================================================================
