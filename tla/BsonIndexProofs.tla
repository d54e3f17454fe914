-------------------------- MODULE BsonIndexProofs --------------------------
(***************************************************************************)
(* When bson_compare is an order, and what the indexes do for every set of *)
(* documents and rows.                                                     *)
(*                                                                         *)
(* The order goes up one level of nesting at a time: if the documents      *)
(* embedded in a set of documents are ordered, so are the documents        *)
(* themselves.  A btree index of ordered documents stays sorted, so that   *)
(* binary search finds every entry.  A hash index has one entry for each   *)
(* row, and documents that are equal as bytes have one hash code, so that  *)
(* a scan of the index finds what a scan of the table finds.               *)
(***************************************************************************)
EXTENDS BsonIndex, HashIndex, DataInduction, TLAPS

-----------------------------------------------------------------------------
(* bson_compare *)

Signs == {-1, 0, 1}

Types == Numbers \cup Ranked \cup
         {"undefined", "null", "minkey", "maxkey", "date", "timestamp", "object", "array", "codewscope"}

\* f orders S: signs, turned round with the operands, and transitive.  f[x, x] is
\* 0, and elements with sign 0 may differ.
IsOrder(f, S) ==
    /\ \A x, y \in S : f[<<x, y>>] \in Signs /\ f[<<x, y>>] = -f[<<y, x>>]
    /\ \A x, y, z \in S : f[<<x, y>>] <= 0 /\ f[<<y, z>>] <= 0 => f[<<x, z>>] <= 0

ElementSet(D) == [name : Int, type : Types, v : Int, w : Int, sub : D]

\* What the elements of a set must be like: integers have doubles of their own,
\* and dates and timestamps do not occur together.
Admissible(E) ==
    /\ \A e \in E : e.type \in {"int", "long"} => e.v # NaN
    /\ \A e \in E : e.type = "long" => ToDouble(e.v) = e.v
    /\ \A l, r \in E : l.type = "date" => r.type # "timestamp"

-----------------------------------------------------------------------------

\* Sign() of a difference tells which number is greater.
LEMMA SignOfDifference ==
    ASSUME NEW a \in Int, NEW b \in Int
    PROVE  /\ Sign(a - b) \in Signs
           /\ Sign(a - b) = -Sign(b - a)
           /\ Sign(a - b) <= 0 <=> a <= b
           /\ Sign(a - b) = 0 <=> a = b
BY DEF Sign, Signs

\* Every type has a place in the order of types.
LEMMA CanonicalInt ==
    ASSUME NEW t \in Types
    PROVE  Canonical(t) \in Int
BY DEF Canonical, Types, Numbers, Ranked

\* Types with the same place are the same, or both of numbers, of strings, or of
\* points in time.
LEMMA SamePlace ==
    ASSUME NEW s \in Types, NEW t \in Types, Canonical(s) = Canonical(t)
    PROVE  \/ s = t
           \/ s \in Numbers /\ t \in Numbers
           \/ s \in {"string", "symbol"} /\ t \in {"string", "symbol"}
           \/ s \in {"date", "timestamp"} /\ t \in {"date", "timestamp"}
BY DEF Canonical, Types, Numbers, Ranked

\* Comparing doubles, NaN included, is an order.
LEMMA DoublesOrdered ==
    ASSUME NEW x \in Int, NEW y \in Int, NEW z \in Int
    PROVE  /\ CompareDoubles(x, y) \in Signs
           /\ CompareDoubles(x, y) = -CompareDoubles(y, x)
           /\ CompareDoubles(x, y) <= 0 /\ CompareDoubles(y, z) <= 0 => CompareDoubles(x, z) <= 0
BY OrderAssumption DEF CompareDoubles, Signs

\* Numbers that have doubles of their own are compared like doubles, whatever
\* their types.
LEMMA NumbersAsDoubles ==
    ASSUME NEW D, NEW E \in SUBSET ElementSet(D), Admissible(E), NEW l \in E, NEW r \in E,
           l.type \in Numbers, r.type \in Numbers
    PROVE  CompareNumbers(l, r) = CompareDoubles(l.v, r.v)
<1>1. l.v \in Int /\ r.v \in Int
  BY DEF ElementSet
<1>2. Number(l) = l.v /\ Number(r) = r.v
  BY DEF Number, Admissible
<1>3. CASE l.type = r.type /\ l.type # "double"
  <2>1. l.v # NaN /\ r.v # NaN
    BY <1>3 DEF Admissible, Numbers
  <2>2. CompareNumbers(l, r) = Sign(l.v - r.v)
    BY <1>3 DEF CompareNumbers
  <2> QED
    BY <1>1, <2>1, <2>2 DEF CompareDoubles, Sign
<1>4. CASE ~(l.type = r.type /\ l.type # "double")
  BY <1>2, <1>4 DEF CompareNumbers
<1> QED
  BY <1>3, <1>4

\* What compareElementValues comes to for each kind of type.
ByKind(below, l, r) ==
    LET c == CompareValues(below, l, r)
    IN  /\ l.type \in {"undefined", "null", "minkey", "maxkey"} => c = 0 /\ r.type = l.type
        /\ l.type \in Ranked => c = Sign(l.v - r.v) /\ r.type \in Ranked
        /\ l.type = "timestamp" => c = Sign(Unsigned(l.v) - Unsigned(r.v)) /\ r.type = "timestamp"
        /\ l.type = "date" => c = Sign(l.v - r.v) /\ r.type = "date"
        /\ l.type \in Numbers => c = CompareDoubles(l.v, r.v) /\ r.type \in Numbers
        /\ l.type \in {"object", "array"} => c = below[<<l.sub, r.sub>>] /\ r.type = l.type
        /\ l.type = "codewscope" =>
              c = (IF l.v # r.v THEN Sign(l.v - r.v) ELSE Sign(l.w - r.w)) /\ r.type = "codewscope"

\* compareElementValues on elements of the same place in the order of types.
LEMMA ValuesByKind ==
    ASSUME NEW D, NEW below, NEW E \in SUBSET ElementSet(D), Admissible(E), NEW l \in E, NEW r \in E,
           Canonical(l.type) = Canonical(r.type)
    PROVE  ByKind(below, l, r)
<1> DEFINE c == CompareValues(below, l, r)
<1>1. l.type \in Types /\ r.type \in Types
  BY DEF ElementSet
<1>2. \/ l.type = r.type
      \/ l.type \in Numbers /\ r.type \in Numbers
      \/ l.type \in {"string", "symbol"} /\ r.type \in {"string", "symbol"}
      \/ l.type \in {"date", "timestamp"} /\ r.type \in {"date", "timestamp"}
  BY <1>1, SamePlace
<1>3. l.type \in {"undefined", "null", "minkey", "maxkey"} => c = 0 /\ r.type = l.type
  <2> HAVE l.type \in {"undefined", "null", "minkey", "maxkey"}
  <2>1. r.type = l.type
    BY <1>2 DEF Numbers
  <2>2. c = Sign(Canonical(l.type) - Canonical(r.type))
    BY DEF CompareValues, Ranked, Numbers
  <2>3. Canonical(l.type) \in Int
    BY <1>1, CanonicalInt
  <2> QED
    BY <2>1, <2>2, <2>3 DEF Sign
<1>4. l.type \in Ranked => c = Sign(l.v - r.v) /\ r.type \in Ranked
  BY <1>2 DEF CompareValues, Ranked, Numbers
<1>5. l.type = "timestamp" => c = Sign(Unsigned(l.v) - Unsigned(r.v)) /\ r.type = "timestamp"
  BY <1>2 DEF CompareValues, Ranked, Numbers, Admissible
<1>6. l.type = "date" => c = Sign(l.v - r.v) /\ r.type = "date"
  BY <1>2 DEF CompareValues, Ranked, Numbers, Admissible
<1>7. l.type \in Numbers => c = CompareDoubles(l.v, r.v) /\ r.type \in Numbers
  <2> HAVE l.type \in Numbers
  <2>1. r.type \in Numbers
    BY <1>2 DEF Numbers
  <2>2. c = CompareNumbers(l, r)
    BY DEF CompareValues, Numbers, Ranked
  <2> QED
    BY <2>1, <2>2, NumbersAsDoubles
<1>8. l.type \in {"object", "array"} => c = below[<<l.sub, r.sub>>] /\ r.type = l.type
  BY <1>2 DEF CompareValues, Ranked, Numbers
<1>9. l.type = "codewscope" =>
          c = (IF l.v # r.v THEN Sign(l.v - r.v) ELSE Sign(l.w - r.w)) /\ r.type = "codewscope"
  BY <1>2 DEF CompareValues, Ranked, Numbers
<1> QED
  BY <1>3, <1>4, <1>5, <1>6, <1>7, <1>8, <1>9 DEF ByKind

\* compareElementValues orders the elements of the same place in the order of
\* types.
LEMMA ValuesOrdered ==
    ASSUME NEW D, NEW below, IsOrder(below, D), NEW E \in SUBSET ElementSet(D), Admissible(E),
           NEW x \in E, NEW y \in E, NEW z \in E,
           Canonical(x.type) = Canonical(y.type), Canonical(y.type) = Canonical(z.type)
    PROVE  /\ CompareValues(below, x, y) \in Signs
           /\ CompareValues(below, x, y) = -CompareValues(below, y, x)
           /\ CompareValues(below, x, y) <= 0 /\ CompareValues(below, y, z) <= 0 => CompareValues(below, x, z) <= 0
<1> DEFINE C(l, r) == CompareValues(below, l, r)
<1> DEFINE Goal == /\ C(x, y) \in Signs
                   /\ C(x, y) = -C(y, x)
                   /\ C(x, y) <= 0 /\ C(y, z) <= 0 => C(x, z) <= 0
<1>1. x \in ElementSet(D) /\ y \in ElementSet(D) /\ z \in ElementSet(D)
  OBVIOUS
<1>2. /\ x.v \in Int /\ y.v \in Int /\ z.v \in Int /\ x.w \in Int /\ y.w \in Int /\ z.w \in Int
      /\ x.sub \in D /\ y.sub \in D /\ z.sub \in D /\ x.type \in Types
  BY <1>1 DEF ElementSet
<1>0. ByKind(below, x, y) /\ ByKind(below, y, x) /\ ByKind(below, x, z) /\ ByKind(below, y, z)
  <2>1. \A l, r \in E : Canonical(l.type) = Canonical(r.type) => ByKind(below, l, r)
    BY ValuesByKind
  <2> QED
    BY <2>1
<1> HIDE DEF C
<1> SUFFICES Goal
  BY DEF C
<1>3. CASE x.type \in {"undefined", "null", "minkey", "maxkey"}
  <2>1. C(x, y) = 0 /\ y.type = x.type /\ C(x, z) = 0
    BY <1>3, <1>0 DEF ByKind, C
  <2>2. C(y, x) = 0
    BY <1>3, <2>1, <1>0 DEF ByKind, C
  <2>3. C(x, y) = -C(y, x)
    <3>1. Sign(x.v - x.v) = 0 /\ Sign(x.v - x.v) = -Sign(x.v - x.v)
      BY <1>2, SignOfDifference
    <3> QED
      BY <2>1, <2>2, <3>1, Zenon
  <2> QED
    BY <2>1, <2>3 DEF Signs
<1>4. CASE x.type \in Ranked
  <2>1. C(x, y) = Sign(x.v - y.v) /\ y.type \in Ranked /\ C(x, z) = Sign(x.v - z.v)
    BY <1>4, <1>0 DEF ByKind, C
  <2>2. C(y, x) = Sign(y.v - x.v) /\ C(y, z) = Sign(y.v - z.v)
    BY <2>1, <1>0 DEF ByKind, C
  <2> QED
    BY <1>2, <2>1, <2>2, SignOfDifference
<1>5. CASE x.type = "timestamp"
  <2>1. C(x, y) = Sign(Unsigned(x.v) - Unsigned(y.v)) /\ y.type = "timestamp"
        /\ C(x, z) = Sign(Unsigned(x.v) - Unsigned(z.v))
    BY <1>5, <1>0 DEF ByKind, C
  <2>2. C(y, x) = Sign(Unsigned(y.v) - Unsigned(x.v)) /\ C(y, z) = Sign(Unsigned(y.v) - Unsigned(z.v))
    BY <2>1, <1>0 DEF ByKind, C
  <2>3. Unsigned(x.v) \in Int /\ Unsigned(y.v) \in Int /\ Unsigned(z.v) \in Int
    BY <1>2, OrderAssumption DEF Unsigned
  <2> QED
    BY SMTT(30), <2>1, <2>2, <2>3, SignOfDifference
<1>6. CASE x.type = "date"
  <2>1. C(x, y) = Sign(x.v - y.v) /\ y.type = "date" /\ C(x, z) = Sign(x.v - z.v)
    BY <1>6, <1>0 DEF ByKind, C
  <2>2. C(y, x) = Sign(y.v - x.v) /\ C(y, z) = Sign(y.v - z.v)
    BY <2>1, <1>0 DEF ByKind, C
  <2> QED
    BY <1>2, <2>1, <2>2, SignOfDifference
<1>7. CASE x.type \in Numbers
  <2>1. C(x, y) = CompareDoubles(x.v, y.v) /\ y.type \in Numbers /\ C(x, z) = CompareDoubles(x.v, z.v)
    BY <1>7, <1>0 DEF ByKind, C
  <2>2. C(y, x) = CompareDoubles(y.v, x.v) /\ C(y, z) = CompareDoubles(y.v, z.v)
    BY <2>1, <1>0 DEF ByKind, C
  <2> QED
    BY <1>2, <2>1, <2>2, DoublesOrdered
<1>8. CASE x.type \in {"object", "array"}
  <2>1. C(x, y) = below[<<x.sub, y.sub>>] /\ y.type = x.type /\ C(x, z) = below[<<x.sub, z.sub>>]
    BY <1>8, <1>0 DEF ByKind, C
  <2>2. C(y, x) = below[<<y.sub, x.sub>>] /\ C(y, z) = below[<<y.sub, z.sub>>]
    BY <1>8, <2>1, <1>0 DEF ByKind, C
  <2> QED
    BY <1>2, <2>1, <2>2 DEF IsOrder
<1>9. CASE x.type = "codewscope"
  <2> DEFINE S(l, r) == IF l.v # r.v THEN Sign(l.v - r.v) ELSE Sign(l.w - r.w)
  <2>1. C(x, y) = S(x, y) /\ y.type = "codewscope" /\ C(x, z) = S(x, z)
    BY <1>9, <1>0 DEF ByKind, C
  <2>2. C(y, x) = S(y, x) /\ C(y, z) = S(y, z)
    BY <2>1, <1>0 DEF ByKind, C
  <2> QED
    BY <1>2, <2>1, <2>2 DEF Sign, Signs
<1> QED
  BY <1>2, <1>3, <1>4, <1>5, <1>6, <1>7, <1>8, <1>9 DEF Types

\* BSONElement::woCompare is an order.
LEMMA ElementsOrdered ==
    ASSUME NEW D, NEW below, IsOrder(below, D), NEW E \in SUBSET ElementSet(D), Admissible(E),
           NEW x \in E, NEW y \in E, NEW z \in E
    PROVE  /\ CompareElements(below, x, y) \in Signs
           /\ CompareElements(below, x, y) = -CompareElements(below, y, x)
           /\ CompareElements(below, x, y) <= 0 /\ CompareElements(below, y, z) <= 0 =>
                 CompareElements(below, x, z) <= 0
<1> DEFINE T(e) == Canonical(e.type)
           V(l, r) == CompareValues(below, l, r)
           C(l, r) == CompareElements(below, l, r)
<1>1. \A e \in E : T(e) \in Int /\ e.name \in Int
  BY CanonicalInt DEF ElementSet
<1>2. \A e, f, g \in E : T(e) = T(f) /\ T(f) = T(g) =>
          V(e, f) \in Signs /\ V(e, f) = -V(f, e) /\ (V(e, f) <= 0 /\ V(f, g) <= 0 => V(e, g) <= 0)
  BY ValuesOrdered
<1>3. \A l, r \in E : C(l, r) = IF T(l) # T(r) THEN Sign(T(l) - T(r))
                                 ELSE IF l.name # r.name THEN Sign(l.name - r.name) ELSE V(l, r)
  BY DEF CompareElements
<1> HIDE DEF T, V, C
<1> SUFFICES /\ C(x, y) \in Signs /\ C(x, y) = -C(y, x)
             /\ C(x, y) <= 0 /\ C(y, z) <= 0 => C(x, z) <= 0
  BY DEF C
<1>4. C(x, y) \in Signs /\ C(x, y) = -C(y, x)
  <2>1. CASE T(x) # T(y)
    BY <1>1, <1>3, <2>1, SignOfDifference
  <2>2. CASE T(x) = T(y) /\ x.name # y.name
    BY <1>1, <1>3, <2>2, SignOfDifference
  <2>3. CASE T(x) = T(y) /\ x.name = y.name
    BY <1>2, <1>3, <2>3
  <2> QED
    BY <2>1, <2>2, <2>3
<1>5. ASSUME C(x, y) <= 0, C(y, z) <= 0
      PROVE  C(x, z) <= 0
  <2>1. T(x) <= T(y) /\ T(y) <= T(z)
    BY <1>1, <1>3, <1>5 DEF Sign
  <2>2. CASE T(x) # T(z)
    BY <1>1, <1>3, <2>1, <2>2 DEF Sign
  <2>3. CASE T(x) = T(z)
    <3>1. T(x) = T(y) /\ T(y) = T(z)
      BY <1>1, <2>1, <2>3
    <3>2. x.name <= y.name /\ y.name <= z.name
      BY <1>1, <1>3, <1>5, <3>1 DEF Sign
    <3>3. CASE x.name # z.name
      BY <1>1, <1>3, <2>3, <3>2, <3>3 DEF Sign
    <3>4. CASE x.name = z.name
      <4>1. x.name = y.name /\ y.name = z.name
        BY <1>1, <3>2, <3>4
      <4> QED
        BY <1>2, <1>3, <1>5, <3>1, <4>1
    <3> QED
      BY <3>3, <3>4
  <2> QED
    BY <2>2, <2>3
<1> QED
  BY <1>4, <1>5

-----------------------------------------------------------------------------
(* Documents *)

\* The elements before position k compare equal.
EqualBefore(below, a, b, k) ==
    \A i \in 1..Len(a) : i < k /\ i <= Len(b) => CompareElements(below, a[i], b[i]) = 0

\* a and b differ at position k and not before.
DifferAt(below, a, b, k) ==
    /\ k \in 1..Len(a) /\ k <= Len(b)
    /\ CompareElements(below, a[k], b[k]) # 0
    /\ EqualBefore(below, a, b, k)

\* The loop of BSONObj::woCompare ends at the first position where the documents
\* differ, or at the end of one of them.
LEMMA FirstDifference ==
    ASSUME NEW E, NEW below, NEW a \in Seq(E), NEW b \in Seq(E)
    PROVE  \/ \E k \in Nat : /\ DifferAt(below, a, b, k)
                             /\ CompareDocs(below, a, b) = CompareElements(below, a[k], b[k])
           \/ /\ EqualBefore(below, a, b, Len(a) + 1)
              /\ CompareDocs(below, a, b) = Sign(Len(a) - Len(b))
<1> DEFINE C(l, r) == CompareElements(below, l, r)
           both == {i \in 1..Len(a) : i <= Len(b)}
           differ == {i \in both : C(a[i], b[i]) # 0}
           first == CHOOSE k \in differ : \A m \in differ : k <= m
<1>1. CompareDocs(below, a, b) = IF differ = {} THEN Sign(Len(a) - Len(b)) ELSE C(a[first], b[first])
  BY DEF CompareDocs
<1>2. CASE differ = {}
  <2>1. EqualBefore(below, a, b, Len(a) + 1)
    BY <1>2 DEF EqualBefore
  <2> QED
    BY <1>1, <1>2, <2>1
<1>3. CASE differ # {}
  <2>1. differ \subseteq Nat
    OBVIOUS
  <2>2. \E k \in differ : \A m \in differ : k <= m
    BY <1>3, <2>1, LeastNatural, Zenon
  <2>3. first \in differ /\ \A m \in differ : first <= m
    BY <2>2
  <2> HIDE DEF first
  <2>4. DifferAt(below, a, b, first)
    <3>1. first \in 1..Len(a) /\ first <= Len(b) /\ C(a[first], b[first]) # 0
      BY <2>3
    <3>2. EqualBefore(below, a, b, first)
      <4> SUFFICES ASSUME NEW i \in 1..Len(a), i < first, i <= Len(b), C(a[i], b[i]) # 0
                   PROVE  FALSE
        BY DEF EqualBefore
      <4>1. i \in differ
        OBVIOUS
      <4> QED
        BY <2>3, <3>1, <4>1
    <3> QED
      BY <3>1, <3>2 DEF DifferAt
  <2> QED
    BY <1>1, <1>3, <2>1, <2>3, <2>4
<1> QED
  BY <1>2, <1>3

\* Whether a comes before b, or with it, said with the first difference.
LEMMA NotGreater ==
    ASSUME NEW E, NEW below, NEW a \in Seq(E), NEW b \in Seq(E),
           \A x, y \in E : CompareElements(below, x, y) \in Signs
    PROVE  CompareDocs(below, a, b) <= 0 <=>
               \/ \E k \in Nat : DifferAt(below, a, b, k) /\ CompareElements(below, a[k], b[k]) < 0
               \/ EqualBefore(below, a, b, Len(a) + 1) /\ Len(a) <= Len(b)
<1> DEFINE C(l, r) == CompareElements(below, l, r)
<1>1. CASE \E k \in Nat : DifferAt(below, a, b, k) /\ CompareDocs(below, a, b) = C(a[k], b[k])
  <2>1. PICK k \in Nat : DifferAt(below, a, b, k) /\ CompareDocs(below, a, b) = C(a[k], b[k])
    BY <1>1
  <2>2. k \in 1..Len(a) /\ k <= Len(b) /\ C(a[k], b[k]) # 0 /\ a[k] \in E /\ b[k] \in E
    BY <2>1 DEF DifferAt
  <2>3. ~EqualBefore(below, a, b, Len(a) + 1)
    BY <2>2 DEF EqualBefore
  <2>4. ASSUME NEW m \in Nat, DifferAt(below, a, b, m)
        PROVE  m = k
    BY <2>1, <2>4 DEF DifferAt, EqualBefore
  <2>5. C(a[k], b[k]) \in Signs
    BY <2>2
  <2>6. CompareDocs(below, a, b) <= 0 <=> C(a[k], b[k]) < 0
    BY <2>1, <2>2, <2>5 DEF Signs
  <2> QED
    BY <2>1, <2>3, <2>4, <2>6
<1>2. CASE EqualBefore(below, a, b, Len(a) + 1) /\ CompareDocs(below, a, b) = Sign(Len(a) - Len(b))
  <2>1. \A k \in Nat : ~DifferAt(below, a, b, k)
    BY <1>2 DEF DifferAt, EqualBefore
  <2>2. CompareDocs(below, a, b) <= 0 <=> Len(a) <= Len(b)
    BY <1>2 DEF Sign
  <2> QED
    BY <1>2, <2>1, <2>2
<1> QED
  BY <1>1, <1>2, FirstDifference

\* An order of elements gives an order of documents, transitivity.
LEMMA DocsTransitive ==
    ASSUME NEW E, NEW below, NEW a \in Seq(E), NEW b \in Seq(E), NEW c \in Seq(E),
           \A x, y \in E : /\ CompareElements(below, x, y) \in Signs
                            /\ CompareElements(below, x, y) = -CompareElements(below, y, x),
           \A x, y, z \in E : CompareElements(below, x, y) <= 0 /\ CompareElements(below, y, z) <= 0 =>
                                   CompareElements(below, x, z) <= 0,
           CompareDocs(below, a, b) <= 0, CompareDocs(below, b, c) <= 0
    PROVE  CompareDocs(below, a, c) <= 0
<1> DEFINE C(l, r) == CompareElements(below, l, r)
<1>1. \A x, y \in E : C(x, y) \in Signs /\ C(x, y) = -C(y, x)
  OBVIOUS
<1>2. \A x, y, z \in E : C(x, y) <= 0 /\ C(y, z) <= 0 => C(x, z) <= 0
  OBVIOUS
<1>3. ASSUME NEW x \in E, NEW y \in E, NEW z \in E, C(x, y) = 0, C(y, z) = 0
      PROVE  C(x, z) = 0
  <2>1. C(x, z) <= 0 /\ C(z, x) <= 0
    <3>1. C(x, y) <= 0 /\ C(y, z) <= 0 /\ C(y, x) <= 0 /\ C(z, y) <= 0
      BY <1>1, <1>3 DEF Signs
    <3> QED
      BY <1>2, <3>1, Zenon
  <2> QED
    BY <1>1, <2>1 DEF Signs
<1>4. ASSUME NEW x \in E, NEW y \in E, NEW z \in E, C(x, y) <= 0, C(y, z) <= 0, C(x, y) < 0 \/ C(y, z) < 0
      PROVE  C(x, z) < 0
  <2>1. C(x, z) <= 0
    BY <1>2, <1>4
  <2>2. C(x, z) # 0
    <3> SUFFICES ASSUME C(x, z) = 0 PROVE FALSE
      OBVIOUS
    <3>1. C(z, x) <= 0
      BY <1>1 DEF Signs
    <3>2. C(z, y) <= 0 /\ C(y, x) <= 0
      BY <1>2, <1>4, <3>1
    <3> QED
      BY <1>1, <1>4, <3>2 DEF Signs
  <2> QED
    BY <1>1, <2>1, <2>2 DEF Signs
<1>5. /\ \A i \in 1..Len(a) : a[i] \in E
      /\ \A i \in 1..Len(b) : b[i] \in E
      /\ \A i \in 1..Len(c) : c[i] \in E
      /\ Len(a) \in Nat /\ Len(b) \in Nat /\ Len(c) \in Nat
  OBVIOUS
<1>6. ASSUME NEW k \in Nat, EqualBefore(below, a, b, k), EqualBefore(below, b, c, k), k <= Len(b) + 1
      PROVE  EqualBefore(below, a, c, k)
  <2> SUFFICES ASSUME NEW i \in 1..Len(a), i < k, i <= Len(c)
               PROVE  C(a[i], c[i]) = 0
    BY DEF EqualBefore
  <2>1. i \in 1..Len(b)
    BY <1>5, <1>6
  <2>2. C(a[i], b[i]) = 0 /\ C(b[i], c[i]) = 0
    BY <1>5, <1>6, <2>1 DEF EqualBefore
  <2> QED
    BY <1>3, <1>5, <2>1, <2>2
<1> DEFINE Less(s, t, k) == DifferAt(below, s, t, k) /\ C(s[k], t[k]) < 0
           Prefix(s, t) == EqualBefore(below, s, t, Len(s) + 1) /\ Len(s) <= Len(t)
<1>7. (\E k \in Nat : Less(a, b, k)) \/ Prefix(a, b)
  BY NotGreater
<1>8. (\E k \in Nat : Less(b, c, k)) \/ Prefix(b, c)
  BY NotGreater
<1>9. SUFFICES (\E k \in Nat : Less(a, c, k)) \/ Prefix(a, c)
  BY NotGreater, Zenon
<1>10. ASSUME NEW k \in Nat, k \in 1..Len(a), k <= Len(b), k <= Len(c),
              EqualBefore(below, a, b, k), EqualBefore(below, b, c, k),
              C(a[k], b[k]) <= 0, C(b[k], c[k]) <= 0, C(a[k], b[k]) < 0 \/ C(b[k], c[k]) < 0
       PROVE  Less(a, c, k)
  <2>1. EqualBefore(below, a, c, k)
    BY <1>5, <1>6, <1>10
  <2>2. C(a[k], c[k]) < 0
    <3>1. a[k] \in E /\ b[k] \in E /\ c[k] \in E
      BY <1>5, <1>10
    <3> QED
      BY <1>4, <1>10, <3>1
  <2> QED
    BY <1>10, <2>1, <2>2 DEF DifferAt
<1>11. CASE Prefix(a, b) /\ Prefix(b, c)
  <2>1. EqualBefore(below, b, c, Len(a) + 1)
    BY <1>5, <1>11 DEF EqualBefore
  <2>2. EqualBefore(below, a, c, Len(a) + 1)
    BY <1>5, <1>6, <1>11, <2>1
  <2> QED
    BY <1>5, <1>11, <2>2
<1>12. ASSUME NEW k \in Nat, Less(a, b, k), Prefix(b, c)
       PROVE  Less(a, c, k)
  <2>1. k \in 1..Len(a) /\ k <= Len(b) /\ k <= Len(c) /\ EqualBefore(below, a, b, k)
    BY <1>5, <1>12 DEF DifferAt
  <2>2. EqualBefore(below, b, c, k) /\ C(b[k], c[k]) = 0
    BY <1>5, <1>12, <2>1 DEF EqualBefore
  <2>3. C(a[k], b[k]) < 0 /\ C(a[k], b[k]) <= 0 /\ C(b[k], c[k]) <= 0
    BY SMTT(30), <1>1, <1>5, <1>12, <2>1, <2>2 DEF Signs
  <2> QED
    BY <1>10, <2>1, <2>2, <2>3
<1>13. ASSUME NEW k \in Nat, Prefix(a, b), Less(b, c, k)
       PROVE  Less(a, c, k) \/ Prefix(a, c)
  <2>1. k \in 1..Len(b) /\ k <= Len(c) /\ EqualBefore(below, b, c, k) /\ C(b[k], c[k]) < 0
    BY <1>13 DEF DifferAt
  <2>2. CASE k <= Len(a)
    <3>1. k \in 1..Len(a) /\ k <= Len(b)
      BY <1>5, <2>1, <2>2
    <3>2. EqualBefore(below, a, b, k) /\ C(a[k], b[k]) = 0
      BY <1>5, <1>13, <3>1 DEF EqualBefore
    <3>3. b[k] \in E /\ c[k] \in E
      BY <1>5, <2>1
    <3>4. C(b[k], c[k]) \in Signs
      BY <1>1, <3>3
    <3>5. C(a[k], b[k]) <= 0 /\ C(b[k], c[k]) <= 0
      BY <2>1, <3>2, <3>4 DEF Signs
    <3> QED
      BY <1>10, <2>1, <3>1, <3>2, <3>5
  <2>3. CASE ~(k <= Len(a))
    <3>1. EqualBefore(below, b, c, Len(a) + 1)
      BY <1>5, <2>1, <2>3 DEF EqualBefore
    <3>2. EqualBefore(below, a, c, Len(a) + 1)
      BY <1>5, <1>6, <1>13, <3>1
    <3> QED
      BY <1>5, <2>1, <2>3, <3>2
  <2> QED
    BY <2>2, <2>3
<1>14. ASSUME NEW k \in Nat, NEW m \in Nat, Less(a, b, k), Less(b, c, m)
       PROVE  Less(a, c, k) \/ Less(a, c, m)
  <2>1. /\ k \in 1..Len(a) /\ k <= Len(b) /\ EqualBefore(below, a, b, k) /\ C(a[k], b[k]) < 0
        /\ m \in 1..Len(b) /\ m <= Len(c) /\ EqualBefore(below, b, c, m) /\ C(b[m], c[m]) < 0
    BY <1>14 DEF DifferAt
  <2>2. CASE k <= m
    <3>1. k <= Len(c) /\ EqualBefore(below, b, c, k)
      BY <1>5, <2>1, <2>2 DEF EqualBefore
    <3>2. C(b[k], c[k]) <= 0
      BY <1>1, <1>5, <2>1, <2>2, <3>1 DEF EqualBefore, Signs
    <3>3. a[k] \in E /\ b[k] \in E
      BY <1>5, <2>1
    <3>4. C(a[k], b[k]) \in Signs
      BY <1>1, <3>3
    <3>5. C(a[k], b[k]) <= 0
      BY <2>1, <3>4 DEF Signs
    <3> QED
      BY <1>10, <2>1, <3>1, <3>2, <3>5
  <2>3. CASE m < k
    <3>1. m \in 1..Len(a) /\ m <= Len(b) /\ EqualBefore(below, a, b, m)
      BY <1>5, <2>1, <2>3 DEF EqualBefore
    <3>2. C(a[m], b[m]) = 0
      BY <2>1, <2>3, <3>1 DEF EqualBefore
    <3>3. b[m] \in E /\ c[m] \in E
      BY <1>5, <2>1
    <3>4. C(b[m], c[m]) \in Signs
      BY <1>1, <3>3
    <3>5. C(b[m], c[m]) <= 0 /\ C(a[m], b[m]) <= 0
      BY <2>1, <3>2, <3>4 DEF Signs
    <3> QED
      BY <1>10, <2>1, <3>1, <3>5
  <2> QED
    BY <2>2, <2>3
<1> QED
  <2> HIDE DEF Less, Prefix
  <2> QED
    BY <1>7, <1>8, <1>11, <1>12, <1>13, <1>14

\* An order of elements gives an order of documents: signs, and exchanging the
\* operands.
LEMMA DocsAntisymmetric ==
    ASSUME NEW E, NEW below, NEW a \in Seq(E), NEW b \in Seq(E),
           \A x, y \in E : /\ CompareElements(below, x, y) \in Signs
                            /\ CompareElements(below, x, y) = -CompareElements(below, y, x)
    PROVE  /\ CompareDocs(below, a, b) \in Signs
           /\ CompareDocs(below, a, b) = -CompareDocs(below, b, a)
<1> DEFINE C(l, r) == CompareElements(below, l, r)
<1>1. \A x, y \in E : C(x, y) \in Signs /\ C(x, y) = -C(y, x)
  OBVIOUS
<1>2. /\ \A i \in 1..Len(a) : a[i] \in E
      /\ \A i \in 1..Len(b) : b[i] \in E
      /\ Len(a) \in Nat /\ Len(b) \in Nat
  OBVIOUS
<1>3. \A i \in 1..Len(a) : i <= Len(b) => (C(a[i], b[i]) = 0 <=> C(b[i], a[i]) = 0)
  BY <1>1, <1>2 DEF Signs
<1>4. CASE \E k \in Nat : DifferAt(below, a, b, k) /\ CompareDocs(below, a, b) = C(a[k], b[k])
  <2>1. PICK k \in Nat : DifferAt(below, a, b, k) /\ CompareDocs(below, a, b) = C(a[k], b[k])
    BY <1>4
  <2>2. /\ k \in 1..Len(a) /\ k \in 1..Len(b) /\ a[k] \in E /\ b[k] \in E
        /\ C(a[k], b[k]) # 0 /\ EqualBefore(below, a, b, k)
    BY <1>2, <2>1 DEF DifferAt
  <2>3. C(b[k], a[k]) # 0 /\ EqualBefore(below, b, a, k)
    BY <1>2, <1>3, <2>2 DEF EqualBefore
  <2>4. ~EqualBefore(below, b, a, Len(b) + 1)
    BY <1>2, <2>2, <2>3 DEF EqualBefore
  <2>5. PICK m \in Nat : DifferAt(below, b, a, m) /\ CompareDocs(below, b, a) = C(b[m], a[m])
    BY <2>4, FirstDifference
  <2>6. m = k
    BY <1>2, <2>2, <2>3, <2>5 DEF DifferAt, EqualBefore
  <2> QED
    BY <1>1, <2>1, <2>2, <2>5, <2>6
<1>5. CASE EqualBefore(below, a, b, Len(a) + 1) /\ CompareDocs(below, a, b) = Sign(Len(a) - Len(b))
  <2>1. \A m \in Nat : ~DifferAt(below, b, a, m)
    BY <1>2, <1>3, <1>5 DEF DifferAt, EqualBefore
  <2>2. CompareDocs(below, b, a) = Sign(Len(b) - Len(a))
    BY <2>1, FirstDifference
  <2>3. Len(a) \in Int /\ Len(b) \in Int
    BY <1>2
  <2>4. Sign(Len(a) - Len(b)) \in Signs /\ Sign(Len(a) - Len(b)) = -Sign(Len(b) - Len(a))
    BY <2>3, SignOfDifference, Zenon
  <2> QED
    BY <1>5, <2>2, <2>4
<1> QED
  BY <1>4, <1>5, FirstDifference

\* bson_compare is an order of the documents whose elements come from an
\* admissible set, if it is one of the documents embedded in them: every integer
\* has a double of its own, and dates and timestamps do not meet.  Without the
\* first condition it is not transitive, without the second it throws.
THEOREM CompareIsOrder ==
    ASSUME NEW D, NEW below, IsOrder(below, D), NEW E \in SUBSET ElementSet(D), Admissible(E)
    PROVE  IsOrder([p \in Seq(E) \X Seq(E) |-> CompareDocs(below, p[1], p[2])], Seq(E))
<1> DEFINE f == [p \in Seq(E) \X Seq(E) |-> CompareDocs(below, p[1], p[2])]
<1>1. /\ \A x, y \in E : /\ CompareElements(below, x, y) \in Signs
                          /\ CompareElements(below, x, y) = -CompareElements(below, y, x)
      /\ \A x, y, z \in E : CompareElements(below, x, y) <= 0 /\ CompareElements(below, y, z) <= 0 =>
                                 CompareElements(below, x, z) <= 0
  BY ElementsOrdered
<1>2. \A a, b \in Seq(E) : f[<<a, b>>] = CompareDocs(below, a, b)
  OBVIOUS
<1>3. \A a, b \in Seq(E) : /\ CompareDocs(below, a, b) \in Signs
                            /\ CompareDocs(below, a, b) = -CompareDocs(below, b, a)
  BY <1>1, DocsAntisymmetric
<1>4. \A a, b, c \in Seq(E) : CompareDocs(below, a, b) <= 0 /\ CompareDocs(below, b, c) <= 0 =>
                                   CompareDocs(below, a, c) <= 0
  BY <1>1, DocsTransitive
<1> HIDE DEF f
<1>5. IsOrder(f, Seq(E))
  BY <1>2, <1>3, <1>4 DEF IsOrder
<1> QED
  BY <1>5 DEF f

\* Documents nested to any depth: D[0] has the empty document only, and D[n + 1]
\* documents of admissible elements in which those of D[n] may be embedded;
\* f[n + 1] compares as CompareDocs does, and what is embedded with f[n].  Every
\* f[n] is an order.
THEOREM NestedCompareIsOrder ==
    ASSUME NEW N \in Nat, NEW D, NEW f,
           D[0] = {<<>>}, f[0][<<<<>>, <<>>>>] = CompareDocs(<<>>, <<>>, <<>>),
           \A n \in 0..(N - 1) :
               /\ \E E \in SUBSET ElementSet(D[n]) : Admissible(E) /\ D[n + 1] \subseteq Seq(E)
               /\ \A a, b \in D[n + 1] : f[n + 1][<<a, b>>] = CompareDocs(f[n], a, b)
    PROVE  \A n \in 0..N : IsOrder(f[n], D[n])
<1> DEFINE T == {n \in 0..N : IsOrder(f[n], D[n])}
<1>1. 0 \in T
  <2>1. {i \in {j \in 1..Len(<<>>) : j <= Len(<<>>)} : CompareElements(<<>>, <<>>[i], <<>>[i]) # 0} = {}
    OBVIOUS
  <2>2. CompareDocs(<<>>, <<>>, <<>>) = Sign(0 - 0)
    BY <2>1 DEF CompareDocs
  <2>3. \A x, y \in D[0] : f[0][<<x, y>>] = Sign(0 - 0)
    BY <2>2
  <2>4. Sign(0 - 0) \in Signs /\ Sign(0 - 0) = -Sign(0 - 0) /\ Sign(0 - 0) <= 0
    BY SignOfDifference
  <2>5. IsOrder(f[0], D[0])
    BY <2>3, <2>4 DEF IsOrder
  <2>6. 0 \in 0..N
    OBVIOUS
  <2> QED
    BY <2>5, <2>6, Zenon
<1>2. ASSUME NEW n \in 0..(N - 1), n \in T PROVE n + 1 \in T
  <2> DEFINE A == D[n + 1]
             g == f[n + 1]
  <2>1. PICK E \in SUBSET ElementSet(D[n]) : Admissible(E) /\ A \subseteq Seq(E)
    BY SMTT(30)
  <2>2. \A a, b \in A : g[<<a, b>>] = CompareDocs(f[n], a, b)
    BY Zenon
  <2>3. IsOrder(f[n], D[n])
    BY <1>2
  <2>4. /\ \A x, y \in E : /\ CompareElements(f[n], x, y) \in Signs
                           /\ CompareElements(f[n], x, y) = -CompareElements(f[n], y, x)
        /\ \A x, y, z \in E : CompareElements(f[n], x, y) <= 0 /\ CompareElements(f[n], y, z) <= 0 =>
                                  CompareElements(f[n], x, z) <= 0
    BY <2>1, <2>3, ElementsOrdered
  <2>5. \A a, b \in Seq(E) : /\ CompareDocs(f[n], a, b) \in Signs
                             /\ CompareDocs(f[n], a, b) = -CompareDocs(f[n], b, a)
    BY <2>4, DocsAntisymmetric
  <2>6. \A a, b, c \in Seq(E) : CompareDocs(f[n], a, b) <= 0 /\ CompareDocs(f[n], b, c) <= 0 =>
                                    CompareDocs(f[n], a, c) <= 0
    BY <2>4, DocsTransitive
  <2> HIDE DEF A, g
  <2>7. \A a, b \in A : g[<<a, b>>] \in Signs /\ g[<<a, b>>] = -g[<<b, a>>]
    <3> SUFFICES ASSUME NEW a \in A, NEW b \in A
                 PROVE  g[<<a, b>>] \in Signs /\ g[<<a, b>>] = -g[<<b, a>>]
      BY Zenon
    <3>1. a \in Seq(E) /\ b \in Seq(E)
      BY <2>1
    <3>2. /\ CompareDocs(f[n], a, b) \in Signs
          /\ CompareDocs(f[n], a, b) = -CompareDocs(f[n], b, a)
      BY <2>5, <3>1
    <3>3. g[<<a, b>>] = CompareDocs(f[n], a, b) /\ g[<<b, a>>] = CompareDocs(f[n], b, a)
      BY <2>2
    <3> QED
      BY <3>2, <3>3
  <2>8. ASSUME NEW a \in A, NEW b \in A, NEW c \in A, g[<<a, b>>] <= 0, g[<<b, c>>] <= 0
        PROVE  g[<<a, c>>] <= 0
    <3>1. a \in Seq(E) /\ b \in Seq(E) /\ c \in Seq(E)
      BY <2>1
    <3>2. CompareDocs(f[n], a, b) <= 0 /\ CompareDocs(f[n], b, c) <= 0
      BY <2>2, <2>8
    <3>3. CompareDocs(f[n], a, c) <= 0
      BY <2>6, <3>1, <3>2
    <3> QED
      BY <2>2, <3>3
  <2>9. IsOrder(g, A)
    BY <2>7, <2>8 DEF IsOrder
  <2> QED
    BY <2>9 DEF A, g
<1> HIDE DEF T
<1>3. \A n \in 0..N : n \in T
  BY <1>1, <1>2, IntervalInduction, Zenon
<1> QED
  BY <1>3 DEF T

-----------------------------------------------------------------------------
(* The btree index *)

FieldsOf(D) == UNION {{d[i] : i \in 1..Len(d)} : d \in D}

\* Documents that bson_compare orders: their elements are admissible, and so are
\* those of the documents embedded in them, which have none embedded.
Column ==
    /\ Docs \subseteq Seq(ElementSet(Subs)) /\ Admissible(FieldsOf(Docs))
    /\ Subs \subseteq Seq(ElementSet({<<>>})) /\ Admissible(FieldsOf(Subs))
    /\ \A e \in FieldsOf(Subs) : e.type \notin {"object", "array"}

\* A document is a sequence of elements of its set.
LEMMA FieldsOfProps ==
    ASSUME NEW D, NEW E, D \subseteq Seq(E)
    PROVE  FieldsOf(D) \subseteq E /\ D \subseteq Seq(FieldsOf(D))
<1>1. FieldsOf(D) \subseteq E
    BY DEF FieldsOf
<1>2. ASSUME NEW d \in D PROVE d \in Seq(FieldsOf(D))
    <2>1. d \in Seq(E) /\ \A i \in 1..Len(d) : d[i] \in FieldsOf(D)
        BY DEF FieldsOf
    <2>2. Len(d) \in Nat /\ d = [i \in 1..Len(d) |-> d[i]]
        BY <2>1
    <2> QED
        BY <2>1, <2>2
<1> QED
    BY <1>1, <1>2

\* The embedded documents of such a column are ordered.
LEMMA SubsOrdered ==
    ASSUME Column
    PROVE  IsOrder(SubOrder, Subs)
<1> DEFINE F == FieldsOf(Subs)
           none == [p \in {<<>>} \X {<<>>} |-> Sign(0 - 0)]
           C(x, y) == CompareElements(<<>>, x, y)
<1>1. F \in SUBSET ElementSet({<<>>}) /\ Subs \subseteq Seq(F) /\ Admissible(F)
    BY FieldsOfProps DEF Column
<1>2. \A e \in F : e.type \notin {"object", "array"}
    BY DEF Column
<1>3. IsOrder(none, {<<>>})
    <2>1. \A x, y \in {<<>>} : none[<<x, y>>] = Sign(0 - 0)
        OBVIOUS
    <2>2. Sign(0 - 0) \in Signs /\ Sign(0 - 0) = -Sign(0 - 0) /\ Sign(0 - 0) <= 0
        BY SignOfDifference
    <2> HIDE DEF none
    <2> QED
        BY <2>1, <2>2 DEF IsOrder
<1> HIDE DEF none, F
<1>4. /\ \A x, y \in F : /\ CompareElements(none, x, y) \in Signs
                         /\ CompareElements(none, x, y) = -CompareElements(none, y, x)
      /\ \A x, y, z \in F : CompareElements(none, x, y) <= 0 /\ CompareElements(none, y, z) <= 0 =>
                                CompareElements(none, x, z) <= 0
    BY <1>1, <1>3, ElementsOrdered
<1>5. ASSUME NEW x \in F, NEW y \in F PROVE C(x, y) = CompareElements(none, x, y)
    <2>1. x.type \notin {"object", "array"}
        BY <1>2
    <2>2. CompareValues(<<>>, x, y) = CompareValues(none, x, y)
        <3>1. x.type \in Types
            BY <1>1 DEF ElementSet
        <3> QED
            BY <2>1, <3>1 DEF CompareValues, Types, Ranked, Numbers
    <2> QED
        BY <2>2 DEF CompareElements
<1>6. /\ \A x, y \in F : C(x, y) \in Signs /\ C(x, y) = -C(y, x)
      /\ \A x, y, z \in F : C(x, y) <= 0 /\ C(y, z) <= 0 => C(x, z) <= 0
    BY <1>4, <1>5
<1>7. \A a, b \in Seq(F) : /\ CompareDocs(<<>>, a, b) \in Signs
                           /\ CompareDocs(<<>>, a, b) = -CompareDocs(<<>>, b, a)
    BY <1>6, DocsAntisymmetric
<1>8. \A a, b, c \in Seq(F) : CompareDocs(<<>>, a, b) <= 0 /\ CompareDocs(<<>>, b, c) <= 0 =>
                                  CompareDocs(<<>>, a, c) <= 0
    BY <1>6, DocsTransitive
<1>9. \A a, b \in Subs : SubOrder[<<a, b>>] = CompareDocs(<<>>, a, b)
    BY DEF SubOrder
<1>10. \A a, b \in Subs : SubOrder[<<a, b>>] \in Signs /\ SubOrder[<<a, b>>] = -SubOrder[<<b, a>>]
    BY <1>1, <1>7, <1>9, Zenon
<1>11. \A a, b, c \in Subs : SubOrder[<<a, b>>] <= 0 /\ SubOrder[<<b, c>>] <= 0 => SubOrder[<<a, c>>] <= 0
    <2> SUFFICES ASSUME NEW a \in Subs, NEW b \in Subs, NEW c \in Subs,
                        SubOrder[<<a, b>>] <= 0, SubOrder[<<b, c>>] <= 0
                 PROVE  SubOrder[<<a, c>>] <= 0
        OBVIOUS
    <2>1. a \in Seq(F) /\ b \in Seq(F) /\ c \in Seq(F)
        BY <1>1
    <2>2. CompareDocs(<<>>, a, b) <= 0 /\ CompareDocs(<<>>, b, c) <= 0
        BY <1>9
    <2>3. CompareDocs(<<>>, a, c) <= 0
        BY <1>8, <2>1, <2>2
    <2> QED
        BY <1>9, <2>3
<1> QED
    BY <1>10, <1>11 DEF IsOrder

\* And so are its documents.
LEMMA ColumnOrdered ==
    ASSUME Column
    PROVE  /\ \A a, b \in Docs : /\ BsonCompare(a, b) \in Signs
                                 /\ BsonCompare(a, b) = -BsonCompare(b, a)
           /\ \A a, b, c \in Docs : BsonCompare(a, b) <= 0 /\ BsonCompare(b, c) <= 0 =>
                                        BsonCompare(a, c) <= 0
<1> DEFINE E == FieldsOf(Docs)
<1>1. E \in SUBSET ElementSet(Subs) /\ Docs \subseteq Seq(E) /\ Admissible(E)
    BY FieldsOfProps DEF Column
<1> HIDE DEF E
<1>2. IsOrder(SubOrder, Subs)
    BY SubsOrdered
<1>3. /\ \A x, y \in E : /\ CompareElements(SubOrder, x, y) \in Signs
                         /\ CompareElements(SubOrder, x, y) = -CompareElements(SubOrder, y, x)
      /\ \A x, y, z \in E : CompareElements(SubOrder, x, y) <= 0 /\ CompareElements(SubOrder, y, z) <= 0 =>
                                CompareElements(SubOrder, x, z) <= 0
    BY <1>1, <1>2, ElementsOrdered
<1>4. \A a, b \in Seq(E) : /\ CompareDocs(SubOrder, a, b) \in Signs
                           /\ CompareDocs(SubOrder, a, b) = -CompareDocs(SubOrder, b, a)
    BY <1>3, DocsAntisymmetric
<1>5. \A a, b, c \in Seq(E) : CompareDocs(SubOrder, a, b) <= 0 /\ CompareDocs(SubOrder, b, c) <= 0 =>
                                  CompareDocs(SubOrder, a, c) <= 0
    BY <1>3, DocsTransitive
<1> QED
    BY <1>1, <1>4, <1>5 DEF BsonCompare

\* Entries come from the column, and each one is not greater than those behind it.
Sorted ==
    /\ index \in Seq(Docs)
    /\ \A i, j \in 1..Len(index) : i <= j => BsonCompare(index[i], index[j]) <= 0

\* What k turns of binary search for d have found out: entries before the range
\* are less than d, entries behind it are not.
Narrowed(d, r, k) ==
    /\ r \in Nat \X Nat /\ 1 <= r[1] /\ r[1] <= r[2] /\ r[2] <= Len(index) + 1
    /\ r[2] - r[1] <= Len(index) - k
    /\ \A i \in 1..Len(index) : /\ i < r[1] => BsonCompare(index[i], d) < 0
                                /\ i >= r[2] => BsonCompare(index[i], d) >= 0

\* A turn halves the range.
LEMMA NarrowStep ==
    ASSUME Column, Sorted, NEW d \in Docs, NEW k \in 0..(Len(index) - 1), NEW r, Narrowed(d, r, k)
    PROVE  Narrowed(d, Narrow(d, r), k + 1)
<1> DEFINE n == Len(index)
           C(i) == BsonCompare(index[i], d)
           mid == (r[1] + r[2]) \div 2
           s == Narrow(d, r)
<1>1. /\ n \in Nat /\ k \in Nat /\ k < n
      /\ r \in Nat \X Nat /\ r[1] \in Nat /\ r[2] \in Nat
      /\ 1 <= r[1] /\ r[1] <= r[2] /\ r[2] <= n + 1 /\ r[2] - r[1] <= n - k
    BY DEF Sorted, Narrowed
<1>2. \A i \in 1..n : /\ i < r[1] => C(i) < 0
                      /\ i >= r[2] => C(i) >= 0
    BY DEF Narrowed
<1>3. \A i \in 1..n : index[i] \in Docs
    BY DEF Sorted
<1>4. \A i \in 1..n : C(i) \in Signs
    BY <1>3, ColumnOrdered
<1>5. \A i, j \in 1..n : i <= j /\ C(j) < 0 => C(i) < 0
    <2> SUFFICES ASSUME NEW i \in 1..n, NEW j \in 1..n, i <= j, C(j) < 0 PROVE C(i) < 0
        OBVIOUS
    <2>1. BsonCompare(index[i], index[j]) <= 0
        BY DEF Sorted
    <2>2. ASSUME C(i) = 0 \/ C(i) = 1 PROVE FALSE
        <3>1. BsonCompare(d, index[i]) <= 0
            <4>1. C(i) = -BsonCompare(d, index[i]) /\ BsonCompare(d, index[i]) \in Signs
                BY <1>3, ColumnOrdered
            <4> QED
                BY <2>2, <4>1 DEF Signs
        <3>2. BsonCompare(d, index[j]) <= 0
            BY <1>3, <2>1, <3>1, ColumnOrdered
        <3>3. BsonCompare(d, index[j]) = -C(j) /\ C(j) \in Signs
            BY <1>3, ColumnOrdered
        <3> QED
            BY <3>2, <3>3 DEF Signs
    <2> QED
        BY <1>4, <2>2 DEF Signs
<1> HIDE DEF C
<1>6. CASE r[1] = r[2]
    <2>1. s = r
        BY <1>6 DEF Narrow
    <2>2. r[2] - r[1] <= n - (k + 1)
        BY <1>1, <1>6
    <2> QED
        BY <1>1, <2>1, <2>2 DEF Narrowed
<1>7. CASE r[1] # r[2]
    <2>1. mid \in Nat /\ r[1] <= mid /\ mid < r[2] /\ mid \in 1..n
        BY <1>1, <1>7
    <2>2. C(mid) \in Signs /\ C(mid) # Throws
        BY <1>4, <2>1 DEF Signs, Throws
    <2>3. s = IF C(mid) < 0 THEN <<mid + 1, r[2]>> ELSE <<r[1], mid>>
        BY <1>7, <2>2 DEF Narrow, C
    <2> HIDE DEF mid, s, n
    <2>4. CASE C(mid) < 0
        <3>1. s \in Nat \X Nat /\ s[1] = mid + 1 /\ s[2] = r[2]
            BY <1>1, <2>1, <2>3, <2>4
        <3>2. 1 <= s[1] /\ s[1] <= s[2] /\ s[2] <= n + 1 /\ s[2] - s[1] <= n - (k + 1)
            BY <1>1, <2>1, <3>1
        <3>3. \A i \in 1..n : (i < s[1] => C(i) < 0) /\ (i >= s[2] => C(i) >= 0)
            <4>1. \A i \in 1..n : i < mid + 1 => i <= mid
                BY <2>1
            <4> QED
                BY <1>2, <1>5, <2>1, <2>4, <3>1, <4>1
        <3> QED
            BY <3>1, <3>2, <3>3 DEF Narrowed, C, n, s
    <2>5. CASE ~(C(mid) < 0)
        <3>1. s \in Nat \X Nat /\ s[1] = r[1] /\ s[2] = mid
            BY <1>1, <2>1, <2>3, <2>5
        <3>2. 1 <= s[1] /\ s[1] <= s[2] /\ s[2] <= n + 1 /\ s[2] - s[1] <= n - (k + 1)
            BY <1>1, <2>1, <3>1
        <3>3. \A i \in 1..n : (i < s[1] => C(i) < 0) /\ (i >= s[2] => C(i) >= 0)
            <4>1. \A i \in 1..n : i >= mid => ~(C(i) < 0)
                BY <1>5, <2>1, <2>5
            <4>2. \A i \in 1..n : ~(C(i) < 0) => C(i) >= 0
                BY <1>4 DEF Signs
            <4> QED
                BY <1>2, <3>1, <4>1, <4>2
        <3> QED
            BY <3>1, <3>2, <3>3 DEF Narrowed, C, n, s
    <2> QED
        BY <2>4, <2>5
<1> QED
    BY <1>6, <1>7

\* The turns of binary search.
Searches(d, range) ==
    /\ range[0] = <<1, Len(index) + 1>> /\ Place(d) = range[Len(index)][1]
    /\ \A k \in 0..(Len(index) - 1) : range[k + 1] = Narrow(d, range[k])

\* What the recursive definition of the turns computes.
LEMMA SearchExists ==
    ASSUME index \in Seq(Docs), NEW d
    PROVE  \E range : Searches(d, range)
<1> DEFINE N == Len(index)
           X == Nat \X Nat
           b == <<1, N + 1>>
           step == [k \in 1..N |-> [r \in X |-> Narrow(d, r)]]
           Eqn(f) == f = [k \in 0..N |-> IF k = 0 THEN b ELSE Narrow(d, f[k - 1])]
           range == CHOOSE f : Eqn(f)
<1>1. N \in Nat /\ b \in X
    OBVIOUS
<1>2. \A r \in X : Narrow(d, r) \in X
    <2> SUFFICES ASSUME NEW r \in X PROVE Narrow(d, r) \in X
        OBVIOUS
    <2>1. r[1] \in Nat /\ r[2] \in Nat /\ (r[1] + r[2]) \div 2 \in Nat
        OBVIOUS
    <2>2. Narrow(d, r) \in {r, <<0, 0>>, <<(r[1] + r[2]) \div 2 + 1, r[2]>>, <<r[1], (r[1] + r[2]) \div 2>>}
        BY DEF Narrow
    <2> QED
        BY <2>1, <2>2
<1>3. Place(d) = range[N][1]
    BY DEF Place
<1>4. \A k \in 1..N, r \in X : step[k][r] = Narrow(d, r)
    OBVIOUS
<1> HIDE DEF X
<1>5. step \in [1..N -> [X -> X]]
    BY <1>2
<1> HIDE DEF N, b, step
<1>15. PICK f \in [0..N -> X] : f[0] = b /\ \A k \in 1..N : f[k] = step[k][f[k - 1]]
    BY <1>1, <1>5, LoopExists
<1>6. ASSUME NEW k \in 0..N PROVE f[k] = IF k = 0 THEN b ELSE Narrow(d, f[k - 1])
    <2>1. CASE k # 0
        <3>1. k \in 1..N /\ k - 1 \in 0..N
            BY <1>1, <2>1
        <3> QED
            BY <1>4, <1>15, <2>1, <3>1
    <2> QED
        BY <1>15, <2>1
<1>7. Eqn(f)
    BY <1>6
<1>8. Eqn(range)
    BY <1>7, Zenon
<1> HIDE DEF range
<1>9. range[0] = b /\ \A k \in 0..(N - 1) : range[k + 1] = Narrow(d, range[k])
    BY <1>1, <1>8
<1>10. Searches(d, range)
    BY <1>3, <1>9 DEF Searches, N, b
<1> QED
    BY <1>10

\* Binary search ends at the first entry that is not less than d.
LEMMA PlaceProps ==
    ASSUME Column, Sorted, NEW d \in Docs
    PROVE  /\ Place(d) \in 1..(Len(index) + 1)
           /\ \A i \in 1..Len(index) : /\ i < Place(d) => BsonCompare(index[i], d) < 0
                                       /\ i >= Place(d) => BsonCompare(index[i], d) >= 0
<1> DEFINE N == Len(index)
           b == <<1, N + 1>>
<1>1. N \in Nat /\ b \in Nat \X Nat
    BY DEF Sorted
<1>2. PICK range : Searches(d, range)
    BY SearchExists DEF Sorted
<1>3. Place(d) = range[N][1]
    BY <1>2 DEF Searches
<1>9. range[0] = b /\ \A k \in 0..(N - 1) : range[k + 1] = Narrow(d, range[k])
    BY <1>2 DEF Searches
<1> HIDE DEF N, b
<1> DEFINE T == {k \in 0..N : Narrowed(d, range[k], k)}
<1>10. 0 \in T
    <2>1. b[1] = 1 /\ b[2] = N + 1
        BY DEF b
    <2>2. \A i \in 1..N : ~(i < 1) /\ ~(i >= N + 1)
        BY <1>1
    <2>3. Narrowed(d, b, 0)
        BY <1>1, <2>1, <2>2 DEF Narrowed, N
    <2> QED
        BY <1>1, <1>9, <2>3
<1>11. \A k \in 0..(N - 1) : k \in T => k + 1 \in T
    BY <1>1, <1>9, NarrowStep DEF N
<1> HIDE DEF T
<1>12. \A k \in 0..N : k \in T
    BY <1>1, <1>10, <1>11, IntervalInduction
<1>13. Narrowed(d, range[N], N)
    <2>1. N \in T
        BY <1>1, <1>12
    <2> QED
        BY <2>1 DEF T
<1>14. range[N][1] = range[N][2] /\ range[N][1] \in 1..(N + 1)
    BY <1>1, <1>13 DEF Narrowed, N
<1> QED
    BY <1>3, <1>13, <1>14 DEF Narrowed, N

\* The entries s with d inserted at place i, and with entry i taken out.
Inserted(s, d, i) == SubSeq(s, 1, i - 1) \o <<d>> \o SubSeq(s, i, Len(s))

Removed(s, i) == SubSeq(s, 1, i - 1) \o SubSeq(s, i + 1, Len(s))

\* The entries after an insertion at place i.
LEMMA InsertedAt ==
    ASSUME NEW D, NEW s \in Seq(D), NEW d \in D, NEW i \in 1..(Len(s) + 1)
    PROVE  /\ Inserted(s, d, i) \in Seq(D)
           /\ Len(Inserted(s, d, i)) = Len(s) + 1
           /\ \A k \in 1..(Len(s) + 1) :
                  Inserted(s, d, i)[k] = IF k < i THEN s[k] ELSE IF k = i THEN d ELSE s[k - 1]
<1> DEFINE a == SubSeq(s, 1, i - 1)
           z == SubSeq(s, i, Len(s))
<1>1. a \in Seq(D) /\ Len(a) = i - 1 /\ \A k \in 1..(i - 1) : a[k] = s[k]
    OBVIOUS
<1>2. z \in Seq(D) /\ Len(z) = Len(s) - i + 1 /\ \A k \in 1..(Len(s) - i + 1) : z[k] = s[i + k - 1]
    OBVIOUS
<1> HIDE DEF a, z
<1> DEFINE m == a \o <<d>>
<1>3. m \in Seq(D) /\ Len(m) = i /\ m[i] = d /\ \A k \in 1..(i - 1) : m[k] = s[k]
    BY <1>1
<1> HIDE DEF m
<1> DEFINE t == m \o z
<1>8. Inserted(s, d, i) = t
    BY DEF Inserted, m, a, z
<1>4. t \in Seq(D) /\ Len(t) = Len(s) + 1
    <2>1. m \in Seq(D) /\ z \in Seq(D)
        BY <1>2, <1>3
    <2>2. t \in Seq(D) /\ Len(t) = Len(m) + Len(z)
        BY <2>1
    <2> QED
        BY <1>2, <1>3, <2>2
<1>5. \A k \in 1..i : t[k] = m[k]
    BY <1>2, <1>3
<1>6. \A k \in (i + 1)..(Len(s) + 1) : t[k] = s[k - 1]
    <2> SUFFICES ASSUME NEW k \in (i + 1)..(Len(s) + 1) PROVE t[k] = s[k - 1]
        BY Zenon
    <2>1. t[k] = z[k - i] /\ k - i \in 1..(Len(s) - i + 1)
        BY <1>2, <1>3
    <2>2. z[k - i] = s[i + (k - i) - 1]
        BY <1>2, <2>1
    <2>3. i + (k - i) - 1 = k - 1
        OBVIOUS
    <2> QED
        BY <2>1, <2>2, <2>3
<1> HIDE DEF t
<1>7. ASSUME NEW k \in 1..(Len(s) + 1) PROVE t[k] = IF k < i THEN s[k] ELSE IF k = i THEN d ELSE s[k - 1]
    <2>1. CASE k < i
        BY <1>3, <1>5, <2>1
    <2>2. CASE k = i
        BY <1>3, <1>5, <2>2
    <2>3. CASE k > i
        <3>1. k \in (i + 1)..(Len(s) + 1)
            BY <2>3
        <3> QED
            BY <1>6, <2>3, <3>1
    <2>4. k \in Int /\ i \in Int
        OBVIOUS
    <2> QED
        BY <2>1, <2>2, <2>3, <2>4
<1> QED
    BY <1>4, <1>7, <1>8

\* The entries after entry i is taken out.
LEMMA RemovedAt ==
    ASSUME NEW D, NEW s \in Seq(D), NEW i \in 1..Len(s)
    PROVE  /\ Removed(s, i) \in Seq(D)
           /\ Len(Removed(s, i)) = Len(s) - 1
           /\ \A k \in 1..(Len(s) - 1) : Removed(s, i)[k] = IF k < i THEN s[k] ELSE s[k + 1]
<1> DEFINE a == SubSeq(s, 1, i - 1)
           z == SubSeq(s, i + 1, Len(s))
<1>1. a \in Seq(D) /\ Len(a) = i - 1 /\ \A k \in 1..(i - 1) : a[k] = s[k]
    OBVIOUS
<1>2. z \in Seq(D) /\ Len(z) = Len(s) - i /\ \A k \in 1..(Len(s) - i) : z[k] = s[i + k]
    OBVIOUS
<1> DEFINE t == a \o z
<1>5. Removed(s, i) = t
    BY DEF Removed
<1> HIDE DEF a, z
<1>3. t \in Seq(D) /\ Len(t) = Len(s) - 1
    <2>1. a \in Seq(D) /\ z \in Seq(D)
        BY <1>1, <1>2
    <2>2. t \in Seq(D) /\ Len(t) = Len(a) + Len(z)
        BY <2>1
    <2> QED
        BY <1>1, <1>2, <2>2
<1>4. ASSUME NEW k \in 1..(Len(s) - 1) PROVE t[k] = IF k < i THEN s[k] ELSE s[k + 1]
    <2>1. CASE k < i
        BY <1>1, <1>2, <2>1
    <2>2. ASSUME k >= i PROVE t[k] = s[k + 1] /\ ~(k < i)
        <3>1. t[k] = z[k - i + 1] /\ k - i + 1 \in 1..(Len(s) - i)
            BY <1>1, <1>2, <2>2
        <3>2. z[k - i + 1] = s[i + (k - i + 1)]
            BY <1>2, <3>1
        <3>3. i + (k - i + 1) = k + 1
            OBVIOUS
        <3> QED
            BY <2>2, <3>1, <3>2, <3>3
    <2> HIDE DEF t
    <2>3. k < i \/ k >= i
        OBVIOUS
    <2> QED
        BY <2>1, <2>2, <2>3
<1> HIDE DEF t
<1> QED
    BY <1>3, <1>4, <1>5

\* Sorted, and nothing has thrown: the invariant of the index.
BInv == Sorted /\ backend = "up"

\* An insertion where binary search ended keeps the entries sorted.
LEMMA InsertSorted ==
    ASSUME Column, BInv, NEW d \in Docs, Insert(d)
    PROVE  BInv'
<1> DEFINE i == Place(d)
           n == Len(index)
<1>0. Sorted
    BY DEF BInv
<1>1. i \in 1..(n + 1)
    BY <1>0, PlaceProps
<1>10. /\ \A k \in 1..n : k < i => BsonCompare(index[k], d) < 0
       /\ \A k \in 1..n : k >= i => BsonCompare(index[k], d) >= 0
    BY <1>0, PlaceProps
<1>2. index \in Seq(Docs) /\ n \in Nat /\ \A k \in 1..n : index[k] \in Docs
    BY DEF BInv, Sorted
<1>3. index' = Inserted(index, d, i) /\ backend' = "up"
    <2>1. i # 0
        BY <1>1, <1>2
    <2> QED
        BY <2>1, Zenon DEF Insert, BInv, Inserted
<1> HIDE DEF i
<1>4. /\ index' \in Seq(Docs) /\ Len(index') = n + 1
      /\ \A k \in 1..(n + 1) :
             index'[k] = IF k < i THEN index[k] ELSE IF k = i THEN d ELSE index[k - 1]
    <2>1. /\ Inserted(index, d, i) \in Seq(Docs) /\ Len(Inserted(index, d, i)) = Len(index) + 1
          /\ \A k \in 1..(Len(index) + 1) :
                 Inserted(index, d, i)[k] = IF k < i THEN index[k] ELSE IF k = i THEN d ELSE index[k - 1]
        BY <1>1, <1>2, InsertedAt
    <2> QED
        BY <1>3, <2>1, Zenon
<1>5. \A j, k \in 1..n : j <= k => BsonCompare(index[j], index[k]) <= 0
    BY DEF BInv, Sorted
<1> HIDE DEF n
<1>6. \A k \in 1..n : k < i => BsonCompare(index[k], d) <= 0
    <2> SUFFICES ASSUME NEW k \in 1..n, k < i PROVE BsonCompare(index[k], d) <= 0
        OBVIOUS
    <2>1. BsonCompare(index[k], d) < 0
        BY <1>10, Zenon
    <2>2. BsonCompare(index[k], d) \in Signs
        BY <1>2, ColumnOrdered
    <2> QED
        BY <2>1, <2>2 DEF Signs
<1>7. \A k \in 1..n : k >= i => BsonCompare(d, index[k]) <= 0
    <2> SUFFICES ASSUME NEW k \in 1..n, k >= i PROVE BsonCompare(d, index[k]) <= 0
        OBVIOUS
    <2>1. BsonCompare(index[k], d) >= 0
        BY <1>10, Zenon
    <2>2. /\ BsonCompare(index[k], d) \in Signs
          /\ BsonCompare(d, index[k]) = -BsonCompare(index[k], d)
        BY <1>2, ColumnOrdered
    <2> QED
        BY <2>1, <2>2 DEF Signs
<1>8. BsonCompare(d, d) <= 0
    <2>1. BsonCompare(d, d) \in Signs /\ BsonCompare(d, d) = -BsonCompare(d, d)
        BY ColumnOrdered
    <2> QED
        BY <2>1 DEF Signs
<1>9. ASSUME NEW j \in 1..(n + 1), NEW k \in 1..(n + 1), j <= k
      PROVE  BsonCompare(index'[j], index'[k]) <= 0
    <2>1. CASE k < i
        <3>1. j \in 1..n /\ k \in 1..n /\ j < i
            BY <1>1, <1>2, <1>9, <2>1 DEF n
        <3>2. index'[j] = index[j] /\ index'[k] = index[k]
            BY <1>4, <2>1, <3>1
        <3> QED
            BY <1>5, <1>9, <3>1, <3>2
    <2>2. CASE k = i /\ j < i
        <3>1. j \in 1..n
            BY <1>1, <1>2, <2>2 DEF n
        <3>2. index'[j] = index[j] /\ index'[k] = d
            BY <1>4, <2>2
        <3> QED
            BY <1>6, <2>2, <3>1, <3>2
    <2>3. CASE k = i /\ j = i
        BY <1>4, <1>8, <2>3
    <2>4. CASE k > i /\ j < i
        <3>1. j \in 1..n /\ k - 1 \in 1..n /\ j <= k - 1
            BY <1>1, <1>2, <2>4 DEF n
        <3>2. index'[j] = index[j] /\ index'[k] = index[k - 1]
            BY <1>1, <1>4, <2>4
        <3> QED
            BY <1>5, <3>1, <3>2
    <2>5. CASE k > i /\ j = i
        <3>1. k - 1 \in 1..n /\ k - 1 >= i
            BY <1>1, <1>2, <2>5 DEF n
        <3>2. index'[j] = d /\ index'[k] = index[k - 1]
            BY <1>1, <1>4, <2>5
        <3> QED
            BY <1>7, <3>1, <3>2
    <2>6. CASE k > i /\ j > i
        <3>1. j - 1 \in 1..n /\ k - 1 \in 1..n /\ j - 1 <= k - 1
            BY <1>1, <1>2, <1>9, <2>6 DEF n
        <3>2. index'[j] = index[j - 1] /\ index'[k] = index[k - 1]
            BY <1>1, <1>4, <2>6
        <3> QED
            BY <1>5, <3>1, <3>2
    <2>7. j \in Int /\ k \in Int /\ i \in Int
        BY <1>1, <1>2 DEF n
    <2> QED
        BY <1>9, <2>1, <2>2, <2>3, <2>4, <2>5, <2>6, <2>7
<1> QED
    BY <1>3, <1>4, <1>9, Zenon DEF BInv, Sorted, BsonCompare, SubOrder

\* So does taking out an entry.
LEMMA DeleteSorted ==
    ASSUME BInv, NEW i \in 1..Len(index), Delete(i)
    PROVE  BInv'
<1> DEFINE n == Len(index)
<1>1. index \in Seq(Docs) /\ n \in Nat
    BY DEF BInv, Sorted
<1>2. index' = Removed(index, i) /\ backend' = "up"
    BY DEF Delete, BInv, Removed
<1>3. /\ index' \in Seq(Docs) /\ Len(index') = n - 1
      /\ \A k \in 1..(n - 1) : index'[k] = IF k < i THEN index[k] ELSE index[k + 1]
    <2>1. /\ Removed(index, i) \in Seq(Docs) /\ Len(Removed(index, i)) = Len(index) - 1
          /\ \A k \in 1..(Len(index) - 1) :
                 Removed(index, i)[k] = IF k < i THEN index[k] ELSE index[k + 1]
        BY <1>1, RemovedAt
    <2> QED
        BY <1>2, <2>1, Zenon
<1>4. \A j, k \in 1..n : j <= k => BsonCompare(index[j], index[k]) <= 0
    BY DEF BInv, Sorted
<1>5. i \in Int
    BY <1>1
<1> HIDE DEF n
<1>6. ASSUME NEW j \in 1..(n - 1), NEW k \in 1..(n - 1), j <= k
      PROVE  BsonCompare(index'[j], index'[k]) <= 0
    <2> DEFINE x == IF j < i THEN j ELSE j + 1
               y == IF k < i THEN k ELSE k + 1
    <2>1. x \in 1..n /\ y \in 1..n /\ x <= y
        BY <1>1, <1>5, <1>6 DEF n
    <2>2. index'[j] = index[x] /\ index'[k] = index[y]
        BY <1>3
    <2> HIDE DEF x, y
    <2> QED
        BY <1>4, <2>1, <2>2
<1> QED
    BY <1>2, <1>3, <1>6, Zenon DEF BInv, Sorted, BsonCompare, SubOrder

\* However rows are inserted and deleted, the entries of a column whose documents
\* satisfy Column stay sorted, and no comparison throws.
THEOREM IndexInvariant == Column /\ Spec => []BInv
<1> SUFFICES ASSUME Column PROVE Spec => []BInv
    OBVIOUS
<1>1. Init => BInv
    BY DEF Init, BInv, Sorted
<1>2. BInv /\ [Next]_vars => BInv'
    <2> SUFFICES ASSUME BInv, [Next]_vars PROVE BInv'
        OBVIOUS
    <2>1. CASE \E d \in Docs : Insert(d)
        BY <2>1, InsertSorted
    <2>2. CASE \E i \in 1..Len(index) : Delete(i)
        BY <2>2, DeleteSorted
    <2>3. CASE UNCHANGED vars
        BY <2>3, Zenon DEF vars, BInv, Sorted, BsonCompare, SubOrder
    <2> QED
        BY <2>1, <2>2, <2>3 DEF Next
<1> QED
    BY <1>1, <1>2, PTL DEF Spec

\* bson_compare orders all entries of the index, not only neighbours, and turning
\* its operands round turns its sign.
THEOREM IndexStaysSorted == Column /\ Spec => []IndexSorted
<1> SUFFICES ASSUME Column PROVE Spec => []IndexSorted
    OBVIOUS
<1>1. BInv => IndexSorted
    <2> SUFFICES ASSUME BInv, NEW i \in 1..Len(index), NEW j \in 1..Len(index)
                 PROVE  /\ i <= j => BsonCompare(index[i], index[j]) <= 0
                        /\ BsonCompare(index[i], index[j]) = -BsonCompare(index[j], index[i])
        BY DEF IndexSorted
    <2>1. index[i] \in Docs /\ index[j] \in Docs
        BY DEF BInv, Sorted
    <2>2. BsonCompare(index[i], index[j]) = -BsonCompare(index[j], index[i])
        BY <2>1, ColumnOrdered
    <2>3. i <= j => BsonCompare(index[i], index[j]) <= 0
        BY DEF BInv, Sorted
    <2> QED
        BY <2>2, <2>3
<1> QED
    BY <1>1, IndexInvariant, PTL

\* WHERE data = d finds by binary search in the index what comparing every row
\* with bson_compare would find, and the search never throws.
THEOREM IndexFindsAll == Column /\ Spec => [](IndexFinds /\ \A d \in Docs : Place(d) # 0)
<1> SUFFICES ASSUME Column PROVE Spec => [](IndexFinds /\ \A d \in Docs : Place(d) # 0)
    OBVIOUS
<1>1. ASSUME BInv, NEW d \in Docs
      PROVE  /\ Place(d) # 0
             /\ Found(d) <=> \E i \in 1..Len(index) : BsonCompare(index[i], d) = 0
    <2> DEFINE p == Place(d)
               n == Len(index)
    <2>1. Sorted /\ n \in Nat
        BY <1>1 DEF BInv, Sorted
    <2>2. p \in 1..(n + 1)
        BY <1>1, <2>1, PlaceProps
    <2>3. /\ \A k \in 1..n : k < p => BsonCompare(index[k], d) < 0
          /\ \A k \in 1..n : k >= p => BsonCompare(index[k], d) >= 0
        BY <1>1, <2>1, PlaceProps
    <2>4. ASSUME NEW i \in 1..n, BsonCompare(index[i], d) = 0 PROVE Found(d)
        <3>1. ~(i < p) /\ p \in 1..n /\ p <= i
            <4>1. ~(i < p)
                BY <2>3, <2>4
            <4> QED
                BY <2>1, <2>2, <4>1
        <3>2. index[p] \in Docs /\ index[i] \in Docs
            BY <2>1, <3>1 DEF Sorted
        <3>3. BsonCompare(index[p], index[i]) <= 0
            BY <2>1, <3>1 DEF Sorted
        <3>4. BsonCompare(index[p], d) <= 0
            <4>1. BsonCompare(index[i], d) <= 0
                BY <2>4
            <4> QED
                BY <1>1, <3>2, <3>3, <4>1, ColumnOrdered
        <3>5. BsonCompare(index[p], d) >= 0
            BY <2>2, <2>3, <3>1
        <3>6. BsonCompare(index[p], d) \in Signs
            BY <1>1, <3>2, ColumnOrdered
        <3>7. BsonCompare(index[p], d) = 0
            BY <3>4, <3>5, <3>6 DEF Signs
        <3> QED
            BY <3>1, <3>7 DEF Found
    <2>5. Found(d) => \E i \in 1..n : BsonCompare(index[i], d) = 0
        BY DEF Found
    <2>6. p # 0
        BY <2>1, <2>2
    <2> HIDE DEF p
    <2> QED
        BY <2>4, <2>5, <2>6 DEF p
<1>2. BInv => IndexFinds /\ \A d \in Docs : Place(d) # 0
    BY <1>1 DEF IndexFinds
<1> QED
    BY <1>2, IndexInvariant, PTL

-----------------------------------------------------------------------------
(* What ends the backend.  Nothing is asked of the documents here but their     *)
(* types: numbers may be any, and dates and timestamps may occur together.      *)

TypedColumn ==
    /\ Docs \subseteq Seq(ElementSet(Subs)) /\ Subs \subseteq Seq(ElementSet({<<>>}))
    /\ \A e \in FieldsOf(Subs) : e.type \notin {"object", "array"}

\* A date stands where the other document has a timestamp.
DateBesideStamp(a, b) ==
    \E i \in 1..Len(a) : i <= Len(b) /\ a[i].type = "date" /\ b[i].type = "timestamp"

\* The same, in the documents or in those embedded at one place of both.
DateMeetsStamp(a, b) ==
    \/ DateBesideStamp(a, b)
    \/ \E i \in 1..Len(a) : /\ i <= Len(b) /\ a[i].type \in {"object", "array"} /\ b[i].type = a[i].type
                             /\ DateBesideStamp(a[i].sub, b[i].sub)

\* compareElementValues throws itself only for a date and a timestamp.
LEMMA WhatThrows ==
    ASSUME NEW D, NEW below, NEW l \in ElementSet(D), NEW r \in ElementSet(D),
           CompareElements(below, l, r) = Throws
    PROVE  \/ l.type = "date" /\ r.type = "timestamp"
           \/ l.type \in {"object", "array"} /\ r.type = l.type /\ below[<<l.sub, r.sub>>] = Throws
<1>1. /\ l.type \in Types /\ r.type \in Types /\ l.name \in Int /\ r.name \in Int
      /\ l.v \in Int /\ r.v \in Int /\ l.w \in Int /\ r.w \in Int
    BY DEF ElementSet
<1>2. \A a, b \in Int : Sign(a - b) # Throws
    BY DEF Sign, Throws
<1>3. Canonical(l.type) \in Int /\ Canonical(r.type) \in Int
    BY <1>1, CanonicalInt
<1>4. Canonical(l.type) = Canonical(r.type) /\ CompareValues(below, l, r) = Throws
    BY <1>1, <1>2, <1>3 DEF CompareElements
<1>5. \/ l.type = r.type
      \/ l.type \in Numbers /\ r.type \in Numbers
      \/ l.type \in {"string", "symbol"} /\ r.type \in {"string", "symbol"}
      \/ l.type \in {"date", "timestamp"} /\ r.type \in {"date", "timestamp"}
    BY <1>1, <1>4, SamePlace
<1>6. CASE l.type \in {"undefined", "null", "minkey", "maxkey"}
    <2>1. CompareValues(below, l, r) = Sign(Canonical(l.type) - Canonical(r.type))
        BY <1>6 DEF CompareValues, Ranked, Numbers
    <2> QED
        BY <1>2, <1>3, <1>4, <2>1
<1>7. CASE l.type \in Ranked
    <2>1. CompareValues(below, l, r) = Sign(l.v - r.v)
        BY <1>7 DEF CompareValues, Ranked, Numbers
    <2> QED
        BY <1>1, <1>2, <1>4, <2>1
<1>8. CASE l.type = "timestamp"
    <2>1. CompareValues(below, l, r) = Sign(Unsigned(l.v) - Unsigned(r.v))
        BY <1>8 DEF CompareValues, Ranked, Numbers
    <2>2. Unsigned(l.v) \in Int /\ Unsigned(r.v) \in Int
        BY <1>1, OrderAssumption DEF Unsigned
    <2> QED
        BY <1>2, <1>4, <2>1, <2>2
<1>9. CASE l.type = "date"
    <2>1. CompareValues(below, l, r) = IF r.type = "date" THEN Sign(l.v - r.v) ELSE Throws
        BY <1>9 DEF CompareValues, Ranked, Numbers
    <2>2. r.type # "date"
        BY <1>1, <1>2, <1>4, <2>1
    <2> QED
        BY <1>5, <1>9, <2>2 DEF Numbers
<1>10. CASE l.type \in Numbers
    <2>1. CompareValues(below, l, r) = CompareNumbers(l, r)
        BY <1>10 DEF CompareValues, Ranked, Numbers
    <2>2. Number(l) \in Int /\ Number(r) \in Int
        BY <1>1 DEF Number, ToDouble
    <2>3. CompareDoubles(Number(l), Number(r)) # Throws
        BY <2>2, DoublesOrdered DEF Signs, Throws
    <2> QED
        BY <1>1, <1>2, <1>4, <2>1, <2>3 DEF CompareNumbers
<1>11. CASE l.type \in {"object", "array"}
    <2>1. CompareValues(below, l, r) = below[<<l.sub, r.sub>>]
        BY <1>11 DEF CompareValues, Ranked, Numbers
    <2> QED
        BY <1>4, <1>5, <1>11, <2>1 DEF Numbers
<1>12. CASE l.type = "codewscope"
    <2>1. CompareValues(below, l, r) = IF l.v # r.v THEN Sign(l.v - r.v) ELSE Sign(l.w - r.w)
        BY <1>12 DEF CompareValues, Ranked, Numbers
    <2> QED
        BY <1>1, <1>2, <1>4, <2>1
<1> QED
    BY <1>1, <1>6, <1>7, <1>8, <1>9, <1>10, <1>11, <1>12, Zenon DEF Types

\* If comparing two documents throws, comparing two elements at one place does.
LEMMA WhereThrows ==
    ASSUME NEW E, NEW below, NEW a \in Seq(E), NEW b \in Seq(E), CompareDocs(below, a, b) = Throws
    PROVE  \E k \in 1..Len(a) : k <= Len(b) /\ CompareElements(below, a[k], b[k]) = Throws
<1>1. Len(a) \in Nat /\ Len(b) \in Nat
    OBVIOUS
<1>2. Sign(Len(a) - Len(b)) # Throws
    BY <1>1 DEF Sign, Throws
<1>3. PICK k \in Nat : DifferAt(below, a, b, k) /\ CompareDocs(below, a, b) = CompareElements(below, a[k], b[k])
    BY <1>2, FirstDifference
<1> QED
    BY <1>3 DEF DifferAt

\* The comparison of two documents of the column throws only for a date and a
\* timestamp in the same place.
LEMMA ThrowsOnlyThere ==
    ASSUME TypedColumn, NEW a \in Docs, NEW b \in Docs, BsonCompare(a, b) = Throws
    PROVE  DateMeetsStamp(a, b)
<1>1. a \in Seq(ElementSet(Subs)) /\ b \in Seq(ElementSet(Subs)) /\ CompareDocs(SubOrder, a, b) = Throws
    BY DEF TypedColumn, BsonCompare
<1>2. PICK k \in 1..Len(a) : k <= Len(b) /\ CompareElements(SubOrder, a[k], b[k]) = Throws
    BY <1>1, WhereThrows
<1>3. a[k] \in ElementSet(Subs) /\ b[k] \in ElementSet(Subs)
    BY <1>1, <1>2
<1>4. \/ a[k].type = "date" /\ b[k].type = "timestamp"
      \/ a[k].type \in {"object", "array"} /\ b[k].type = a[k].type /\ SubOrder[<<a[k].sub, b[k].sub>>] = Throws
    BY <1>2, <1>3, WhatThrows
<1>5. CASE a[k].type = "date" /\ b[k].type = "timestamp"
    BY <1>2, <1>5 DEF DateMeetsStamp, DateBesideStamp
<1>6. CASE a[k].type \in {"object", "array"} /\ b[k].type = a[k].type /\ SubOrder[<<a[k].sub, b[k].sub>>] = Throws
    <2> DEFINE x == a[k].sub
               y == b[k].sub
    <2>1. x \in Subs /\ y \in Subs
        BY <1>3 DEF ElementSet
    <2>2. CompareDocs(<<>>, x, y) = Throws
        <3>1. SubOrder[<<x, y>>] = CompareDocs(<<>>, x, y)
            BY <2>1 DEF SubOrder
        <3> QED
            BY <1>6, <3>1
    <2> HIDE DEF x, y
    <2>3. x \in Seq(ElementSet({<<>>})) /\ y \in Seq(ElementSet({<<>>}))
        BY <2>1 DEF TypedColumn
    <2>4. PICK i \in 1..Len(x) : i <= Len(y) /\ CompareElements(<<>>, x[i], y[i]) = Throws
        BY <2>2, <2>3, WhereThrows
    <2>5. x[i] \in ElementSet({<<>>}) /\ y[i] \in ElementSet({<<>>})
        BY <2>3, <2>4
    <2>6. x[i].type \notin {"object", "array"}
        BY <2>1, <2>4 DEF TypedColumn, FieldsOf
    <2>7. x[i].type = "date" /\ y[i].type = "timestamp"
        <3> DEFINE below == <<>>
                   D == {<<>>}
        <3>1. CompareElements(below, x[i], y[i]) = Throws /\ x[i] \in ElementSet(D) /\ y[i] \in ElementSet(D)
            BY <2>4, <2>5
        <3> HIDE DEF below, D
        <3>2. \/ x[i].type = "date" /\ y[i].type = "timestamp"
              \/ /\ x[i].type \in {"object", "array"} /\ y[i].type = x[i].type
                 /\ below[<<x[i].sub, y[i].sub>>] = Throws
            BY <3>1, WhatThrows
        <3> QED
            BY <2>6, <3>2
    <2>8. DateBesideStamp(x, y)
        BY <2>4, <2>7 DEF DateBesideStamp
    <2> QED
        BY <1>2, <1>6, <2>8 DEF DateMeetsStamp, x, y
<1> QED
    BY <1>4, <1>5, <1>6

\* A range of binary search: within the index, or lost to an exception.
InIndex(d, r) ==
    /\ r \in Nat \X Nat /\ r[1] <= r[2] /\ r[2] <= Len(index) + 1
    /\ r[1] = 0 => r[2] = 0 /\ \E i \in 1..Len(index) : BsonCompare(index[i], d) = Throws

\* Binary search ends within the index, unless one of its comparisons throws.
LEMMA SearchEnds ==
    ASSUME index \in Seq(Docs), NEW d
    PROVE  /\ Place(d) \in 0..(Len(index) + 1)
           /\ Place(d) = 0 => \E i \in 1..Len(index) : BsonCompare(index[i], d) = Throws
<1> DEFINE N == Len(index)
<1>1. N \in Nat
    OBVIOUS
<1>2. PICK range : Searches(d, range)
    BY SearchExists
<1>3. ASSUME NEW r, InIndex(d, r) PROVE InIndex(d, Narrow(d, r))
    <2> DEFINE mid == (r[1] + r[2]) \div 2
               c == BsonCompare(index[mid], d)
    <2>1. r \in Nat \X Nat /\ r[1] \in Nat /\ r[2] \in Nat /\ r[1] <= r[2] /\ r[2] <= N + 1
        BY <1>3 DEF InIndex
    <2>2. CASE r[1] = r[2]
        BY <1>3, <2>2 DEF Narrow
    <2>3. CASE r[1] # r[2]
        <3>1. r[1] # 0
            BY <1>3, <2>3 DEF InIndex
        <3>2. mid \in Nat /\ r[1] <= mid /\ mid < r[2] /\ mid \in 1..N
            BY <1>1, <2>1, <2>3, <3>1
        <3>3. Narrow(d, r) = IF c = Throws THEN <<0, 0>> ELSE IF c < 0 THEN <<mid + 1, r[2]>> ELSE <<r[1], mid>>
            BY <2>3 DEF Narrow
        <3> HIDE DEF mid
        <3>4. CASE c = Throws
            BY <1>1, <3>2, <3>3, <3>4 DEF InIndex
        <3>5. CASE c # Throws
            <4>1. Narrow(d, r) = <<mid + 1, r[2]>> \/ Narrow(d, r) = <<r[1], mid>>
                BY <3>3, <3>5
            <4> QED
                BY <1>1, <2>1, <3>1, <3>2, <4>1 DEF InIndex
        <3> QED
            BY <3>4, <3>5
    <2> QED
        BY <2>2, <2>3
<1> DEFINE T == {k \in 0..N : InIndex(d, range[k])}
<1>4. 0 \in T
    <2>1. range[0] = <<1, N + 1>>
        BY <1>2 DEF Searches
    <2>2. /\ range[0] \in Nat \X Nat /\ range[0][1] = 1 /\ range[0][2] = N + 1
          /\ range[0][1] <= range[0][2] /\ range[0][2] <= N + 1 /\ range[0][1] # 0
        BY <1>1, <2>1
    <2>3. InIndex(d, range[0])
        BY <2>2, Zenon DEF InIndex
    <2> QED
        BY <1>1, <2>3
<1>5. \A k \in 0..(N - 1) : k \in T => k + 1 \in T
    <2>1. \A k \in 0..(N - 1) : range[k + 1] = Narrow(d, range[k])
        BY <1>2 DEF Searches
    <2> QED
        BY <1>1, <1>3, <2>1
<1>6. N \in T
    <2> HIDE DEF T, N
    <2>1. \A k \in 0..N : k \in T
        BY <1>1, <1>4, <1>5, IntervalInduction
    <2> QED
        BY <1>1, <2>1
<1>7. Place(d) = range[N][1]
    BY <1>2 DEF Searches
<1> QED
    BY <1>1, <1>6, <1>7 DEF InIndex

\* The entries are documents of the column, and a backend that has ended had a
\* date and a timestamp to compare.
Blamed ==
    /\ index \in Seq(Docs)
    /\ ~ComparesSameTypes => \E a, b \in Docs : DateMeetsStamp(a, b)

\* Whatever numbers, names and types the documents of a column have: an insertion
\* into its index ends the backend only if one of them has a date in a place where
\* another has a timestamp.
THEOREM OnlyDatesAndStamps == TypedColumn /\ Spec => [](~ComparesSameTypes => \E a, b \in Docs : DateMeetsStamp(a, b))
<1> SUFFICES ASSUME TypedColumn
             PROVE  Spec => [](~ComparesSameTypes => \E a, b \in Docs : DateMeetsStamp(a, b))
    OBVIOUS
<1>1. Init => Blamed
    BY DEF Init, Blamed, ComparesSameTypes
<1>2. Blamed /\ [Next]_vars => Blamed'
    <2> SUFFICES ASSUME Blamed, [Next]_vars PROVE Blamed'
        OBVIOUS
    <2>1. ASSUME NEW d \in Docs, Insert(d) PROVE Blamed'
        <3>1. index \in Seq(Docs)
            BY DEF Blamed
        <3>2. CASE Place(d) = 0
            <4>1. PICK i \in 1..Len(index) : BsonCompare(index[i], d) = Throws
                BY <3>1, <3>2, SearchEnds
            <4>2. index[i] \in Docs
                BY <3>1
            <4>3. DateMeetsStamp(index[i], d)
                BY <4>1, <4>2, ThrowsOnlyThere
            <4>4. index' = index
                BY <2>1, <3>2 DEF Insert
            <4> QED
                BY <3>1, <4>2, <4>3, <4>4 DEF Blamed
        <3>3. CASE Place(d) # 0
            <4>1. Place(d) \in 1..(Len(index) + 1)
                <5>1. Place(d) \in 0..(Len(index) + 1)
                    BY <3>1, SearchEnds
                <5> QED
                    BY <3>1, <3>3, <5>1
            <4>2. index' = Inserted(index, d, Place(d)) /\ backend' = "up"
                BY <2>1, <3>3, Zenon DEF Insert, Inserted
            <4>3. index' \in Seq(Docs)
                BY <3>1, <4>1, <4>2, InsertedAt
            <4> QED
                BY <4>2, <4>3 DEF Blamed, ComparesSameTypes
        <3> QED
            BY <3>2, <3>3
    <2>2. ASSUME NEW i \in 1..Len(index), Delete(i) PROVE Blamed'
        <3>1. index \in Seq(Docs)
            BY DEF Blamed
        <3>2. index' = Removed(index, i) /\ backend' = "up"
            BY <2>2, Zenon DEF Delete, Removed
        <3>3. index' \in Seq(Docs)
            BY <3>1, <3>2, RemovedAt
        <3> QED
            BY <3>2, <3>3 DEF Blamed, ComparesSameTypes
    <2>3. CASE UNCHANGED vars
        BY <2>3, Zenon DEF vars, Blamed, ComparesSameTypes
    <2> QED
        BY <2>1, <2>2, <2>3 DEF Next
<1>3. Blamed => (~ComparesSameTypes => \E a, b \in Docs : DateMeetsStamp(a, b))
    BY DEF Blamed
<1> QED
    BY <1>1, <1>2, <1>3, PTL DEF Spec

-----------------------------------------------------------------------------
(* The hash index *)

\* The index has the hash code of every row and nothing else.
Indexed ==
    /\ DOMAIN heap \subseteq Rows
    /\ heap \in [DOMAIN heap -> Values]
    /\ buckets = {<<Hash(heap[r]), r>> : r \in DOMAIN heap}

\* memcmp() over all bytes of two documents of one size leaves no difference.
LEMMA EqualIsSame ==
    ASSUME NEW a \in Values, NEW b \in Values, BinaryEqual(a, b)
    PROVE  a = b
<1>1. a \in Seq(-128..127) /\ b \in Seq(-128..127) /\ Len(a) = Len(b)
    BY HashAssumption DEF BinaryEqual, ObjSize
<1>2. \A i \in 1..Len(a) : a[i] = b[i]
    BY HashAssumption DEF BinaryEqual, ObjSize
<1> QED
    BY <1>1, <1>2

\* An empty table.
LEMMA EmptyIndexed == InitHash => Indexed
BY DEF InitHash, Indexed

\* Inserting and deleting rows keeps the index up to date.
LEMMA HashStep == Indexed /\ [NextHash]_hashVars => Indexed'
<1> SUFFICES ASSUME Indexed, [NextHash]_hashVars PROVE Indexed'
    OBVIOUS
<1>1. ASSUME NEW r \in Rows, NEW v \in Values, HashInsert(r, v) PROVE Indexed'
    BY <1>1, Zenon DEF HashInsert, Indexed
<1>2. ASSUME NEW r \in Rows, HashDelete(r) PROVE Indexed'
    <2>1. /\ DOMAIN heap' = DOMAIN heap \ {r}
          /\ \A x \in DOMAIN heap' : heap'[x] = heap[x]
          /\ heap' \in [DOMAIN heap' -> Values]
        BY <1>2 DEF HashDelete, Indexed
    <2>2. buckets' = {<<Hash(heap[x]), x>> : x \in DOMAIN heap \ {r}}
        BY <1>2 DEF HashDelete, Indexed
    <2> QED
        BY <2>1, <2>2, Zenon DEF Indexed
<1>3. CASE UNCHANGED hashVars
    BY <1>3 DEF hashVars, Indexed
<1> QED
    BY <1>1, <1>2, <1>3 DEF NextHash

\* Index and table always agree.
THEOREM IndexComplete == HashSpec => []Indexed
BY EmptyIndexed, HashStep, PTL DEF HashSpec

\* WHERE data == v finds the same rows with the hash index and without it.
THEOREM HashScanAgrees == HashSpec => []HashFinds
<1>1. Indexed => HashFinds
    <2> SUFFICES ASSUME Indexed, NEW v \in Values, NEW r \in DOMAIN heap, BinaryEqual(heap[r], v)
                 PROVE  <<Hash(v), r>> \in buckets
        BY DEF HashFinds, Looked
    <2>1. heap[r] = v
        BY EqualIsSame DEF Indexed
    <2> QED
        BY <2>1 DEF Indexed
<1> QED
    BY <1>1, IndexComplete, PTL
=============================================================================
