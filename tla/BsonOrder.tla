----------------------------- MODULE BsonOrder -----------------------------
(***************************************************************************)
(* bson_compare: woCompare of two documents, element by element.  The      *)
(* results are signs.                                                      *)
(*                                                                         *)
(* An element is [name, type, v, w, sub].  Names, and values compared byte *)
(* by byte, are represented by their rank in that order; v is such a rank, *)
(* a number or a date.  w is the part of a CodeWScope's scope that strcmp  *)
(* sees, sub the fields of an embedded document or scope.                  *)
(***************************************************************************)
EXTENDS Integers, Sequences

CONSTANTS
    Exact,  \* integers up to it have a double of their own (2^53)
    NaN,    \* stands for the double that is not a number
    Wrap    \* 2^64

ASSUME OrderAssumption == Exact \in Nat /\ NaN \in Int /\ Wrap \in Nat

Throws == 2  \* instead of a sign: an exception

Numbers == {"double", "int", "long"}
Ranked == {"bool", "oid", "string", "symbol", "code", "dbref", "bindata", "regex"}

Sign(n) == IF n < 0 THEN -1 ELSE IF n = 0 THEN 0 ELSE 1

\* canonicalizeBSONType
Canonical(type) ==
    CASE type = "minkey" -> -1
      [] type = "undefined" -> 0
      [] type = "null" -> 5
      [] type \in Numbers -> 10
      [] type \in {"string", "symbol"} -> 15
      [] type = "object" -> 20
      [] type = "array" -> 25
      [] type = "bindata" -> 30
      [] type = "oid" -> 35
      [] type = "bool" -> 40
      [] type \in {"date", "timestamp"} -> 45
      [] type = "regex" -> 50
      [] type = "dbref" -> 55
      [] type = "code" -> 60
      [] type = "codewscope" -> 65
      [] type = "maxkey" -> 127

-----------------------------------------------------------------------------
(* Numbers *)

\* The nearest double of an integer below 2 * Exact, ties to even.
ToDouble(n) ==
    IF n \in -Exact..Exact \/ n % 2 = 0 THEN n
    ELSE IF (n + 1) % 4 = 0 THEN n + 1 ELSE n - 1

\* BSONElement::number()
Number(e) == IF e.type = "long" THEN ToDouble(e.v) ELSE e.v

\* Mutant of CompareDoubles: comparing with NaN as C++ does.
MutCompareDoublesNaN(x, y) ==
    CASE x # NaN /\ y # NaN /\ x < y -> -1
      [] x # NaN /\ y # NaN /\ x = y -> 0
      [] OTHER -> 1

\* Comparisons with NaN are false; it is made the least number, equal to itself.
CompareDoubles(x, y) ==
    CASE x # NaN /\ y # NaN /\ x < y -> -1
      [] x # NaN /\ y # NaN /\ x = y -> 0
      [] x = NaN -> IF y = NaN THEN 0 ELSE -1
      [] OTHER -> 1

CompareNumbers(l, r) ==
    IF l.type = r.type /\ l.type # "double" THEN Sign(l.v - r.v)
    ELSE CompareDoubles(Number(l), Number(r))

-----------------------------------------------------------------------------
(* Elements and documents *)

Unsigned(n) == IF n < 0 THEN n + Wrap ELSE n

\* compareElementValues; below has the results for embedded documents.
CompareValues(below, l, r) ==
    CASE l.type \in {"undefined", "null", "minkey", "maxkey"} -> Sign(Canonical(l.type) - Canonical(r.type))
      [] l.type \in Ranked -> Sign(l.v - r.v)
      [] l.type = "timestamp" -> Sign(Unsigned(l.v) - Unsigned(r.v))
      [] l.type = "date" -> IF r.type = "date" THEN Sign(l.v - r.v) ELSE Throws
      [] l.type \in Numbers -> CompareNumbers(l, r)
      [] l.type \in {"object", "array"} -> below[<<l.sub, r.sub>>]
      [] l.type = "codewscope" -> IF l.v # r.v THEN Sign(l.v - r.v) ELSE Sign(l.w - r.w)

\* BSONElement::woCompare
CompareElements(below, l, r) ==
    CASE Canonical(l.type) # Canonical(r.type) -> Sign(Canonical(l.type) - Canonical(r.type))
      [] Canonical(l.type) = Canonical(r.type) /\ l.name # r.name -> Sign(l.name - r.name)
      [] OTHER -> CompareValues(below, l, r)

\* Mutant of CompareDocs: a document equals its prefixes.
MutCompareDocsPrefix(below, a, b) ==
    LET both == {i \in 1..Len(a) : i <= Len(b)}
        differ == {i \in both : CompareElements(below, a[i], b[i]) # 0}
    IN  IF differ = {} THEN 0
        ELSE LET i == CHOOSE k \in differ : \A m \in differ : k <= m
             IN  CompareElements(below, a[i], b[i])

\* BSONObj::woCompare: the first two elements that differ decide, else the lengths.
CompareDocs(below, a, b) ==
    LET both == {i \in 1..Len(a) : i <= Len(b)}
        differ == {i \in both : CompareElements(below, a[i], b[i]) # 0}
    IN  IF differ = {} THEN Sign(Len(a) - Len(b))
        ELSE LET i == CHOOSE k \in differ : \A m \in differ : k <= m
             IN  CompareElements(below, a[i], b[i])
=============================================================================
