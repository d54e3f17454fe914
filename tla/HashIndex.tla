----------------------------- MODULE HashIndex -----------------------------
(***************************************************************************)
(* A column of bson documents with a hash index, the operator class of     *)
(* which has == (bson_binary_equal) and bson_hash.  PostgreSQL keeps the   *)
(* hash codes in buckets and tests what it finds there with the operator.  *)
(*                                                                         *)
(* A document is its bytes, as signed chars.  The first of them, which     *)
(* gives its size, stands for the first four.                              *)
(***************************************************************************)
EXTENDS Integers, Sequences, FiniteSets

CONSTANTS
    Values,  \* documents that are stored or searched for
    Rows,    \* row numbers
    Bits,    \* 2^(w - 1) for ints of w bits: 2^31
    Low      \* the bit that is set in every hash code: 2^27

ASSUME HashAssumption ==
    /\ {Bits, Low} \subseteq Nat \ {0}
    /\ \A v \in Values : v \in Seq(-128..127) /\ Len(v) > 0 /\ v[1] = Len(v)

VARIABLES
    heap,    \* the rows there are
    buckets  \* pairs of a hash code and a row

hashVars == <<heap, buckets>>

-----------------------------------------------------------------------------
(* BSONObj::binaryEqual and hash *)

ObjSize(v) == v[1]

\* Mutant of BinaryEqual: the sizes are not compared.
MutBinaryEqualPrefix(a, b) == \A i \in 2..ObjSize(a) : i <= ObjSize(b) => a[i] = b[i]

\* The sizes, then memcmp.
BinaryEqual(a, b) == ObjSize(a) = ObjSize(b) /\ \A i \in 1..ObjSize(a) : a[i] = b[i]

\* x = x * 131 + p[i] in an unsigned int.
Sum(v) ==
    LET x[i \in 0..ObjSize(v)] == IF i = 0 THEN 0 ELSE (x[i - 1] * 131 + v[i]) % (2 * Bits)
    IN  x[ObjSize(v)]

\* (x & 0x7fffffff) | 0x8000000
Hash(v) ==
    LET x == Sum(v) % Bits
    IN  IF (x \div Low) % 2 = 1 THEN x ELSE x + Low

-----------------------------------------------------------------------------

InitHash == heap = <<>> /\ buckets = {}

HashInsert(r, v) ==
    /\ r \notin DOMAIN heap
    /\ heap' = [x \in DOMAIN heap \cup {r} |-> IF x = r THEN v ELSE heap[x]]
    /\ buckets' = buckets \cup {<<Hash(v), r>>}

\* VACUUM takes the entries of a deleted row out of the index.
HashDelete(r) ==
    /\ r \in DOMAIN heap
    /\ heap' = [x \in DOMAIN heap \ {r} |-> heap[x]]
    /\ buckets' = {e \in buckets : e[2] # r}

NextHash == \E r \in Rows : HashDelete(r) \/ \E v \in Values : HashInsert(r, v)

HashSpec == InitHash /\ [][NextHash]_hashVars

-----------------------------------------------------------------------------
(* Properties *)

\* The rows that WHERE data == v finds in the bucket of its hash code.
Looked(v) == {r \in DOMAIN heap : <<Hash(v), r>> \in buckets /\ BinaryEqual(heap[r], v)}

\* A scan of the hash index and a scan of the table find the same rows for ==,
\* in whatever order rows come and go, though hash codes collide.
HashFinds == \A v \in Values : Looked(v) = {r \in DOMAIN heap : BinaryEqual(heap[r], v)}
=============================================================================
