----------------------------- MODULE BsonIndex -----------------------------
(* A column of bson documents with a btree index, the default operator class *)
(* of which compares with bson_compare: a sorted sequence in which binary    *)
(* search finds the place of a document.                                     *)
EXTENDS BsonOrder

CONSTANTS
    Docs,      \* documents that are stored and searched for
    Subs,      \* documents embedded in them, which have none embedded
    MaxSize    \* bound on the number of entries

VARIABLES
    index,   \* the entries, least first
    backend  \* "up", or "terminated" by an exception nobody catches

vars == <<index, backend>>

SubOrder == [p \in Subs \X Subs |-> CompareDocs(<<>>, p[1], p[2])]

\* bson_compare
BsonCompare(a, b) == CompareDocs(SubOrder, a, b)

\* A turn of binary search for d among the entries r[1]..r[2] - 1; there is no
\* such range any more if the comparison throws.
Narrow(d, r) ==
    LET mid == (r[1] + r[2]) \div 2
        c == BsonCompare(index[mid], d)
    IN  IF r[1] = r[2] THEN r
        ELSE IF c = Throws THEN <<0, 0>>
        ELSE IF c < 0 THEN <<mid + 1, r[2]>> ELSE <<r[1], mid>>

\* Where it ends: at the first entry that is not less than d.  0 if a comparison
\* throws.  As many turns as there are entries are enough.
Place(d) ==
    LET range[k \in 0..Len(index)] ==
            IF k = 0 THEN <<1, Len(index) + 1>> ELSE Narrow(d, range[k - 1])
    IN  range[Len(index)][1]

Init == index = <<>> /\ backend = "up"

Insert(d) ==
    /\ backend = "up" /\ Len(index) < MaxSize
    /\ LET i == Place(d)
       IN  IF i = 0 THEN backend' = "terminated" /\ UNCHANGED index
           ELSE /\ index' = SubSeq(index, 1, i - 1) \o <<d>> \o SubSeq(index, i, Len(index))
                /\ UNCHANGED backend

\* VACUUM takes out the entry of a deleted row.
Delete(i) ==
    /\ backend = "up"
    /\ index' = SubSeq(index, 1, i - 1) \o SubSeq(index, i + 1, Len(index))
    /\ UNCHANGED backend

Next == (\E d \in Docs : Insert(d)) \/ (\E i \in 1..Len(index) : Delete(i))

Spec == Init /\ [][Next]_vars

-----------------------------------------------------------------------------
(* Properties *)

\* The index finds an entry equal to d.
Found(d) ==
    LET i == Place(d)
    IN  i \in 1..Len(index) /\ BsonCompare(index[i], d) = 0

\* WHERE data = d finds the same with the index as by comparing every row, for
\* documents that are stored and others, in whatever order they were inserted
\* and deleted (unless a comparison throws).
IndexFinds ==
    backend = "up" =>
        \A d \in Docs : Place(d) # 0 =>
            (Found(d) <=> \E i \in 1..Len(index) : BsonCompare(index[i], d) = 0)

\* All entries are in order, not only neighbours: ORDER BY and < agree, and
\* exchanging the operands of a comparison turns its sign.
IndexSorted ==
    \A i, j \in 1..Len(index) :
        LET x == BsonCompare(index[i], index[j])
            y == BsonCompare(index[j], index[i])
        IN  Throws \notin {x, y} => (i <= j => x <= 0) /\ x = -y

\* compareElementValues is called with elements of the same type, or numbers, so
\* that inserting a document does not end the backend.
ComparesSameTypes == backend = "up"
=============================================================================
