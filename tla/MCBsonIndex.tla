---------------------------- MODULE MCBsonIndex ----------------------------
(* A column with a btree index or with a hash index.                        *)
(*                                                                          *)
(* Documents of the btree index have one or two fields of every type.       *)
(* Integers up to 4 are exact doubles; 5 and 7 are not.  For the hash index *)
(* they are bytes, and ints have 6 bits, so that codes collide.             *)
EXTENDS BsonIndex, HashIndex

InitColumn == Init /\ InitHash

\* An index can be exchanged for one of the other kind while the table is empty.
NextColumn ==
    \/ heap = <<>> /\ Next /\ UNCHANGED hashVars
    \/ index = <<>> /\ backend = "up" /\ NextHash /\ UNCHANGED vars

ColumnSpec == InitColumn /\ [][NextColumn]_<<vars, hashVars>>

El(n, t, v) == [name |-> n, type |-> t, v |-> v, w |-> 0, sub |-> <<>>]
Doc(n, t, d) == [name |-> n, type |-> t, v |-> 0, w |-> 0, sub |-> d]

MCNaN == -9
MCSubs == {<<>>, <<El(1, "int", 3)>>, <<El(1, "double", 3)>>, <<El(1, "int", 3), El(1, "null", 0)>>}

Fields ==
    {El(1, t, v) : t \in {"int", "double", "string"}, v \in {3, 4}}
    \cup {El(1, "long", 3), El(2, "long", 4), El(1, "double", MCNaN), El(2, "double", 3)}
    \cup {El(1, t, 0) : t \in {"minkey", "undefined", "null", "maxkey"}}
    \cup {El(1, t, 3) : t \in {"symbol", "bindata", "oid", "bool", "regex", "dbref", "code"}}
    \cup {El(1, "timestamp", 3), El(1, "timestamp", 8), El(1, "date", 3), El(1, "date", 4)}
    \cup {[El(1, "codewscope", 3) EXCEPT !.w = k, !.sub = d] : k \in {1, 2}, d \in {<<>>, <<El(1, "int", 3)>>}}
    \cup {Doc(1, t, d) : t \in {"object", "array"}, d \in MCSubs}

Two == {<<El(1, "int", 3), x>> : x \in {El(1, "int", 3), El(1, "double", 4), El(2, "string", 3), El(1, "double", MCNaN)}}

MCDocs == {<<>>} \cup {<<x>> : x \in Fields} \cup Two

Bytes == UNION {[1..n -> {-128, -1, 0, 5}] : n \in 0..2}
MCValues == {<<Len(b) + 1>> \o b : b \in Bytes}

BigDocs == {<<El(1, "long", 4)>>, <<El(1, "long", 5)>>, <<El(1, "double", 4)>>}
DateDocs == {<<El(1, "date", 3)>>, <<El(1, "date", 4)>>, <<El(1, "timestamp", 3)>>}
=============================================================================
