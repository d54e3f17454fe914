---------------------------- MODULE RowRoundTrip ----------------------------
(* What the documents row_to_bson returns have to do with the rows: their     *)
(* fields, and what the getters of BsonElements read from them.               *)
EXTENDS RowToBson

CONSTANTS
    Epoch2000,  \* 2000-01-01 in milliseconds since 1970-01-01
    MaxNesting  \* bound on records in records in a row

Live(cols) == {i \in 1..Len(cols) : ~cols[i].dropped}
Records(cols) == {i \in Live(cols) : ~cols[i].null /\ cols[i].typ = "record"}

\* The field of a document that column i becomes: dropped columns have none.
Place(cols, i) == Cardinality({j \in Live(cols) : j <= i})

\* doc has one field for every column that is not dropped, in their order, and a
\* document for each record.
Matches(doc, cols) ==
    /\ Len(doc) = Place(cols, Len(cols))
    /\ \A i \in Live(cols) :
          LET f == doc[Place(cols, i)]
          IN  /\ f.name = cols[i].name
              /\ IF i \in Records(cols) THEN f.type = "object" ELSE f \in Elements(cols[i])

\* A part of the result is a document, the columns it comes from and its dotted
\* name: the row itself first, then its records, the records in them, ...
Parts(p) ==
    {[doc |-> p.doc[Place(p.cols, i)].sub, cols |-> p.cols[i].rec.cols,
      name |-> p.name \o p.cols[i].name] : i \in Records(p.cols)}
Levels(doc, cols) ==
    LET level[n \in 0..MaxNesting] ==
            IF n = 0 THEN {[doc |-> doc, cols |-> cols, name |-> <<>>]}
            ELSE UNION {Parts(p) : p \in level[n - 1]}
    IN  level

\* Records in records end there.
ASSUME NestingAssumption ==
    LET deep[n \in 0..MaxNesting] ==
            IF n = 0 THEN Composites
            ELSE UNION {{r.cols[i].rec : i \in Records(r.cols)} : r \in deep[n - 1]}
    IN  MaxNesting \in Nat /\ \A r \in deep[MaxNesting] : Records(r.cols) = {}

Represents(doc, cols) ==
    \A n \in 0..MaxNesting : \A p \in Levels(doc, cols)[n] : Matches(p.doc, p.cols)

\* No two columns share a name and none has a dot in it.
Distinct(cols) ==
    /\ \A i, j \in Live(cols) : cols[i].name = cols[j].name => i = j
    /\ \A i \in Live(cols) : Len(cols[i].name) = 1

Unambiguous(doc, cols) ==
    \A n \in 0..MaxNesting : \A p \in Levels(doc, cols)[n] : Distinct(p.cols)

\* What the getter for the type of c reads from doc at name is the value of c.
ReadsBack(c, doc, name) ==
    IF c.null THEN BsonGetBson(doc, name) = <<"bson", <<Scalar(<<"">>, "null", <<>>)>>>>
    ELSE CASE c.typ = "bool" -> BsonGet("text", doc, name) = <<"text", "bool", c.v>>
           [] c.typ \in {"int2", "int4"} -> BsonGet("int", doc, name) = <<"int4", c.v[1]>>
           [] c.typ = "int8" -> BsonGet("bigint", doc, name) = <<"int8", c.v[1]>>
           [] c.typ \in {"float4", "float8"} -> BsonGet("double", doc, name) = <<"float8", c.v[1]>>
           [] c.typ = "bson" -> BsonGetBson(doc, name) = <<"bson", c.doc>>
           [] c.typ \in {"char", "timestamp"} -> BsonGetBson(doc, name) # Null
           [] OTHER -> BsonGet("text", doc, name) = <<"text", "chars", c.v>>

AllReadBack(doc, cols) ==
    \A n \in 0..MaxNesting : \A p \in Levels(doc, cols)[n] :
        \A i \in Live(p.cols) \ Records(p.cols) :
            ReadsBack(p.cols[i], doc, p.name \o p.cols[i].name)

-----------------------------------------------------------------------------
(* Properties *)

\* While a row is converted each builder has exactly the columns the loop of its
\* activation has passed, and what row_to_bson returns represents the whole row:
\* no record ends up in another document or place, dropped columns leave no trace.
RowFaithful ==
    /\ \A p \in returned : Represents(p[2], p[1].cols)
    /\ \A k \in 1..Len(frames) :
          Represents(builders[k].fields, SubSeq(frames[k].comp.cols, 1, frames[k].i - 1))

\* Every column, also of a record in a record, is read back under its dotted name
\* by the getter for its type, whatever byte follows a text in memory; "char" and
\* timestamp columns are at least there.
RoundTrip == \A p \in returned : Unambiguous(p[2], p[1].cols) => AllReadBack(p[2], p[1].cols)

\* The last byte of every string is a zero.
StringsTerminated(fields) ==
    \A i \in 1..Len(fields) : fields[i].type = "string" => fields[i].v[Len(fields[i].v)] = 0

\* Dates are those of the timestamps in the row, in milliseconds since 1970.
DatesAreUnixMillis(fields, cols) ==
    \A i \in 1..Len(fields) :
        fields[i].type = "date" => \E c \in 1..Len(cols) : fields[i].v = <<Epoch2000 + cols[c].v[1] \div 1000>>

\* row_to_bson gives the builder what it asks of its callers: the length of a
\* string includes a terminating zero, which is there, and a date is a number of
\* milliseconds since 1970.
BuilderContract ==
    \A p \in returned : StringsTerminated(p[2]) /\ DatesAreUnixMillis(p[2], p[1].cols)
=============================================================================
