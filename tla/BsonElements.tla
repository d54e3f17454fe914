---------------------------- MODULE BsonElements ----------------------------
(***************************************************************************)
(* Documents as the SQL functions see them once their bytes have been      *)
(* read: sequences of elements.  The operators look a field up and convert *)
(* it to an SQL value.                                                     *)
(*                                                                         *)
(* The name of a field is the sequence of its labels, the parts between    *)
(* dots.  v is the value of a scalar: <<n>> for a number or anything that  *)
(* only has to be told apart, the stored bytes for a string (as many as    *)
(* its size field says).  sub has the fields of a document or array.       *)
(***************************************************************************)
EXTENDS Integers, Sequences, FiniteSetsExt

CONSTANT Dates  \* dates, in milliseconds, that boost's ptime can hold

Eoo == [name |-> <<>>, type |-> "eoo", v |-> <<>>, sub |-> <<>>]
Scalar(name, type, v) == [name |-> name, type |-> type, v |-> v, sub |-> <<>>]
Embedded(name, type, sub) == [name |-> name, type |-> type, v |-> <<>>, sub |-> sub]

\* What a function returns: SQL NULL, ERROR, or <<type, ...>>.
Null == <<"null">>
Error == <<"error">>

-----------------------------------------------------------------------------
(* Lookup *)

\* The first field of that name.
GetField(doc, name) ==
    LET hits == {i \in 1..Len(doc) : doc[i].name = name}
    IN  IF hits = {} THEN Eoo ELSE doc[Min(hits)]

GetObjectField(doc, label) ==
    LET e == GetField(doc, <<label>>)
    IN  IF e.type \in {"object", "array"} THEN e.sub ELSE <<>>

\* Mutant of GetFieldDotted: split at the last dot, strrchr().
MutGetFieldDottedLast(doc, name) ==
    LET n == Len(name)
        sub == GetField(doc, SubSeq(name, 1, n - 1)).sub
    IN  IF GetField(doc, name) # Eoo \/ n = 1 THEN GetField(doc, name)
        ELSE GetField(sub, <<name[n]>>)

\* The recursion goes from label to label: the document it reaches behind each.
Walk(doc, name) ==
    LET at[k \in 0..Len(name)] == IF k = 0 THEN doc ELSE GetObjectField(at[k - 1], name[k])
    IN  at

\* The first document on the way that has a field named like all the labels left,
\* dots included, ends it; an empty document has none.
GetFieldDotted(doc, name) ==
    LET at == Walk(doc, name)
        found(k) == GetField(at[k - 1], SubSeq(name, k, Len(name)))
        hits == {k \in 1..Len(name) : found(k) # Eoo}
    IN  IF hits = {} THEN Eoo ELSE found(Min(hits))

-----------------------------------------------------------------------------
(* Conversion of an element to an SQL type; Error stands for an exception *)

\* Texts are told apart by how and of what they were made: of a double, operator<<
\* makes one of six digits.
ConvertText(e) ==
    CASE e.type \in {"string", "dbref", "symbol"} ->
             <<"text", "chars", SubSeq(e.v, 1, Len(e.v) - 1)>>
      [] e.type = "double" -> <<"text", "six digits", e.v>>
      [] e.type \in {"int", "long"} -> <<"text", "decimal", e.v>>
      [] e.type \in {"oid", "bool", "regex"} -> <<"text", e.type, e.v>>
      [] e.type = "date" /\ e.v[1] \in Dates -> <<"text", "iso", e.v>>
      [] OTHER -> Error

ConvertInt(e) == IF e.type = "int" THEN <<"int4", e.v[1]>> ELSE Error

ConvertDouble(e) == IF e.type \in {"double", "int"} THEN <<"float8", e.v[1]>> ELSE Error

\* Mutant of ConvertBigint: bson_get_bigint on integer fields forgotten.
MutConvertBigintStrict(e) == IF e.type = "long" THEN <<"int8", e.v[1]>> ELSE Error

ConvertBigint(e) == IF e.type \in {"long", "int"} THEN <<"int8", e.v[1]>> ELSE Error

Getters == {"text", "int", "double", "bigint"}

\* bson_get_text, bson_get_int, bson_get_double, bson_get_bigint.
BsonGet(getter, doc, name) ==
    LET e == GetFieldDotted(doc, name)
    IN  IF e = Eoo THEN Null
        ELSE CASE getter = "text" -> ConvertText(e)
               [] getter = "int" -> ConvertInt(e)
               [] getter = "double" -> ConvertDouble(e)
               [] getter = "bigint" -> ConvertBigint(e)

\* Mutant of BsonGetBson: the wrapped element without its empty name.
MutBsonGetBsonNameless(doc, name) ==
    LET el == GetFieldDotted(doc, name)
    IN  CASE el = Eoo -> Null
          [] el.type = "object" -> <<"bson", el.sub>>
          [] OTHER -> <<"bson", <<[el EXCEPT !.name = <<>>]>>>>

\* bson_get_bson: an embedded document as it is, anything else, arrays included,
\* in a document with one nameless field.
BsonGetBson(doc, name) ==
    LET el == GetFieldDotted(doc, name)
    IN  CASE el = Eoo -> Null
          [] el.type = "object" -> <<"bson", el.sub>>
          [] OTHER -> <<"bson", <<[el EXCEPT !.name = <<"">>]>>>>
=============================================================================
