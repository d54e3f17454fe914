---------------------------- MODULE FieldAccess ----------------------------
(* A query that goes down into a document in steps, bson_get_bson inside    *)
(* bson_get_bson, and reads fields on the way, beside the same fields read  *)
(* from the whole document by their full dotted names.                      *)
EXTENDS BsonElements

CONSTANTS
    Docs,     \* documents to query
    Labels,   \* what is between the dots of names
    Paths,    \* dotted names used, as sequences of labels
    MaxDepth, \* bound on how deep the documents are nested
    MaxTrail  \* bound on the labels of a full name

\* The documents nested in a document: levels[n] are those n levels down, d itself
\* for n = 0.  A field that is no document counts as one with an empty document.
Levels(d) ==
    LET levels[n \in 0..MaxDepth] ==
            IF n = 0 THEN {d} ELSE UNION {{e[i].sub : i \in 1..Len(e)} : e \in levels[n - 1]}
    IN  levels

Inside(d) == UNION {Levels(d)[n] : n \in 0..MaxDepth}

IsElement(e) ==
    /\ DOMAIN e = {"name", "type", "v", "sub"}
    /\ e.name \in Seq(Labels) /\ e.name # <<>> /\ e.v \in Seq(Int)
    /\ e.type \notin {"object", "array"} => e.sub = <<>>
    /\ e.type \in {"int", "long", "double"} => Len(e.v) = 1
    /\ e.type = "string" => Len(e.v) > 0

WellFormed(d) == \A e \in Inside(d) : Len(e) \in Nat /\ \A i \in 1..Len(e) : IsElement(e[i])

ASSUME FieldAccessAssumption ==
    /\ MaxDepth \in Nat /\ MaxTrail \in Nat
    /\ \A d \in Docs : WellFormed(d) /\ Levels(d)[MaxDepth] \subseteq {<<>>}
    /\ "" \in Labels /\ Paths \subseteq Seq(Labels) \ {<<>>}

VARIABLES
    doc,    \* the document
    cur,    \* what the innermost bson_get_bson has returned
    trail,  \* the full name of cur, <<>> for doc itself
    read    \* the field read last from cur: its full name, getter and result

query == <<doc, cur, trail, read>>

Nothing == [name |-> <<>>, getter |-> "none", res |-> Null]

QueryTypeOK ==
    /\ doc \in Docs /\ WellFormed(cur)
    /\ Len(trail) <= MaxTrail
    /\ read.getter \in Getters \cup {"none"}

\* cur is not a document of doc but a value of it wrapped up: {"" : value}.
Wrapped == trail # <<>> /\ GetFieldDotted(doc, trail).type # "object"

\* The full name of what p names in cur.
FullName(p) == trail \o (IF Wrapped THEN Tail(p) ELSE p)

InitQuery == doc \in Docs /\ cur = doc /\ trail = <<>> /\ read = Nothing

\* The next bson_get_bson; one that finds nothing ends the query with NULL.
GetBson(p) ==
    /\ Len(FullName(p)) <= MaxTrail
    /\ BsonGetBson(cur, p) # Null
    /\ cur' = BsonGetBson(cur, p)[2]
    /\ trail' = FullName(p)
    /\ read' = Nothing
    /\ UNCHANGED doc

Get(getter, p) ==
    /\ Wrapped => Head(p) = ""
    /\ read' = [name |-> FullName(p), getter |-> getter, res |-> BsonGet(getter, cur, p)]
    /\ UNCHANGED <<doc, cur, trail>>

NextQuery == \E p \in Paths : GetBson(p) \/ \E g \in Getters : Get(g, p)

QuerySpec == InitQuery /\ [][NextQuery]_query

-----------------------------------------------------------------------------
(* Properties *)

\* No field of the document, at any depth, has a dot in its name.
Plain(d) == \A e \in Inside(d) : \A i \in 1..Len(e) : Len(e[i].name) = 1

\* Going down step by step leads to what the full dotted name leads to, through
\* documents, arrays, wrapped values, repeated and empty field names, as long as
\* no field has a dot in its name: such a field hides a path or is hidden by one.
StepsAgree ==
    Plain(doc) /\ trail # <<>> => BsonGetBson(doc, trail) = <<"bson", cur>>

\* A field read from a document reached in steps is what its full name gives, and
\* the getters do not contradict each other: all of them or none find the field,
\* what bson_get_int returns the wider getters return too, and its text is that
\* number.
GettersAgree ==
    LET res(g) == BsonGet(g, doc, read.name)
    IN  Plain(doc) /\ read.getter # "none" /\ read.name # <<>> =>
            /\ read.res = res(read.getter)
            /\ read.res = Null <=> BsonGetBson(doc, read.name) = Null
            /\ res("int") \notin {Null, Error} =>
                  LET n == res("int")[2]
                  IN  /\ res("bigint") = <<"int8", n>> /\ res("double") = <<"float8", n>>
                      /\ res("text") = <<"text", "decimal", <<n>>>>
=============================================================================
