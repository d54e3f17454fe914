----------------------------- MODULE BsonReader -----------------------------
(* Reading a buffer back the way BSONObjIterator does, and the builders as   *)
(* an implementation of BsonDocument through that reading.                   *)
EXTENDS BsonBuilder

\* Mutant of ElementSize: the type byte of an embedded document is not counted.
MutElementSizeShort(c, pos) ==
    IF c[pos].k = "sub" THEN c[pos].w - 1 + c[pos + c[pos].w].w ELSE c[pos].w

\* BSONElement::size() of the element at pos of the buffer c.  A cell has its width;
\* the size of an embedded document is read from the document, objsize().
ElementSize(c, pos) ==
    IF c[pos].k = "sub" THEN c[pos].w + c[pos + c[pos].w].w ELSE c[pos].w

\* The element at pos; embeddedObject() of a document is read in turn, where
\* inner[p][e] are the elements between p and e.
Element(c, inner, pos) ==
    IF c[pos].k = "sub"
    THEN LET doc == pos + c[pos].w
         IN  <<"doc", c[pos].w, inner[doc + SizeField][doc + c[doc].w - 1]>>
    ELSE <<"value", c[pos].w>>

\* One call of BSONObjIterator::next() if more() says so, with inner for the
\* calls that follow it.
ElementsFrom(c, inner, pos, theend) ==
    IF pos < theend
    THEN <<Element(c, inner, pos)>> \o inner[pos + ElementSize(c, pos)][theend]
    ELSE <<>>

\* BSONObjIterator over c, in up to max nested or repeated calls.
Iterator(c, max) ==
    LET read[n \in 0..max] ==
            [pos \in Nat |-> [theend \in Nat |->
                IF n = 0 THEN <<>> ELSE ElementsFrom(c, read[n - 1], pos, theend)]]
    IN  read

\* The elements between two offsets.  Each takes a byte, so that l calls will do.
Fields(pos, theend) == Iterator(cells, l)[l][pos][theend]

\* Where the header of the i-th builder's document starts.
Header(i) == CHOOSE p \in DOMAIN cells :
                 cells[p].k = "sub" /\ p + cells[p].w = levels[i].off

\* What the i-th builder in scope has written so far.
Contents(i) ==
    Fields(levels[i].off + SizeField,
           IF i < Len(levels) THEN Header(i + 1)
           ELSE IF levels[i].done THEN l - 1 ELSE l)

AbstractOpen ==
    IF phase # "build" THEN <<>>
    ELSE [i \in 1..Len(levels) |->
             [name |-> IF i = 1 THEN 0 ELSE cells[Header(i)].w, fields |-> Contents(i)]]

AbstractResult ==
    CASE phase = "build" -> <<"pending">>
      [] phase \in {"built", "returned"} ->
             <<"finished", Fields(RefCount + SizeField, End(RefCount) - 1)>>
      [] OTHER -> <<"failed">>

Doc == INSTANCE BsonDocument WITH
           Values <- {1 + n + v[1] + v[2] : n \in NameSizes, v \in ValueSizes},
           Names <- {1 + n : n \in NameSizes},
           open <- AbstractOpen,
           result <- AbstractResult

-----------------------------------------------------------------------------
(* Property *)

\* Building, closing and failing are steps of the document builder that has no
\* buffer: at every moment each builder in scope holds exactly the fields that
\* were appended to it, done() changes nothing a reader sees, and what obj()
\* returns reads back, through BSONObjIterator and BSONElement::size(), as the
\* tree that was written.
ImplementsDocument == Doc!Spec
=============================================================================
