----------------------------- MODULE RowToBson -----------------------------
(***************************************************************************)
(* row_to_bson: composite_to_bson walks the attributes of a row and calls  *)
(* itself for the records in it, each activation with a builder and a pin  *)
(* on the descriptor of its row type.  PostgreSQL functions on the way may *)
(* leave all of it with longjmp, the builders with an exception.  One      *)
(* backend makes several calls in turn.                                    *)
(***************************************************************************)
EXTENDS BsonElements, FiniteSets

CONSTANTS
    Descs,       \* row types
    Composites,  \* values of row types and of record columns in them
    Rows,        \* those that row_to_bson is called with
    PastEnd,     \* bytes that may follow a text value in memory
    MaxCalls     \* bound on the number of calls

\* A composite is [desc |-> row type, cols |-> columns].  A column has its name,
\* whether it is dropped or null, its type, and its value: bytes or a number in
\* v, a record in rec, the fields of a bson in doc.
ASSUME RowAssumption ==
    /\ Rows \subseteq Composites /\ MaxCalls \in Nat
    /\ \A r \in Composites :
          /\ r.desc \in Descs /\ r.cols \in Seq({r.cols[i] : i \in DOMAIN r.cols})
          /\ \A i \in 1..Len(r.cols) :
                /\ r.cols[i].name \in Seq(STRING) /\ r.cols[i].v \in Seq(Int)
                /\ r.cols[i].typ = "record" /\ ~r.cols[i].null => r.cols[i].rec \in Composites

VARIABLES
    phase,     \* "idle", "convert", or "terminated" by an uncaught exception
    frames,    \* activations of composite_to_bson, outermost first
    builders,  \* their builders: the field each is for, the fields it has
    pins,      \* how often each descriptor is pinned
    lost,      \* builder buffers that were left allocated
    returned,  \* arguments and results of the calls that returned
    calls      \* calls made

vars == <<phase, frames, builders, pins, lost, returned, calls>>

\* The row and the loop variable, which starts at 1 here.
FrameSet == [comp : Composites, i : Nat \ {0}]

TypeOK ==
    /\ phase \in {"idle", "convert", "terminated"}
    /\ frames \in Seq(FrameSet)
    /\ phase = "idle" <=> frames = <<>>
    /\ pins \in [Descs -> Nat]
    /\ lost \in Nat /\ calls \in Nat

Top == frames[Len(frames)]
Builder == builders[Len(builders)]
Column == Top.comp.cols[Top.i]
AtColumn == phase = "convert" /\ Top.i <= Len(Top.comp.cols)

-----------------------------------------------------------------------------
(* datum_to_bson, except for records *)

Text == {"text", "json", "xml"}

\* Mutant of Elements: the size of a text without the terminator.
MutElementsTextShort(c) ==
    LET el(type, v) == {Scalar(c.name, type, v)}
    IN  IF c.null THEN el("null", <<>>)
        ELSE CASE c.typ = "bool" -> el("bool", c.v)
               [] c.typ = "int8" -> el("long", c.v)
               [] c.typ \in {"int2", "int4"} -> el("int", c.v)
               [] c.typ \in {"float4", "float8"} -> el("double", c.v)
               [] c.typ = "timestamp" -> el("date", c.v)
               [] c.typ = "bson" -> {Embedded(c.name, "object", c.doc)}
               [] OTHER -> el("string", c.v)

\* The elements the column may become.  A "char" is appended with size 1, a text
\* with the byte after it; timestamps, microseconds since 2000, are passed on as
\* they are.  Types that are not listed, named row types among them, are printed.
Elements(c) ==
    LET el(type, v) == {Scalar(c.name, type, v)}
    IN  IF c.null THEN el("null", <<>>)
        ELSE CASE c.typ = "bool" -> el("bool", c.v)
               [] c.typ = "char" -> el("string", c.v)
               [] c.typ = "int8" -> el("long", c.v)
               [] c.typ \in {"int2", "int4"} -> el("int", c.v)
               [] c.typ \in Text -> UNION {el("string", Append(c.v, b)) : b \in PastEnd}
               [] c.typ \in {"float4", "float8"} -> el("double", c.v)
               [] c.typ = "timestamp" -> el("date", c.v)
               [] c.typ = "bson" -> {Embedded(c.name, "object", c.doc)}
               [] OTHER -> el("string", Append(c.v, 0))

\* Types whose conversion calls PostgreSQL functions that may raise an error:
\* detoasting, output functions, palloc().
MayFail(c) == ~c.null /\ c.typ \notin {"bool", "char", "int2", "int4", "int8", "float4", "float8", "timestamp"}

-----------------------------------------------------------------------------
(* Steps *)

Init ==
    /\ phase = "idle" /\ frames = <<>> /\ builders = <<>>
    /\ pins = [d \in Descs |-> 0]
    /\ lost = 0 /\ returned = {} /\ calls = 0

\* ereport(ERROR): longjmp out of the call.  No destructor runs, so the buffer of
\* the builder stays; the resource owner of the (sub)transaction drops the pins.
RaiseError ==
    /\ phase' = "idle" /\ frames' = <<>> /\ builders' = <<>>
    /\ pins' = [d \in Descs |-> 0]
    /\ lost' = lost + 1
    /\ UNCHANGED returned

\* A builder and composite_to_bson up to its loop: look up the descriptor, pin it.
Enter(name, comp) ==
    /\ phase' = "convert"
    /\ frames' = Append(frames, [comp |-> comp, i |-> 1])
    /\ builders' = Append(builders, [name |-> name, fields |-> <<>>])
    /\ pins' = [pins EXCEPT ![comp.desc] = @ + 1]
    /\ UNCHANGED <<lost, returned>>

\* Detoasting the row and the lookup of its type may fail.
Call(row) ==
    /\ phase = "idle" /\ calls < MaxCalls
    /\ calls' = calls + 1
    /\ Enter(<<"">>, row) \/ RaiseError

\* On to the next column of the last row of stack; els are appended for this one.
Advance(stack, docs, els) ==
    /\ frames' = [stack EXCEPT ![Len(stack)].i = @ + 1]
    /\ builders' = [docs EXCEPT ![Len(docs)].fields = @ \o els]
    /\ UNCHANGED <<phase, lost, returned, calls>>

\* Mutant of SkipDropped: a dropped column reads as null.
MutSkipDroppedNull ==
    /\ AtColumn /\ Column.dropped
    /\ Advance(frames, builders, <<Scalar(Column.name, "null", <<>>)>>)
    /\ UNCHANGED pins

\* Mutant of SkipDropped: the loop variable stays where it is.
MutSkipDroppedStay ==
    /\ AtColumn /\ Column.dropped
    /\ UNCHANGED vars

SkipDropped ==
    /\ AtColumn /\ Column.dropped
    /\ Advance(frames, builders, <<>>)
    /\ UNCHANGED pins

AppendDatum ==
    /\ AtColumn /\ ~Column.dropped
    /\ Column.null \/ Column.typ # "record"
    /\ \/ /\ \E e \in Elements(Column) : Advance(frames, builders, <<e>>)
          /\ UNCHANGED pins
       \/ MayFail(Column) /\ RaiseError /\ UNCHANGED calls

\* The case RECORDOID: subobjStart, then the recursive call.
AppendRecord ==
    /\ AtColumn /\ ~Column.dropped /\ ~Column.null /\ Column.typ = "record"
    /\ Enter(Column.name, Column.rec) \/ RaiseError
    /\ UNCHANGED calls

AtEnd == phase = "convert" /\ Top.i > Len(Top.comp.cols)

\* Mutant of Release: the caller releases the descriptor, too.
MutReleaseTwice == pins' = [pins EXCEPT ![Top.comp.desc] = @ - 2]

Release == pins' = [pins EXCEPT ![Top.comp.desc] = @ - 1]
Outer(s) == SubSeq(s, 1, Len(s) - 1)

\* Mutant of LeaveRecord: an early return for a record without fields.
MutLeaveRecordPinned ==
    /\ AtEnd /\ Len(frames) > 1
    /\ IF Builder.fields = <<>> THEN UNCHANGED pins ELSE Release
    /\ Advance(Outer(frames), Outer(builders), <<Embedded(Builder.name, "object", Builder.fields)>>)

\* ReleaseTupleDesc, sub.done(), and back to the loop of the outer row.
LeaveRecord ==
    /\ AtEnd /\ Len(frames) > 1
    /\ Release
    /\ Advance(Outer(frames), Outer(builders), <<Embedded(Builder.name, "object", Builder.fields)>>)

\* ReleaseTupleDesc, obj() and return_bson, whose palloc() may fail; the buffer
\* is freed with the last BSONObj.
Return ==
    /\ AtEnd /\ Len(frames) = 1
    /\ \/ /\ phase' = "idle" /\ frames' = <<>> /\ builders' = <<>>
          /\ Release
          /\ returned' = returned \cup {<<Top.comp, Builder.fields>>}
          /\ UNCHANGED lost
       \/ RaiseError
    /\ UNCHANGED calls

\* The builder throws (BsonBuilder has when) and there is no handler.
BuilderThrows ==
    /\ phase = "convert"
    /\ phase' = "terminated"
    /\ UNCHANGED <<frames, builders, pins, lost, returned, calls>>

Step == SkipDropped \/ AppendDatum \/ AppendRecord \/ LeaveRecord \/ Return

Next == Step \/ BuilderThrows \/ \E r \in Rows : Call(r)

Spec == Init /\ [][Next]_vars

\* A call that has been made runs.
FairSpec == Spec /\ WF_vars(Step)

-----------------------------------------------------------------------------
(* Properties *)

\* Each activation of composite_to_bson holds exactly one pin, on the descriptor
\* of its own row type, also when a row type occurs inside itself; between calls
\* nothing is pinned, however the last one ended.
PinsMatchFrames ==
    \A d \in Descs : pins[d] = Cardinality({k \in 1..Len(frames) : frames[k].comp.desc = d})

\* Every call ends, whatever records and dropped columns the row has.
CallsEnd == phase = "convert" ~> phase # "convert"
=============================================================================
