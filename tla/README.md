# postgresbson: a verification of the BSON type

postgresbson adds a type `bson` to PostgreSQL: documents in MongoDB's binary
format, with input and output as JSON, getters for fields, comparison and index
support, functions for arrays, and a conversion from rows. It is a few hundred
lines of C++ that PostgreSQL calls from C, over the BSON library of the mongo C++
driver. This directory holds TLA+ modules translated from that code, TLC
configurations that check them on small instances, and theorems about them with
proofs that TLAPS checks.

Paths below are relative to `src/pgbson/`; `mongo/` stands for
`mongo-cxx-driver-v2.4/src/mongo/`.

## 1. The system and its parts

| part | code | state | operations |
|---|---|---|---|
| document builder | `mongo/bson/util/builder.h`, `mongo/bson/bsonobjbuilder.h` | buffer (`data`, `l`, `size`), for each builder on it `_offset` and `_doneCalled` | append, `subobjStart`, `subarrayStart`, `done`, `obj`, destructors |
| ownership | `Holder` in `mongo/bson/bsonobj.h` | reference count in front of the document | copy and drop of a `BSONObj` |
| iteration | `mongo/bson/bsonobjiterator.h`, `BSONElement::size()` | position and end | `more`, `next` |
| field access | `bson_get_*`, `convert_element`, `getFieldDotted` | none | lookup, conversion, NULL, error |
| array functions | `bson_unwind_array`, `bson_array_size`, `BSONElement::Array()` | `FuncCallContext`, the C++ `FunctionContext` | first, next and last call; shutdown by the executor |
| row conversion | `row_to_bson`, `composite_to_bson`, `datum_to_bson` | the loop of each activation, builders, pins on row descriptors | one append per column, recursion for records |
| comparison | `bson_compare`, `woCompare`, `compareElementValues`, the btree operator class | none (the index) | compare; insert, delete, search |
| hash and binary equality | `bson_hash`, `bson_binary_equal` | none | hash, `memcmp` |
| JSON input | `bson_in`, `mongo/db/json.cpp`, `mongo/util/base64.cpp`, `mongo/util/hex.h` | input position, builders | recursive descent |
| JSON output | `bson_out`, `jsonString` in `mongo/db/jsobj.cpp`, `escape` in `mongo/bson/bson-inl.h` | none | rendering |
| binary I/O, result helpers | `bson_recv`, `bson_send`, `return_*` | none | copies into `palloc`'ed memory |

How they interact: `bson_in` runs the parser, the parser drives a stack of
builders on one buffer, `obj()` hands the buffer to a `BSONObj`, and `return_bson`
copies it into PostgreSQL's memory. `row_to_bson` does the same with a row in
place of the text. Every other function reads such a copy: it looks a field up
by its dotted name and converts it, compares, or goes through an array call by
call. The getters also build documents, to wrap a scalar that has no document.

### What is hard about it

* Two ways out of every function: a C++ exception, which runs destructors and has
  to be caught before it reaches C, and `ereport`, which is a `longjmp` and runs
  none. Memory is owned by the C++ heap, by PostgreSQL's contexts, or by the
  executor.
* The destructor of a nested builder writes to the shared buffer, also while an
  exception about that buffer is in flight.
* `bson_unwind_array` keeps pointers from one call to the next, while the executor
  recycles memory, interleaves it with other sets, or never calls it again.
* Comparison crosses types, goes through doubles, and has to be an order for the
  index to work at all.
* Sizes: with and without terminators, one byte more, units of time; numbers read
  in one width and kept in another; a loop that doubles an `int`.
* JSON is what a dump holds. The parser takes more than its grammar, the writer
  knows types the parser does not, and a table has to survive the way through
  both.

### What has to be true

* Builder: size fields span exactly their documents; a finished object is whole;
  the buffer is freed once; a closed document is final; unwinding ends and does
  not terminate the backend for want of a byte; the bytes read back as what was
  written.
* Field access: steps and full names agree; getters do not contradict each other.
* Arrays: elements outlive the calls; rows come in order; sizes agree with rows;
  sets end; nothing on the heap is unaccounted for.
* Rows: the result represents the row and reads back; descriptors are pinned
  exactly while they are used; calls end.
* Comparison: it is an order; an index sorted by it finds what a scan finds, and
  so does a hash index.
* JSON: what is accepted is in the grammar and becomes the document it means, what
  is rejected is not; a dump can be restored, with the same values.

## 2. Modules

| module | models | checked by | proved in |
|---|---|---|---|
| `BsonBuilder` | builders on one buffer, ownership | `MCBsonBuilder` | `BsonBuilderProofs` |
| `BsonDocument` | abstract: a builder without a buffer | | |
| `BsonReader` | iteration; `BsonBuilder` implements `BsonDocument` | `MCBsonBuilder` | `BsonBuilderProofs`, `BsonDocumentProofs` |
| `GrowLoop` | the doubling loop of `grow_reallocate`, in `int` | `MCGrowLoop` | `BsonBuilderProofs` |
| `UnwindArray` | `bson_unwind_array` with executor, memory contexts and heap; `bson_array_size` | `MCUnwindArray` | `QueryProofs` |
| `BsonElements` | lookup and conversion, as operators | `MCFieldAccess`, `MCRowToBson` | `QueryProofs` |
| `FieldAccess` | a query that goes down into a document | `MCFieldAccess` | `QueryProofs` |
| `RowToBson` | `row_to_bson`, its recursion, pins and errors | `MCRowToBson` | `RowToBsonProofs` |
| `RowRoundTrip` | composes `RowToBson` with the getters of `BsonElements` | `MCRowToBson` | `RowToBsonProofs` |
| `BsonOrder` | `bson_compare`, as operators | `MCBsonIndex` | `BsonIndexProofs` |
| `BsonIndex` | a btree index sorted by it | `MCBsonIndex` | `BsonIndexProofs` |
| `HashIndex` | `bson_hash`, `==`, and a hash index with them | `MCBsonIndex` | `BsonIndexProofs` |
| `JsonText` | lexemes, numbers and elements | | |
| `JsonParse` | `fromjson`: the functions of `JParse`, driving `BsonDocument` | `MCJson` | |
| `JsonOutput` | `jsonString`, as operators | `MCJson` | |
| `JsonRoundTrip` | composes input and output: insert, dump, restore, dump, restore | `MCJson` | |
| `JsonGrammar` | the grammar in the comments of `json.h`, as a reference | `MCJson` | |
| `Base64` | `base64::encode` and `decode`, as operators, and RFC 4648 | `MCJsonChars` | `JsonCharsProofs` |
| `JsonChars` | the characters of a string: `chars()`, `escape()`, base64 | `MCJsonChars` | `JsonCharsProofs` |

`DataInduction` models nothing. It has the lemmas about intervals, sequences and
recursive functions that the proofs share.

### State and actions

**`BsonBuilder`.** `l`, `size` and `data` are the fields of `_BufBuilder`; `levels`
is the stack of builders C++ scoping keeps open (`_offset`, `_doneCalled`). The
bytes are abstracted to `cells`: what is at each offset a reader looks at. Each
operation is one action with one success branch and a branch for each `grow()`
that throws: past the limit, or because `realloc()` fails. `realloc()` loses the
old block (`builder.h:224`), which `oom` records. `CloseSub` leaves open whether an
exception may leave a destructor: the build sets no language level. `Unwind`
destroys the innermost builder while an exception is in flight.

**`UnwindArray`.** One record of `FuncCallContext` and `FunctionContext` for each
place of a query (`Calls`). An invocation is one action, since nothing runs beside
it in a backend; between invocations the executor begins sets, recycles per-tuple
memory and gives sets up. The kinds of memory are told apart because the elements
point into the argument or its detoasted copy (`pgbson_exports.cpp:261`), not
into the deep copy the context holds.

**`BsonElements`, `FieldAccess`.** A document is a sequence of elements; a name is
the sequence of its labels between dots. `GetFieldDotted` states the recursion of
`getFieldDotted` as the documents it passes through. `FieldAccess` applies
`bson_get_bson` to its own results and reads fields on the way. `Inside` is the set
of documents embedded in a document, by levels up to `MaxDepth`.

**`RowToBson`.** `frames` has the activations of `composite_to_bson`, `builders` the
fields appended so far, `pins` the reference counts of row descriptors. Each
column is one action; a record is an `AppendRecord`, its own columns, and a
`LeaveRecord`. `RaiseError` is `ereport`: activations and pins go, the C++ buffer
stays (`lost`). `BuilderThrows` is an exception, which nothing catches. The byte
`datum_to_bson` reads behind a text is chosen from `PastEnd`. What a document says
of a row, and what the getters read back, goes down into records; both are
defined level by level, up to `MaxNesting`.

**`BsonOrder`, `BsonIndex`.** Values that are compared byte by byte are represented
by their rank; numbers, NaN, dates and timestamps by what the comparison does with
them. `CompareValues` takes the results for embedded documents as a function, so
that no operator is recursive. The index is external: a sorted sequence with
binary search, whose loop is `Place` and a turn of it `Narrow`.

**`HashIndex`.** Documents are their bytes, the first of which is the length. `Hash`
and `BinaryEqual` are the loops of `BSONObj`; the access method is external, a set
of pairs of code and row. In `MCBsonIndex` a column has one index or the other.

**`GrowLoop`.** `BsonBuilder` takes `grow_reallocate` as one step to the least
doubling that will do. Here each turn of the loop is a step, and `Twice` wraps
around as the compiled code does. `InReach` says that `newLen` is within 2^30, which
is all the loop variable can get to; the 64 MB limit is tested only behind the loop.

**`JsonParse`.** An activation of a parsing function is a record with what it has
left to do (`prog`): accept a lexeme, read a name or an argument, make a decision,
call the builder. `Read` takes the first three, and `Members`, `More`, `Elements`,
`Value` and `Options` are the places where a function looks at the input and
decides. The builder is an instance of `BsonDocument`, the specification that
`BsonBuilder` implements. A text is chosen lexeme by lexeme, at the moment when
the parser first looks at it: all texts with the same beginning share its parse,
and a wrong lexeme can come at any place. `parseError` discards all activations at
once, except in `constructor()`, which drops the status of `date()`
(`json.cpp:541`); `Mismatch` has both. Strings are labels here: which of them are
24 hex digits, base64 or options is given by constants, and their characters are
the subject of `JsonChars`. `Word` is 2^32: what fits an int, a long long or the
half of a timestamp keeps its relation to it.

**`JsonOutput`, `JsonRoundTrip`.** `JsonString` is a document's text as lexemes,
strict and on one line, as `bson_out` asks for it. `round` 0 is a text from
elsewhere; whatever document it gives is dumped and restored twice. Documents
that did not come from a text (`Docs`) start with their first dump. `Restored` is
the reference: what a value comes back as, or nothing if its text is refused. Two
constants stand for what is copied without `escape()`: `RawOf` has the namespaces
whose copy is not the string itself, and `OptionsOf` the flags of regular
expressions, of which the parser takes `Gims`.

**`JsonGrammar`.** Each nonterminal is the set of its derivations, a text with the
document it stands for, by cost (below). It is a definition of its own: it has no
position, no stack and no builder. Where the code takes more than `json.h` says
there are derivations for that as well, marked with the departure they make (`by`):
`AcceptedIsInGrammar` asks for a derivation without any.

**`JsonChars`.** `chars()` at the level of bytes, a turn of its loop a step; `reach` is
the farthest byte looked at. What has been read is written by `escape()` and read
again; binary data is written by `encode()`, read by `chars()`, tested by
`binaryObject()` and decoded.

## 3. Runs

| run | states | shows |
|---|---|---|
| `builder` | 100,592 | `SizeFieldsExact`, `FinishedIsWhole`, `FreedOnce`, `ClosedIsFinal`, `RoomToUnwind`, `UnwindEnds`; `ImplementsDocument`: the builder refines `BsonDocument` |
| `grow_loop` | 154,697 | `Covered`, `GrowsToLeast`, `GrowEnds` |
| `unwind` | 257,184 | `ElementsLive`, `HeapAccounted`, `RowsInOrder`, `SizeAgrees`, `WellNamedSurvives`, `SetsEnd` |
| `field_access` | 24,797 | `StepsAgree`, `GettersAgree` |
| `row` | 345,048 | `PinsMatchFrames`, `RowFaithful`, `RoundTrip`, `CallsEnd` |
| `index` | 25,329 | `IndexFinds`, `IndexSorted`, `HashFinds` |
| `json` | 333,823 | `AcceptedIsMeant`, `RejectedInTime`, `ParseEnds`; `RestoreAccepts`, `RestoreKeepsValues` |
| `json_chars` | 93,287 | `CharsAccepted`, `CharsRejected`, `ReadsInside`, `EscapeRestores`, `DecodeRestores` |
| `row_contract`, `big_longs`, `date_stamp`, `json_dates` | | one property each, which does not hold: see Findings |

The first five runs also check a type invariant (`TypeOK`, `GrowTypeOK`,
`QueryTypeOK`); in the others each variable holds what another property compares
with a reference. Run one with `tlc -config MCRowToBson.cfg MCRowToBson`. Each takes
about a minute or less.

### Bounds

* `builder`: a buffer that starts at 12 bytes, is reallocated at 16 and 32 and
  throws beyond, with documents valid up to 24, so that all three limits are met
  by documents of a few fields; names of two widths, values with and without a
  length prefix, four nested builders, two references.
* `grow_loop`: 2^31 is 1024 and 64 MB are 32, in their true proportion; requests
  up to 512 (1 GB), so that `newLen` comes to both sides of 2^30.
* `unwind`: two calls, three sets (so that one place is used twice beside
  another), arrays of two fields in order, out of order, with a repeated, a
  missing, a non-numeric and a too large position; `MaxIndex` is 3 for 1000000.
* `field_access`: documents of two fields and three levels with every kind of
  type, repeated and empty names, and dots in names; full names of four labels.
  `MaxDepth` is 3, and no document is deeper.
* `row`: two calls, three columns, records in records in records with a row type
  inside itself, null and dropped columns; two values for the stray byte.
  `MaxNesting` is 3, the depth of the deepest row.
* `index`: three entries, which is what a violation of transitivity needs, out of
  42 documents with every type, among them code whose scopes differ behind the byte
  at which `strcmp()` stops; integers up to 4 stand for those up to 2^53, and
  16 for 2^64. The hash index has three rows and 21 documents of up to three
  bytes, and codes of 6 bits, so that many collide.
* `json`: a text may cost 3: `{`, `[` and a small number cost 1, every other value
  2, a reserved name 1, and the `$id` of a reference one less than its value. That is
  every form of value, with every lexeme of it replaced by every wrong one, beside a
  plain value or inside an object or array; two levels of nesting with a value in
  the innermost; objects and arrays of up to two or three values; references with
  every form of id. Numbers at both sides of the limits of int, long, exact double
  and `strtod()`, also below the least normal double; dates at both sides of 64 bits
  with and without a sign; timestamps that do not fit. 1,736 stored documents: every
  type, alone, in an object, in an array with and without holes, beside another; the
  greatest double, which 16 digits round up; flags the parser does not know;
  namespaces with a quote and with a backslash; objects that begin with a reserved
  name and have the form of a value, or nearly. The reference is a set of all
  sentences, which a cost of 4 makes too large.
* `json_chars`: strings of up to four pieces and their ends, cut off at each place;
  digits around the borders of UTF-8, octal and other digits behind a backslash.
  Binary data of up to seven bytes.

No symmetry is used, nor a state constraint. Deadlock is checked for
`field_access`; the other systems stop by themselves: a builder that is gone, a
bound on sets or calls, a backend that was terminated.

### Fairness

`UnwindEnds` assumes that the C++ runtime goes on unwinding; `SetsEnd` that the
executor goes on calling a set it has neither finished nor given up; `CallsEnd`
that a running function goes on, and so do `ParseEnds` and `GrowEnds`. Each is
weak fairness of exactly these steps. Calls, new sets, exceptions and errors are never assumed to happen.

### Findings

1. A `"char"` column becomes a string without a terminator
   (`pgbson_internal.cpp:128`; `bsonobjbuilder.h:359`: "size includes terminating
   null character").
2. A timestamp becomes a date in microseconds since 2000 (`pgbson_internal.cpp:173`;
   `bsonobjbuilder.h:309` asks for milliseconds since 1970).
3. A text column is appended with the byte behind it (`pgbson_internal.cpp:149`), so
   that `row_to_bson`, declared `IMMUTABLE`, has several results for a row. The
   getters do not see the byte: `RoundTrip` holds.
4. A long and a double are compared as doubles, two longs as longs
   (`bson-inl.h:84`): beyond 2^53 the "well ordered compare" is not transitive,
   and an index misses entries.
5. A date compared with a timestamp throws (`bson-inl.h:59`), although the comment
   above (`bson-inl.h:34`) excludes the call; `bson_compare` has no handler.
6. A `new Date` that cannot be read is left out, and the rest of the text accepted:
   `constructor()` drops the status of `date()` (`json.cpp:541`; `json.h:181` has
   `CONSTRUCTOR : DATE` and nothing else).
7. Dates may have 64 bits without a sign, or even that many with one (`json.cpp:365`;
   `json.h:131` has a "64 bit signed integer"). A comment in `dateObject` gives the
   reason for the first.
8. The parts of a timestamp may have 64 bits, of which 32 are kept (`json.cpp:394`,
   `json.cpp:585`; `json.h:138` and `json.h:196`: "32 bit unsigned integer").
9. The `$id` of a reference may be any value (`json.cpp:492`, `json.cpp:656`;
   `json.h:156` has 24 hex digits or an object id, `json.h:209` 24 hex digits).

The counterexample of `row_contract` is a row with a `"char"`, a text and a
timestamp column, and its document shows findings 1 to 3 beside each other. That of
`json_dates` shows finding 6, which has the shortest text; the texts of the run
include those of 7 to 9.

The passing runs say what does hold: `RoundTrip` states of `"char"` and timestamp
columns only that they are there, `index` has no integers beyond the exact ones
and speaks of the comparisons that do not throw, and `AcceptedIsMeant` speaks of
texts without a dropped date and says of findings 7 to 9 what document comes of
them: the departures are named in `JsonGrammar`, and a text that makes none has to
be one of the grammar of `json.h`.

Other differences are part of the statements that hold:

* `\8` and `\9` are accepted (`json.cpp:869`; `json.h:302` excludes `[0-9]`, while
  `json.h:234` has `[0-7]` for regular expressions). `CharsAccepted` compares a
  string with the grammar of `json.h`, and one in which `OtherDigit` has found such an
  escape with the grammar that excludes octal digits only.
* Some documents are written as a text that `bson_in` refuses, and `RestoreAccepts`
  says which: code is written without quotes (`jsobj.cpp:244`); the greatest doubles
  are rounded up to 16 digits (`jsobj.cpp:84`), and `strtod()` reports `ERANGE` for
  them as it does for the smallest (`json.cpp:730`), so that `bson_in` accepts
  `1.7976931348623157e308` and not what `bson_out` makes of it; flags of regular
  expressions are written as they are (`jsobj.cpp:216`), and the parser takes `gims`;
  so are the namespaces of references of the old kind (`jsobj.cpp:156`), in which a
  quote ends the string; documents whose own first field has a reserved name are
  refused, and so are embedded objects with such a first field that do not have the
  form of that type. Of a namespace with a quote the run has an example whose rest
  is no JSON; what another rest would be read as is left open.
* Symbols come back as strings, numbers as the smallest type that holds them,
  holes in arrays as undefined, least and greatest keys as objects, code whose text
  is a value as that value, objects of the form of another type as that type, a
  backslash in the namespace of an old reference as an escape, and doubles that need
  17 digits as a neighbour. `RestoreKeepsValues` says that this is all, and that it
  happens once. Zeros are not told apart: -0.0 is written `-0` and comes back as 0.
* For a needed length beyond 2^30 the loop variable of `grow_reallocate` wraps
  around to 0 and the loop does not end, so that the 64 MB limit behind it is not
  reported. `GrowEnds` says so, and that every other request ends.

## 4. Theorems

All hold for every value of the constants that satisfies the `ASSUME` of the
module (`BuilderAssumption`, `UnwindAssumption`, `FieldAccessAssumption`,
`RowAssumption`, `NestingAssumption`, `OrderAssumption`, `GrowAssumption`,
`DoublingAssumption`, `HashAssumption`, `CharsAssumption`), which TLC evaluates in the runs. They say
that numbers are numbers and that documents, rows and texts are well formed and
nested to some finite depth; none bounds their size or that depth.

* **Builder** (`BsonBuilderProofs`): `TypeOK`, `SizeFieldsExact`, `FinishedIsWhole`,
  `FreedOnce`, `ClosedIsFinal` and `RoomToUnwind`. The properties are not inductive:
  a size field is patched when a builder closes, so one has to know where the
  headers of the open documents are. The invariant `IInv` adds that the offsets of
  `levels` increase and each is an open size field (`Frames`), that closed documents
  lie between them (`Separate`), that the capacity covers the length (`Capacity`),
  that nothing is torn unless an exception is in flight (`Clean`), and who owns the
  buffer in each phase (`Owner`). One lemma per action.
* **Refinement** (`BsonDocumentProofs`): `ImplementsDocument`, every step of
  `BsonBuilder` with its bytes is a step of `BsonDocument`, which has none, or a
  stutter. The mapping reads the buffer with `BSONObjIterator`, written as a function
  by recursion over the number of calls. `Holds` says that what lies between two
  offsets is a sequence of fields; such spans can be joined (`HoldsConcat`), keep
  their fields in a buffer that agrees with them (`HoldsFrame`), and are read back
  by the iterator (`HoldsRead`, by induction over the calls). The invariant
  `Readable`, beside `IInv`: what each builder in scope has written up to the header
  of the next is such a span (`View`), and each header ends at its size field with
  nothing between (`Headers`). One lemma per action says which step of
  `BsonDocument` it is.
* **Growth** (`BsonBuilderProofs`): `GrowTypeOK`, `Covered`, `Tight` and `GrowsToLeast`, for all
  sizes and requests, those beyond 2^30 included, and `LoopEndless`, that no step leaves
  the loop with one of those. The invariant adds what a request in progress is
  (`Request`): `newLen` exceeds the allocation and is at most the limit and one
  request; and what the loop variable can be (`LoopVariable`): a doubling of the first
  try, the least int that the last one wraps around to, or 0. `DoublingAssumption` says
  that the doublings come to 2^31, as those of 64 do.
* **Arrays** (`QueryProofs`), in two invariants. Memory (`MInv`): sets are
  numbered freshly (`Fresh`) and a running set holds its memory (`Held`), hence
  `ElementsLive` and `HeapAccounted`. Rows (`RInv`): the vector in a `FunctionContext`
  is that of the set's own argument, `call_cntr` has counted the rows that were
  returned, "done" means all of them (`Progress`), and a terminated backend has a
  set on an array that cannot be read (`Culprit`); hence `TypeOK`, `RowsInOrder`,
  `SizeAgrees` and `WellNamedSurvives`. `SizeAgrees` rests on what the loop of
  `Array()` leaves in its vector, by induction over the fields.
* **Field access** (`QueryProofs`): `QueryTypeOK`, `StepsAgree` and `GettersAgree`, for
  documents of any depth. `QueryInv` says where the query is: at a document inside
  the given one or at a wrapped value, and, if no name has a dot, at the one that
  the full name leads to. The step: `getFieldDotted` along a name with one more
  label is `getFieldDotted` along the name and one lookup (`GetFieldDotted` stops
  where a field is missing or is no document, and `bson_get_bson` wraps a scalar so
  that it does the same).
* **Rows** (`RowToBsonProofs`). `TypeOK` and `PinsMatchFrames` together are inductive:
  the count of activations on a descriptor goes up and down with the stack, and
  that it is a cardinality keeps the reference counts from becoming negative.
  `RowFaithful` needs `FInv`: the builder of each activation represents the columns
  its loop has passed (`Converted`), and each activation converts the record, under
  the name, at which the one below it has called it (`Hangs`). `Rep` says that a
  document represents a row at every depth, as the largest relation that agrees
  with itself one level down; the levels of `Represents` follow by induction.
  `RoundTrip` follows from `FInv` alone: a dotted name leads through the documents
  of the records (`Reached`), no other field can be found on the way if names are
  unambiguous, and each getter inverts the conversion of its type (`ElementReads`).
* **Comparison** (`BsonIndexProofs`): `CompareIsOrder`. If the embedded documents are
  ordered, so are documents with elements from an admissible set: integers have
  doubles of their own, and dates do not meet timestamps. Findings 4 and 5 show
  that both conditions are needed. `NestedCompareIsOrder` goes up from there to any
  depth. The argument: types with the same rank are the same type or of one family
  (`SamePlace`), each family is ordered, and the first position where two of three
  documents differ decides (a least element, by well-foundedness).
* **Btree index** (`BsonIndexProofs`): `IndexSorted` and `IndexFinds`, for an index of
  any size on a column that is admissible (`Column`). The invariant is that neighbours
  are in order and the backend is up; binary search keeps everything before its
  window smaller and everything behind it not smaller, so that an insertion where it
  ends keeps the order. Without `Column` sortedness is lost: a comparison that throws
  leaves the place of an entry undetermined. The run `index` goes beyond the theorem
  in that it mixes dates and timestamps, and says less about them.
  `OnlyDatesAndStamps` is about columns that need not be admissible (`TypedColumn`:
  elements of any types, embedded documents one level deep): if a comparison ends the
  backend, the column has a document with a date where another has a timestamp. Of
  all pairs of types that share a canonical type only these throw (`WhatThrows`), the
  loop of `woCompare` throws only where it meets them (`WhereThrows`), and a search
  compares documents of the column only (`InIndex`).
* **Hash index** (`BsonIndexProofs`): `HashFinds`, for all documents. The invariant
  `Indexed`: the buckets hold the rows of the table under their codes, no more and
  no less. `EqualIsSame`: documents that `==` calls equal are the same bytes, hence
  have one code.
* **Characters** (`JsonCharsProofs`), for texts and data of any length.
  `EncodeIsRfc4648` and `DecodeInvertsEncode` are about the operators: the loops of
  `base64.cpp` write what the RFC says, and `decode` inverts it. `ReadInv` says that
  what is read was written by `escape()` or `encode()` and how far `chars()` has
  come in it, counted in characters of what was written; hence `ReadsInside`,
  `EscapeRestores` and `DecodeRestores`. `GrammarInv` says that the text read so far
  is `CHARS` of the grammar with the result so far as its meaning, and that no
  quote can end the string where `chars()` stops with an error; hence `CharsAccepted`
  and `CharsRejected`. `SameMeanings`: up to the first `\8` or `\9` the two grammars have
  the same strings.

Induction over data: the library states induction for an operator as a parameter,
which the provers cannot instantiate. `DataInduction` states it for sets
(`IntervalInduction`), and that functions defined by recursion exist, for turns of a
loop (`RunExists`, `LoopExists`, `AppendLoopExists`) and for courses of values
(`CourseExists`). Loops and levels of nesting are written as such functions in the
modules with proofs.

Only model-checked:

* liveness (`UnwindEnds`, `SetsEnd`, `CallsEnd`, `ParseEnds`, `GrowEnds`): fairness and
  ENABLED are outside the prover;
* the round trips through JSON (`RestoreAccepts`, `RestoreKeepsValues`): `JsonOutput`
  writes documents with RECURSIVE operators, which switch the SMT prover off;
* the parser against the grammar (`AcceptedIsMeant`, `RejectedInTime`). They are
  stated over the round trip and so over the same operators; beyond that, a proof
  has to relate every stack of activations to the derivations it can still
  complete, and has not been written.

## 5. Not modelled

* Documents that no builder has built. `bson_recv` accepts bytes as they come; the
  models start from documents that are well formed.
* In the JSON modules: words that run into each other without white space, the
  characters of a regular expression between slashes, null characters in field
  names, and what `fromjson` leaves unread behind the closing brace (it leaves it
  unread). Messages and offsets of errors. The pretty and the JavaScript form of
  `jsonString`, which the extension does not use.
* Types that `jsonString` refuses with an exception. No document that the extension
  has built contains one.
* Binary input and output: they copy bytes and have no state beyond the copy.
* Memory that the two ways out of a function leave behind, outside of `RowToBson`
  (`lost`) and `UnwindArray` (`heap`): an error raised in the handler of an exception
  (`pgbson_internal.hpp:124`) leaks the exception object, each time and by a bounded
  amount.
* Failure of `new` and of `std::vector` in `bson_unwind_array`.
* The rest of the driver: connections, replica sets, cursors, GridFS, the query
  language, logging, threads and sockets. It is compiled into the extension and
  nothing in the extension calls it. It is most of the lines under `src/`, so that
  the modules, which cover the code the extension runs, cover a small part of all.
* Build files.

## 6. Plan

Proofs: the parser against the grammar, and the round trips through JSON, with the
text of a document as a recursive function in place of a RECURSIVE operator.
