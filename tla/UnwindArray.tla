---------------------------- MODULE UnwindArray ----------------------------
(***************************************************************************)
(* bson_unwind_array, a set-returning function in value-per-call mode, and *)
(* bson_array_size, which should agree with it.  Several sets can be in    *)
(* progress in one backend.  Each invocation runs to completion; between   *)
(* two of them the executor resets its per-tuple memory, runs other sets,  *)
(* or gives a set up (LIMIT, a closed cursor, an aborted transaction).     *)
(*                                                                         *)
(* Three kinds of memory are told apart: palloc'ed memory, which dies with *)
(* its context; the argument, which the executor keeps for as long as the  *)
(* set is in progress; and the C++ heap, which only delete gives back.     *)
(***************************************************************************)
EXTENDS Integers, Sequences

CONSTANTS
    Calls,     \* places of a query where the function is called
    Args,      \* arguments: see ArgSet
    MaxIndex,  \* array positions Array() accepts (1000000)
    MaxStarts  \* bound on the number of sets begun

None == -1     \* the index of a field whose name is not a number
NoElement == [obj |-> FALSE, v |-> None]  \* a default constructed BSONElement

Element == [obj : BOOLEAN, v : Int]
Field == [idx : Nat \cup {None}, el : Element]

\* What the field name leads to: nothing, an array, or one other value.  toasted:
\* PG_DETOAST_DATUM_PACKED has to make a copy.
ArgSet == [toasted : BOOLEAN, kind : {"missing", "array", "value"}, fields : Seq(Field)]

ASSUME UnwindAssumption ==
    /\ MaxIndex \in Nat /\ MaxStarts \in Nat
    /\ Args # {}
    /\ \A a \in Args :
          /\ a \in ArgSet
          /\ a.kind = "value" => Len(a.fields) = 1
          /\ \A i \in 1..Len(a.fields) : a.fields[i].el # NoElement

VARIABLES
    backend,  \* "up", or "terminated" by an exception nobody catches
    starts,   \* sets begun so far
    st,       \* of each call: "idle", "first" or "next" call to come, "done"
    arg,      \* its argument
    user,     \* funcctx->user_fctx, as the number of the set
    cntr,     \* funcctx->call_cntr
    array,    \* FunctionContext::array
    points,   \* the memory the elements of array point into
    rows,     \* rows returned so far
    live,     \* memory that has not been freed, by call
    heap,     \* blocks on the C++ heap
    lost      \* those that nothing refers to any more

vars == <<backend, starts, st, arg, user, cntr, array, points, rows, live, heap, lost>>

\* The argument, multi_call_memory_ctx, the executor's per-tuple memory.
Memory == Calls \X {"arg", "multi", "tuple"}
Block == {"context", "row"} \X Nat

Running(c) == st[c] \in {"first", "next"}

TypeOK ==
    /\ backend \in {"up", "terminated"} /\ starts \in Nat
    /\ st \in [Calls -> {"idle", "first", "next", "done"}]
    /\ arg \in [Calls -> Args]
    /\ user \in [Calls -> Nat] /\ cntr \in [Calls -> Nat]
    /\ array \in [Calls -> Seq(Element)]
    /\ points \in [Calls -> Memory]
    /\ rows \in [Calls -> Seq({"doc", "wrapped"} \X Int)]
    /\ live \subseteq Memory
    /\ heap \subseteq Block /\ lost \subseteq Block

-----------------------------------------------------------------------------
(* The array *)

\* Mutant of Store: push_back() instead of the position in the field's name.
MutStoreAppend(v, f) == IF f.idx = None THEN v ELSE Append(v, f.el)

\* v[u] = e, after resizing v if u is beyond its end.
Store(v, f) ==
    IF f.idx = None THEN v
    ELSE [i \in 1..(IF f.idx >= Len(v) THEN f.idx + 1 ELSE Len(v)) |->
             IF i = f.idx + 1 THEN f.el ELSE IF i <= Len(v) THEN v[i] ELSE NoElement]

\* BSONElement::Array(), the loop over the fields.
ArrayOf(fields) ==
    LET upTo[n \in 0..Len(fields)] ==
            IF n = 0 THEN <<>> ELSE Store(upTo[n - 1], fields[n])
    IN  upTo[Len(fields)]

\* Mutant of Accepted: positions have to come in order.
MutAcceptedInOrder(a) ==
    a.kind = "array" => \A i \in 1..Len(a.fields) : a.fields[i].idx < i

\* Its verify() holds for every field.
Accepted(a) ==
    a.kind = "array" => \A i \in 1..Len(a.fields) : a.fields[i].idx < MaxIndex

\* The vector the first call leaves in the FunctionContext.
Elements(a) ==
    CASE a.kind = "missing" -> <<>>
      [] a.kind = "array" -> ArrayOf(a.fields)
      [] OTHER -> <<a.fields[1].el>>

\* The row for an element: embedded documents and arrays as they are, other
\* values in a document with one nameless field.
RowOf(e) == <<IF e.obj THEN "doc" ELSE "wrapped", e.v>>

\* Mutant of ArraySize: the first field is skipped.
MutArraySizeShort(a) ==
    CASE a.kind = "missing" -> None
      [] a.kind = "array" /\ a.fields # <<>> -> Len(a.fields) - 1
      [] OTHER -> 1

\* bson_array_size; None stands for NULL.
ArraySize(a) ==
    CASE a.kind = "missing" -> None
      [] a.kind = "array" -> Len(a.fields)
      [] OTHER -> 1

-----------------------------------------------------------------------------
(* Ways an invocation ends *)

Init ==
    /\ backend = "up" /\ starts = 0
    /\ st = [c \in Calls |-> "idle"]
    /\ arg \in [Calls -> {CHOOSE a \in Args : TRUE}]
    /\ user = [c \in Calls |-> 0] /\ cntr = [c \in Calls |-> 0]
    /\ array = [c \in Calls |-> <<>>] /\ rows = [c \in Calls |-> <<>>]
    /\ points = [c \in Calls |-> <<c, "arg">>]
    /\ live = {} /\ heap = {} /\ lost = {}

Of(c) == {c} \X {"arg", "multi", "tuple"}

\* An exception leaves the extern "C" function: std::terminate().
Terminate ==
    /\ backend' = "terminated"
    /\ UNCHANGED <<starts, st, arg, user, cntr, array, points, rows, live, heap, lost>>

\* The sets S end without a last call: their palloc'ed memory is freed, what
\* they have on the C++ heap h stays there.
GiveUp(S, h) ==
    /\ st' = [c \in Calls |-> IF c \in S /\ Running(c) THEN "idle" ELSE st[c]]
    /\ live' = live \ UNION {Of(c) : c \in S}
    /\ heap' = h
    /\ lost' = lost \cup {b \in h : b[1] = "row" \/ \E c \in S : Running(c) /\ b[2] = user[c]}
    /\ UNCHANGED <<backend, starts, arg, user, cntr, array, points, rows>>

\* ereport(ERROR) in an invocation for c ends the sets of the (sub)transaction;
\* longjmp runs no destructor.
Abort(c, h) == \E S \in SUBSET Calls : c \in S /\ GiveUp(S, h)

\* Mutant of ReturnDone: without the delete.
MutReturnDoneKeeps(c, h) ==
    /\ heap' = h
    /\ st' = [st EXCEPT ![c] = "done"]
    /\ live' = live \ Of(c)
    /\ UNCHANGED <<backend, starts, arg, user, cntr, array, points, rows, lost>>

\* call_cntr == array.size(): delete context, SRF_RETURN_DONE.
ReturnDone(c, h) ==
    /\ heap' = h \ {<<"context", user[c]>>}
    /\ st' = [st EXCEPT ![c] = "done"]
    /\ live' = live \ Of(c)
    /\ UNCHANGED <<backend, starts, arg, user, cntr, array, points, rows, lost>>

\* Mutant of ReturnNext: the counter runs backwards.
MutReturnNextBack(c, h, v, n, p) ==
    /\ rows' = [rows EXCEPT ![c] = Append(@, RowOf(v[n + 1]))]
    /\ cntr' = [cntr EXCEPT ![c] = n - 1]
    /\ array' = [array EXCEPT ![c] = v]
    /\ points' = [points EXCEPT ![c] = p]
    /\ st' = [st EXCEPT ![c] = "next"]
    /\ live' = live \cup {<<c, "multi">>, <<c, "tuple">>}
    /\ heap' = h
    /\ UNCHANGED <<backend, starts, arg, user, lost>>

\* SRF_RETURN_NEXT with the row for element n + 1 of v.
ReturnNext(c, h, v, n, p) ==
    /\ rows' = [rows EXCEPT ![c] = Append(@, RowOf(v[n + 1]))]
    /\ cntr' = [cntr EXCEPT ![c] = n + 1]
    /\ array' = [array EXCEPT ![c] = v]
    /\ points' = [points EXCEPT ![c] = p]
    /\ st' = [st EXCEPT ![c] = "next"]
    /\ live' = live \cup {<<c, "multi">>, <<c, "tuple">>}
    /\ heap' = h
    /\ UNCHANGED <<backend, starts, arg, user, lost>>

\* The part after SRF_PERCALL_SETUP.  appendAs() does not take the element of
\* an array position that has no field; palloc() in return_bson may fail while
\* the wrapping document is still on the heap.
PerCall(c, h, v, n, p) ==
    \/ n = Len(v) /\ ReturnDone(c, h)
    \/ /\ n # Len(v)
       /\ \/ v[n + 1] = NoElement /\ Terminate
          \/ /\ v[n + 1] # NoElement
             /\ \/ ReturnNext(c, h, v, n, p)
                \/ Abort(c, IF v[n + 1].obj THEN h ELSE h \cup {<<"row", user[c]>>})

-----------------------------------------------------------------------------
(* Invocations *)

\* Mutant of GetArg: detoasting before the switch of memory contexts.
MutGetArgEarly(c) == IF arg[c].toasted THEN <<c, "tuple">> ELSE <<c, "arg">>

\* GETARG_BSON after the switch to multi_call_memory_ctx: a copy there if the
\* argument has to be detoasted, else the argument itself.
GetArg(c) == IF arg[c].toasted THEN <<c, "multi">> ELSE <<c, "arg">>

\* Detoasting may fail before the context exists; Array() may reject a position.
FirstCall(c) ==
    /\ backend = "up" /\ st[c] = "first"
    /\ \/ Abort(c, heap)
       \/ ~Accepted(arg[c]) /\ Terminate
       \/ /\ Accepted(arg[c])
          /\ PerCall(c, heap \cup {<<"context", user[c]>>}, Elements(arg[c]), 0, GetArg(c))

\* Mutant of NextCall: the last call, which returns no row, is missing.
MutNextCallNoLast(c) ==
    /\ backend = "up" /\ st[c] = "next" /\ cntr[c] # Len(array[c])
    /\ PerCall(c, heap, array[c], cntr[c], points[c])

NextCall(c) ==
    /\ backend = "up" /\ st[c] = "next"
    /\ PerCall(c, heap, array[c], cntr[c], points[c])

-----------------------------------------------------------------------------
(* The executor *)

\* A query evaluates the arguments of call c, for the first or the next row.
Begin(c, a) ==
    /\ backend = "up" /\ ~Running(c)
    /\ starts < MaxStarts
    /\ starts' = starts + 1
    /\ user' = [user EXCEPT ![c] = starts]
    /\ st' = [st EXCEPT ![c] = "first"]
    /\ arg' = [arg EXCEPT ![c] = a]
    /\ rows' = [rows EXCEPT ![c] = <<>>]
    /\ live' = live \cup {<<c, "arg">>}
    /\ UNCHANGED <<backend, cntr, array, points, heap, lost>>

\* Between two invocations the memory for the last tuples is recycled.
ResetTuple ==
    /\ backend = "up"
    /\ live \cap (Calls \X {"tuple"}) # {}
    /\ live' = live \ (Calls \X {"tuple"})
    /\ UNCHANGED <<backend, starts, st, arg, user, cntr, array, points, rows, heap, lost>>

\* The set is not wanted any more: shutdown_MultiFuncCall frees the memory
\* context and knows nothing of user_fctx.
Abandon(c) ==
    /\ backend = "up" /\ Running(c)
    /\ GiveUp({c}, heap)

Next ==
    \/ ResetTuple
    \/ \E c \in Calls : \/ \E a \in Args : Begin(c, a)
                        \/ FirstCall(c) \/ NextCall(c) \/ Abandon(c)

Spec == Init /\ [][Next]_vars

\* The executor keeps asking for rows until the set is done or given up.
FairSpec == Spec /\ \A c \in Calls : WF_vars(FirstCall(c) \/ NextCall(c))

-----------------------------------------------------------------------------
(* Properties *)

\* While a set is in progress its FunctionContext has not been deleted and the
\* elements in its vector point into memory that has not been freed, whatever
\* happened between the calls: the function never looks at deepCopy, so this
\* rests on detoasting in multi_call_memory_ctx.
ElementsLive ==
    \A c \in Calls :
        st[c] = "next" => points[c] \in live /\ <<"context", user[c]>> \in heap

\* Every FunctionContext on the C++ heap belongs to exactly one set in progress
\* or was lost with a set that was given up; a set that returned all its rows
\* has deleted it, and nothing lost comes back into use.
HeapAccounted ==
    /\ \A b \in heap \ lost :
          \E c \in Calls : st[c] = "next" /\ b = <<"context", user[c]>>
    /\ \A c \in Calls : Running(c) => <<"context", user[c]>> \notin lost
    /\ \A c, d \in Calls : Running(c) /\ Running(d) /\ user[c] = user[d] => c = d

\* Row i shows what the argument holds at position i - 1: the last field of that
\* number for an array, the value itself for anything else.
Shows(a, i, row) ==
    CASE a.kind = "array" ->
             \E k \in 1..Len(a.fields) :
                 /\ a.fields[k].idx = i - 1 /\ row = RowOf(a.fields[k].el)
                 /\ \A m \in (k + 1)..Len(a.fields) : a.fields[m].idx # i - 1
      [] OTHER -> a.kind = "value" /\ i = 1 /\ row = RowOf(a.fields[1].el)

\* The rows come in the order of the positions, each position once, and a set
\* that is done has left none out: interleaved sets, a vector filled out of order
\* and sets begun anew on the same call do not mix up rows.
RowsInOrder ==
    \A c \in Calls : st[c] \in {"next", "done"} =>
        /\ \A i \in 1..Len(rows[c]) : Shows(arg[c], i, rows[c][i])
        /\ st[c] = "done" => ~\E row \in {RowOf(arg[c].fields[k].el) : k \in 1..Len(arg[c].fields)},
                                 i \in (Len(rows[c]) + 1)..MaxIndex : Shows(arg[c], i, row)

\* Arrays as the parser and the drivers write them: "0", "1", ... in any order.
WellNamed(a) ==
    a.kind = "array" => {a.fields[i].idx : i \in 1..Len(a.fields)} = 0..(Len(a.fields) - 1)

\* On such an array bson_unwind_array returns bson_array_size rows, and none for
\* a field that is not there.
SizeAgrees ==
    \A c \in Calls : st[c] = "done" /\ WellNamed(arg[c]) =>
        Len(rows[c]) = IF ArraySize(arg[c]) = None THEN 0 ELSE ArraySize(arg[c])

\* No such array makes verify() throw through PostgreSQL's C code.
WellNamedSurvives ==
    backend = "terminated" =>
        \E c \in Calls : Running(c) /\ (WellNamed(arg[c]) => Len(arg[c].fields) > MaxIndex)

\* Every set ends, unless the backend does.
SetsEnd == \A c \in Calls : Running(c) ~> (~Running(c) \/ backend = "terminated")
=============================================================================
