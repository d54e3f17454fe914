---------------------------- MODULE QueryProofs ----------------------------
(***************************************************************************)
(* Proofs about the functions a query calls on documents.                  *)
(*                                                                         *)
(* UnwindArray, for any number of calls in a query, any arguments and any  *)
(* schedule of the executor: memory and heap, then the vector that Array() *)
(* fills, then the rows.                                                   *)
(*                                                                         *)
(* FieldAccess: a query that goes down into a document in steps reads what *)
(* the full dotted names read from the whole document, for all well formed *)
(* documents without dots in their names, of any depth.  The documents     *)
(* nested in the one that is queried are a set that is closed: with a      *)
(* document it has those of its fields.  What the getters reach stays in   *)
(* it.                                                                     *)
(***************************************************************************)
EXTENDS UnwindArray, FieldAccess, DataInduction, TLAPS

-----------------------------------------------------------------------------
(* Memory and heap *)

Context(c) == <<"context", user[c]>>

\* The types of everything but the arrays and the rows, which the memory
\* properties do not depend on.
MemType ==
    /\ starts \in Nat
    /\ st \in [Calls -> {"idle", "first", "next", "done"}]
    /\ user \in [Calls -> Nat]
    /\ points \in [Calls -> Memory]
    /\ live \subseteq Memory
    /\ heap \subseteq Block /\ lost \subseteq Block

\* Numbers of sets are handed out once: a new set's FunctionContext is neither
\* on the heap nor lost.
Fresh ==
    /\ \A c \in Calls : Running(c) => user[c] < starts
    /\ \A b \in heap \cup lost : b[2] < starts

\* What a set in progress relies on: its argument, and after the first call also
\* multi_call_memory_ctx, the only two places its elements may point into.
Held ==
    \A c \in Calls :
        /\ Running(c) => <<c, "arg">> \in live
        /\ st[c] = "first" => Context(c) \notin heap
        /\ st[c] = "next" => /\ <<c, "multi">> \in live
                             /\ points[c] \in {<<c, "arg">>, <<c, "multi">>}
                             /\ Context(c) \in heap

MInv == MemType /\ Fresh /\ Held /\ HeapAccounted

\* An invocation that gets as far as the FunctionContext has it on its heap.
InCall(c, h) == c \in Calls /\ Running(c) /\ h = heap \cup {Context(c)}

\* The state before the first set.
LEMMA InitMInv == Init => MInv
BY DEF Init, MInv, MemType, Fresh, Held, HeapAccounted, Running, Memory, Block, Context

\* Sets that end without a last call take nothing from the others; what they
\* leave on the heap is lost.
LEMMA GiveUpStep ==
    ASSUME MInv, NEW S \in SUBSET Calls, NEW h \in SUBSET Block, heap \subseteq h,
           \A b \in h \ heap : \E c \in S : Running(c) /\ b[2] = user[c],
           GiveUp(S, h)
    PROVE  MInv'
<1>1. MemType /\ Fresh /\ Held /\ HeapAccounted
    BY DEF MInv
<1>2. \A c \in Calls : /\ Running(c)' <=> Running(c) /\ c \notin S
                       /\ Running(c)' => st'[c] = st[c]
    BY <1>1 DEF GiveUp, Running, MemType
<1>3. MemType'
    BY <1>1 DEF GiveUp, MemType, Running
<1>4. Fresh'
    <2>1. \A b \in h : b[2] < starts
        BY <1>1 DEF Fresh
    <2> QED BY <1>1, <1>2, <2>1 DEF Fresh, GiveUp
<1>5. \A c \in Calls, x \in {"arg", "multi"} :
          c \notin S /\ <<c, x>> \in live => <<c, x>> \in live'
    BY DEF GiveUp, Of
<1>6. \A c \in Calls : Context(c)' = Context(c)
    BY DEF Context, GiveUp
<1>7. Held'
    <2> SUFFICES ASSUME NEW c \in Calls, Running(c)'
                 PROVE  /\ <<c, "arg">> \in live'
                        /\ st'[c] = "first" => Context(c)' \notin heap'
                        /\ st'[c] = "next" => /\ <<c, "multi">> \in live'
                                              /\ points'[c] \in {<<c, "arg">>, <<c, "multi">>}
                                              /\ Context(c)' \in heap'
        BY Zenon DEF Held, Running
    <2>1. c \notin S /\ Running(c) /\ st'[c] = st[c]
        BY <1>2
    <2>2. heap' = h /\ points' = points
        BY DEF GiveUp
    <2>3. Context(c) \in h => Context(c) \in heap
        <3> SUFFICES ASSUME Context(c) \in h \ heap PROVE FALSE
            OBVIOUS
        <3>1. PICK d \in S : Running(d) /\ Context(c)[2] = user[d]
            OBVIOUS
        <3>2. user[c] = user[d] /\ d \in Calls
            BY <3>1 DEF Context
        <3> QED BY <1>1, <2>1, <3>1, <3>2 DEF HeapAccounted
    <2> QED BY <1>1, <1>5, <1>6, <2>1, <2>2, <2>3 DEF Held
<1>8. HeapAccounted'
    <2>1. ASSUME NEW b \in heap' \ lost'
          PROVE  \E c \in Calls : st'[c] = "next" /\ b = <<"context", user'[c]>>
        <3>1. /\ b \in h /\ b \notin lost
              /\ ~\E c \in S : Running(c) /\ b[2] = user[c]
            BY <2>1 DEF GiveUp
        <3>2. b \in heap
            BY <3>1
        <3>3. PICK c \in Calls : st[c] = "next" /\ b = <<"context", user[c]>>
            BY <1>1, <3>1, <3>2 DEF HeapAccounted
        <3>4. c \notin S
            BY <3>1, <3>3 DEF Running
        <3> QED BY <1>2, <3>3, <3>4 DEF GiveUp, Running
    <2>2. ASSUME NEW c \in Calls, Running(c)'
          PROVE  <<"context", user'[c]>> \notin lost'
        <3>1. Running(c) /\ c \notin S
            BY <1>2, <2>2
        <3>2. <<"context", user[c]>> \notin lost
            BY <1>1, <3>1 DEF HeapAccounted
        <3>3. ~\E d \in S : Running(d) /\ user[c] = user[d]
            BY <1>1, <3>1 DEF HeapAccounted
        <3> QED BY <3>2, <3>3 DEF GiveUp
    <2>3. \A c, d \in Calls : Running(c)' /\ Running(d)' /\ user'[c] = user'[d] => c = d
        BY <1>1, <1>2 DEF GiveUp, HeapAccounted
    <2> QED BY <2>1, <2>2, <2>3 DEF HeapAccounted
<1> QED BY <1>3, <1>4, <1>7, <1>8 DEF MInv

\* The last call deletes the one FunctionContext of its set.
LEMMA ReturnDoneStep ==
    ASSUME MInv, NEW c, NEW h, InCall(c, h), ReturnDone(c, h)
    PROVE  MInv'
<1>1. MemType /\ Fresh /\ Held /\ HeapAccounted /\ c \in Calls /\ Running(c)
    BY DEF MInv, InCall
<1>2. /\ heap' = heap \ {Context(c)} /\ lost' = lost /\ user' = user
      /\ points' = points /\ starts' = starts /\ live' = live \ Of(c)
      /\ st' = [st EXCEPT ![c] = "done"]
    BY DEF ReturnDone, InCall, Context
<1>3. /\ ~Running(c)' /\ st'[c] = "done"
      /\ \A d \in Calls : d # c => st'[d] = st[d] /\ (Running(d)' <=> Running(d))
    BY <1>1, <1>2 DEF MemType, Running
<1>4. \A d \in Calls : Context(d)' = Context(d)
    BY <1>2 DEF Context
<1>5. MemType'
    BY <1>1, <1>2 DEF MemType
<1>6. Fresh'
    BY <1>1, <1>2, <1>3 DEF Fresh
<1>7. \A d \in Calls : d # c /\ Running(d) => user[d] # user[c] /\ Context(d) # Context(c)
    BY <1>1 DEF HeapAccounted, Context
<1>8. \A d \in Calls, x \in {"arg", "multi"} : d # c /\ <<d, x>> \in live => <<d, x>> \in live'
    BY <1>2 DEF Of
<1>9. Held'
    BY <1>1, <1>2, <1>3, <1>4, <1>7, <1>8, Zenon DEF Held, Running
<1>10. HeapAccounted'
    BY <1>1, <1>2, <1>3, <1>7 DEF HeapAccounted, Running, Context
<1> QED BY <1>5, <1>6, <1>9, <1>10 DEF MInv

\* A call that returns a row leaves its elements in memory it may rely on.
LEMMA ReturnNextStep ==
    ASSUME MInv, NEW c, NEW h, InCall(c, h), NEW v, NEW n,
           NEW p \in {<<c, "arg">>, <<c, "multi">>}, ReturnNext(c, h, v, n, p)
    PROVE  MInv'
<1>1. MemType /\ Fresh /\ Held /\ HeapAccounted /\ c \in Calls /\ Running(c)
    BY DEF MInv, InCall
<1>2. /\ heap' = heap \cup {Context(c)} /\ lost' = lost /\ user' = user
      /\ points' = [points EXCEPT ![c] = p] /\ starts' = starts
      /\ live' = live \cup {<<c, "multi">>, <<c, "tuple">>}
      /\ st' = [st EXCEPT ![c] = "next"]
    BY DEF ReturnNext, InCall
<1>3. /\ Running(c)' /\ st'[c] = "next" /\ points'[c] = p
      /\ \A d \in Calls : d # c => st'[d] = st[d] /\ points'[d] = points[d]
      /\ \A d \in Calls : Running(d)' <=> Running(d)
    BY <1>1, <1>2 DEF MemType, Running
<1>4. \A d \in Calls : Context(d)' = Context(d)
    BY <1>2 DEF Context
<1>5. MemType'
    <2>1. Context(c) \in Block /\ p \in Memory
        BY <1>1 DEF MemType, Block, Memory, Context
    <2> QED BY <1>1, <1>2, <2>1 DEF MemType, Memory
<1>6. Fresh'
    BY <1>1, <1>2, <1>3 DEF Fresh, Context
<1>7. \A d \in Calls : d # c /\ Running(d) => user[d] # user[c] /\ Context(d) # Context(c)
    BY <1>1 DEF HeapAccounted, Context
<1>8. Held'
    BY <1>1, <1>2, <1>3, <1>4, <1>7, Zenon DEF Held, Running
<1>9. HeapAccounted'
    BY <1>1, <1>2, <1>3, <1>7 DEF HeapAccounted, Running, Context
<1> QED BY <1>5, <1>6, <1>8, <1>9 DEF MInv

\* std::terminate() changes no memory.
LEMMA TerminateStep ==
    ASSUME MInv, Terminate
    PROVE  MInv'
BY DEF Terminate, MInv, MemType, Fresh, Held, HeapAccounted, Running, Context

\* The part of an invocation behind SRF_PERCALL_SETUP, however it ends.
LEMMA PerCallStep ==
    ASSUME MInv, NEW c, NEW h, InCall(c, h), NEW v, NEW n,
           NEW p \in {<<c, "arg">>, <<c, "multi">>}, PerCall(c, h, v, n, p)
    PROVE  MInv'
<1>1. CASE ReturnDone(c, h)
    BY <1>1, ReturnDoneStep
<1>2. CASE Terminate
    BY <1>2, TerminateStep
<1>3. CASE ReturnNext(c, h, v, n, p)
    BY <1>3, ReturnNextStep, Zenon
<1>4. CASE Abort(c, IF v[n + 1].obj THEN h ELSE h \cup {<<"row", user[c]>>})
    <2> DEFINE g == IF v[n + 1].obj THEN h ELSE h \cup {<<"row", user[c]>>}
    <2>1. PICK S \in SUBSET Calls : c \in S /\ GiveUp(S, g)
        BY <1>4 DEF Abort
    <2>2. /\ c \in Calls /\ Running(c) /\ heap \subseteq g
          /\ g \subseteq heap \cup {<<"context", user[c]>>, <<"row", user[c]>>}
        BY DEF InCall, Context
    <2>3. g \in SUBSET Block
        BY <2>2 DEF MInv, MemType, Block
    <2>4. \A b \in g \ heap : b[2] = user[c]
        BY <2>2
    <2> HIDE DEF g
    <2> QED BY <2>1, <2>2, <2>3, <2>4, GiveUpStep
<1> QED BY <1>1, <1>2, <1>3, <1>4 DEF PerCall

\* Every step of the function and of the executor preserves the invariant.
LEMMA NextMInv == MInv /\ [Next]_vars => MInv'
<1> SUFFICES ASSUME MInv, [Next]_vars PROVE MInv'
    OBVIOUS
<1>1. ASSUME NEW c \in Calls, NEW a \in Args, Begin(c, a) PROVE MInv'
    <2>1. MemType /\ Fresh /\ Held /\ HeapAccounted /\ ~Running(c)
        BY <1>1 DEF MInv, Begin
    <2>2. /\ heap' = heap /\ lost' = lost /\ points' = points
          /\ user' = [user EXCEPT ![c] = starts] /\ starts' = starts + 1
          /\ live' = live \cup {<<c, "arg">>}
          /\ st' = [st EXCEPT ![c] = "first"]
        BY <1>1 DEF Begin
    <2>3. /\ st'[c] = "first" /\ user'[c] = starts /\ Running(c)'
          /\ \A d \in Calls : d # c => /\ st'[d] = st[d] /\ user'[d] = user[d]
                                       /\ (Running(d)' <=> Running(d))
        BY <2>1, <2>2 DEF MemType, Running
    <2>4. /\ Context(c)' = <<"context", starts>>
          /\ \A d \in Calls : d # c => Context(d)' = Context(d)
        BY <2>3 DEF Context
    <2>5. MemType'
        BY <2>1, <2>2 DEF MemType, Memory
    <2>6. starts < starts + 1 /\ \A m \in Nat : m < starts => m < starts + 1
        BY <2>1 DEF MemType
    <2>7. Fresh'
        <3>1. ASSUME NEW d \in Calls, Running(d)' PROVE user'[d] < starts'
            BY <2>1, <2>2, <2>3, <2>6, <3>1 DEF Fresh, MemType
        <3>2. ASSUME NEW b \in heap \cup lost PROVE b[2] < starts'
            <4>1. b[2] \in Nat /\ b[2] < starts
                BY <2>1 DEF MemType, Block, Fresh
            <4> QED BY <2>2, <2>6, <4>1
        <3> QED BY <2>2, <3>1, <3>2 DEF Fresh
    <2>8. <<"context", starts>> \notin heap \cup lost
        BY <2>1 DEF Fresh, MemType
    <2>9. Held'
        BY <2>1, <2>2, <2>3, <2>4, <2>8, Zenon DEF Held, Running
    <2>10. HeapAccounted'
        <3>1. ASSUME NEW b \in heap' \ lost'
              PROVE  \E d \in Calls : st'[d] = "next" /\ b = <<"context", user'[d]>>
            <4>1. PICK d \in Calls : st[d] = "next" /\ b = <<"context", user[d]>>
                BY <2>1, <2>2, <3>1 DEF HeapAccounted
            <4>2. d # c
                BY <2>1, <4>1 DEF Running
            <4> QED BY <2>3, <4>1, <4>2
        <3>2. \A d \in Calls : Running(d)' => <<"context", user'[d]>> \notin lost'
            BY <2>1, <2>2, <2>3, <2>8 DEF HeapAccounted
        <3>3. \A d \in Calls : d # c /\ Running(d)' => user'[d] # starts
            BY <2>1, <2>3 DEF Fresh, MemType
        <3>4. \A d, e \in Calls : Running(d)' /\ Running(e)' /\ user'[d] = user'[e] => d = e
            BY <2>1, <2>3, <3>3 DEF HeapAccounted
        <3> QED BY <3>1, <3>2, <3>4 DEF HeapAccounted
    <2> QED BY <2>5, <2>7, <2>9, <2>10 DEF MInv
<1>2. ASSUME NEW c \in Calls, FirstCall(c) PROVE MInv'
    <2>1. Running(c)
        BY <1>2 DEF FirstCall, Running
    <2>2. CASE Abort(c, heap)
        <3>1. PICK S \in SUBSET Calls : c \in S /\ GiveUp(S, heap)
            BY <2>2 DEF Abort
        <3>2. heap \in SUBSET Block
            BY DEF MInv, MemType
        <3> QED BY <3>1, <3>2, GiveUpStep
    <2>3. CASE Terminate
        BY <2>3, TerminateStep
    <2>4. CASE PerCall(c, heap \cup {<<"context", user[c]>>}, Elements(arg[c]), 0, GetArg(c))
        <3>1. InCall(c, heap \cup {<<"context", user[c]>>})
            BY <2>1 DEF InCall, Context
        <3>2. GetArg(c) \in {<<c, "arg">>, <<c, "multi">>}
            BY DEF GetArg
        <3> QED BY <2>4, <3>1, <3>2, PerCallStep, Zenon
    <2> QED BY <1>2, <2>2, <2>3, <2>4 DEF FirstCall
<1>3. ASSUME NEW c \in Calls, NextCall(c) PROVE MInv'
    <2>1. st[c] = "next" /\ PerCall(c, heap, array[c], cntr[c], points[c])
        BY <1>3 DEF NextCall
    <2>2. InCall(c, heap) /\ points[c] \in {<<c, "arg">>, <<c, "multi">>}
        BY <2>1, Zenon DEF MInv, Held, InCall, Running
    <2> QED BY <2>1, <2>2, PerCallStep, Zenon
<1>4. ASSUME NEW c \in Calls, Abandon(c) PROVE MInv'
    <2>1. heap \in SUBSET Block /\ {c} \in SUBSET Calls /\ GiveUp({c}, heap)
        BY <1>4 DEF MInv, MemType, Abandon
    <2> QED BY <2>1, GiveUpStep
<1>5. CASE ResetTuple
    <2>1. MemType /\ Fresh /\ Held /\ HeapAccounted
        BY DEF MInv
    <2>2. \A c \in Calls, x \in {"arg", "multi"} : <<c, x>> \in live => <<c, x>> \in live'
        BY <1>5 DEF ResetTuple
    <2>3. UNCHANGED <<starts, st, user, points, heap, lost>> /\ live' \subseteq live
        BY <1>5 DEF ResetTuple
    <2>4. MemType' /\ Fresh' /\ HeapAccounted'
        BY <2>1, <2>3 DEF MemType, Fresh, HeapAccounted, Running
    <2>5. Held'
        BY <2>1, <2>2, <2>3, Zenon DEF Held, Running, Context
    <2> QED BY <2>4, <2>5 DEF MInv
<1>6. CASE UNCHANGED vars
    BY <1>6 DEF vars, MInv, MemType, Fresh, Held, HeapAccounted, Running, Context
<1> QED BY <1>1, <1>2, <1>3, <1>4, <1>5, <1>6 DEF Next

\* The inductive invariant holds of every execution.
THEOREM UnwindInvariant == Spec => []MInv
<1>1. Init => MInv
    BY InitMInv
<1>2. MInv /\ [Next]_vars => MInv'
    BY NextMInv
<1> QED BY <1>1, <1>2, PTL DEF Spec

\* bson_unwind_array never uses a deleted FunctionContext, nor elements whose
\* memory has been freed, however calls, resets and shutdowns interleave.
THEOREM ElementsStayLive == Spec => []ElementsLive
<1>1. MInv => ElementsLive
    BY Zenon DEF MInv, Held, ElementsLive, Context, Running
<1> QED BY <1>1, UnwindInvariant, PTL

\* Each FunctionContext has one set in progress or was lost with a set that was
\* given up.
THEOREM HeapIsAccounted == Spec => []HeapAccounted
<1>1. MInv => HeapAccounted
    BY DEF MInv
<1> QED BY <1>1, UnwindInvariant, PTL

-----------------------------------------------------------------------------
(* The vector *)

\* Store() as the loop of Array() uses it.
LEMMA StoreProps ==
    ASSUME NEW v \in Seq(Element), NEW f \in Field
    PROVE  /\ Store(v, f) \in Seq(Element)
           /\ f.idx = None => Store(v, f) = v
           /\ f.idx # None =>
                 /\ f.idx \in Nat
                 /\ Len(Store(v, f)) = IF f.idx >= Len(v) THEN f.idx + 1 ELSE Len(v)
                 /\ \A i \in 1..Len(Store(v, f)) :
                       Store(v, f)[i] = IF i = f.idx + 1 THEN f.el
                                        ELSE IF i <= Len(v) THEN v[i] ELSE NoElement
<1>1. f.idx \in Nat \cup {None} /\ f.el \in Element /\ NoElement \in Element
    BY DEF Field, Element, NoElement, None
<1>2. CASE f.idx = None
    BY <1>2 DEF Store
<1>3. CASE f.idx # None
    <2> DEFINE n == IF f.idx >= Len(v) THEN f.idx + 1 ELSE Len(v)
               At(i) == IF i = f.idx + 1 THEN f.el ELSE IF i <= Len(v) THEN v[i] ELSE NoElement
    <2>1. f.idx \in Nat /\ n \in Nat
        BY <1>1, <1>3
    <2>2. Store(v, f) = [i \in 1..n |-> At(i)]
        BY <1>3 DEF Store
    <2>3. \A i \in 1..n : At(i) \in Element
        BY <1>1
    <2> HIDE DEF n, At
    <2>4. Store(v, f) \in Seq(Element) /\ Len(Store(v, f)) = n
        BY <2>1, <2>2, <2>3
    <2>5. \A i \in 1..n : Store(v, f)[i] = At(i)
        BY <2>2
    <2> QED
        BY <1>3, <2>1, <2>4, <2>5 DEF n, At
<1> QED
    BY <1>2, <1>3

\* What the vector holds after the first n fields: at each position the last of
\* them with that number, and it is as long as the greatest number asks for.
Filled(v, fields, n) ==
    /\ v \in Seq(Element)
    /\ \A k \in 1..n : fields[k].idx # None => fields[k].idx < Len(v)
    /\ Len(v) # 0 => \E k \in 1..n : fields[k].idx = Len(v) - 1
    /\ \A i \in 1..Len(v) :
          \/ v[i] = NoElement /\ \A k \in 1..n : fields[k].idx # i - 1
          \/ \E k \in 1..n : /\ fields[k].idx = i - 1 /\ v[i] = fields[k].el
                              /\ \A m \in (k + 1)..n : fields[m].idx # i - 1

\* One turn of the loop.
LEMMA FilledStep ==
    ASSUME NEW fields \in Seq(Field), NEW n \in 0..(Len(fields) - 1), NEW v, Filled(v, fields, n)
    PROVE  Filled(Store(v, fields[n + 1]), fields, n + 1)
<1> DEFINE f == fields[n + 1]
           w == Store(v, f)
<1>1. v \in Seq(Element) /\ f \in Field /\ n \in Nat /\ Len(v) \in Nat
    BY DEF Filled
<1>2. \A k \in 1..(n + 1) : k \in 1..n \/ k = n + 1
    BY <1>1
<1>3. CASE f.idx = None
    <2>1. w = v
        BY <1>1, <1>3, StoreProps, Zenon
    <2>2. \A i \in 1..Len(v) : f.idx # i - 1
        BY <1>1, <1>3 DEF None
    <2>3. n + 1 \in Nat /\ 1..n \subseteq 1..(n + 1)
        BY <1>1
    <2>4. \A k \in 1..(n + 1) : fields[k].idx # None => fields[k].idx < Len(v)
        BY <1>2, <1>3 DEF Filled
    <2>5. ASSUME NEW i \in 1..Len(v)
          PROVE  \/ v[i] = NoElement /\ \A k \in 1..(n + 1) : fields[k].idx # i - 1
                 \/ \E k \in 1..(n + 1) : /\ fields[k].idx = i - 1 /\ v[i] = fields[k].el
                                         /\ \A m \in (k + 1)..(n + 1) : fields[m].idx # i - 1
        <3>1. CASE v[i] = NoElement /\ \A k \in 1..n : fields[k].idx # i - 1
            BY <1>2, <2>2, <3>1
        <3>2. CASE \E k \in 1..n : /\ fields[k].idx = i - 1 /\ v[i] = fields[k].el
                                   /\ \A m \in (k + 1)..n : fields[m].idx # i - 1
            <4>1. PICK k \in 1..n : /\ fields[k].idx = i - 1 /\ v[i] = fields[k].el
                                    /\ \A m \in (k + 1)..n : fields[m].idx # i - 1
                BY <3>2, SMTT(30)
            <4>2. \A m \in (k + 1)..(n + 1) : m \in (k + 1)..n \/ m = n + 1
                BY <1>1
            <4>3. \A m \in (k + 1)..(n + 1) : fields[m].idx # i - 1
                BY <2>2, <4>1, <4>2, Zenon
            <4> QED
                BY <2>3, <4>1, <4>3
        <3> QED
            BY <3>1, <3>2 DEF Filled
    <2>6. Len(v) # 0 => \E k \in 1..(n + 1) : fields[k].idx = Len(v) - 1
        BY <2>3 DEF Filled
    <2> QED
        BY <1>1, <2>1, <2>4, <2>5, <2>6 DEF Filled
<1>4. CASE f.idx # None
    <2>1. /\ w \in Seq(Element) /\ f.idx \in Nat
          /\ Len(w) = IF f.idx >= Len(v) THEN f.idx + 1 ELSE Len(v)
          /\ \A i \in 1..Len(w) : w[i] = IF i = f.idx + 1 THEN f.el
                                        ELSE IF i <= Len(v) THEN v[i] ELSE NoElement
        BY <1>1, <1>4, StoreProps, Zenon
    <2> HIDE DEF w
    <2>2. n + 1 \in 1..(n + 1) /\ 1..n \subseteq 1..(n + 1) /\ (n + 2)..(n + 1) = {}
        BY <1>1
    <2>3. \A k \in 1..n : fields[k].idx # None => fields[k].idx \in Nat
        <3>1. \A k \in 1..n : fields[k] \in Field
            BY <1>1
        <3> QED
            BY <3>1 DEF Field
    <2>4. \A k \in 1..(n + 1) : fields[k].idx # None => fields[k].idx < Len(w)
        <3>1. Len(w) \in Nat /\ Len(v) <= Len(w) /\ f.idx < Len(w)
            BY <1>1, <2>1, SMTT(30)
        <3>2. ASSUME NEW k \in 1..n, fields[k].idx # None PROVE fields[k].idx < Len(w)
            <4>1. fields[k].idx < Len(v)
                BY <3>2, Zenon DEF Filled
            <4>2. fields[k].idx \in Nat
                BY <2>3, <3>2, Zenon
            <4> HIDE DEF f
            <4> QED
                BY <1>1, <3>1, <4>1, <4>2
        <3> QED
            BY <1>2, <3>1, <3>2, Zenon
    <2>5. Len(w) # 0 => \E k \in 1..(n + 1) : fields[k].idx = Len(w) - 1
        <3>1. CASE f.idx >= Len(v)
            BY <2>1, <2>2, <3>1
        <3>2. CASE ~(f.idx >= Len(v))
            <4>1. Len(w) = Len(v)
                BY <2>1, <3>2
            <4> QED
                BY <2>2, <4>1 DEF Filled
        <3> QED
            BY <3>1, <3>2
    <2>6. ASSUME NEW i \in 1..Len(w)
          PROVE  \/ w[i] = NoElement /\ \A k \in 1..(n + 1) : fields[k].idx # i - 1
                 \/ \E k \in 1..(n + 1) : /\ fields[k].idx = i - 1 /\ w[i] = fields[k].el
                                         /\ \A m \in (k + 1)..(n + 1) : fields[m].idx # i - 1
        <3>1. CASE i = f.idx + 1
            <4>0. f.idx \in Nat
                BY <2>1
            <4>1. f.idx = i - 1 /\ w[i] = f.el
                <5> HIDE DEF f
                <5>1. f.idx = i - 1
                    BY <3>1, <4>0
                <5>2. w[i] = f.el
                    BY <2>1, <3>1, Zenon
                <5> QED
                    BY <5>1, <5>2
            <4>2. \A m \in ((n + 1) + 1)..(n + 1) : fields[m].idx # i - 1
                BY <1>1
            <4> QED
                BY <2>2, <4>1, <4>2
        <3>2. CASE i # f.idx + 1 /\ i > Len(v)
            <4>1. w[i] = NoElement /\ f.idx # i - 1
                BY <1>1, <2>1, <3>2, SMTT(30)
            <4>2. ASSUME NEW k \in 1..n PROVE fields[k].idx # i - 1
                <5>1. i - 1 >= Len(v) /\ i - 1 # None
                    BY <1>1, <2>1, <3>2 DEF None
                <5>2. fields[k].idx # None => fields[k].idx < Len(v)
                    BY Zenon DEF Filled
                <5> QED
                    BY <1>1, <2>3, <5>1, <5>2
            <4> QED
                BY <1>2, <4>1, <4>2
        <3>3. CASE i # f.idx + 1 /\ i <= Len(v)
            <4>1. w[i] = v[i] /\ f.idx # i - 1 /\ i \in 1..Len(v)
                BY <1>1, <2>1, <3>3, SMTT(30)
            <4>2. CASE v[i] = NoElement /\ \A k \in 1..n : fields[k].idx # i - 1
                BY <1>2, <4>1, <4>2
            <4>3. CASE \E k \in 1..n : /\ fields[k].idx = i - 1 /\ v[i] = fields[k].el
                                       /\ \A m \in (k + 1)..n : fields[m].idx # i - 1
                <5>1. PICK k \in 1..n : /\ fields[k].idx = i - 1 /\ v[i] = fields[k].el
                                        /\ \A m \in (k + 1)..n : fields[m].idx # i - 1
                    BY <4>3
                <5>2. \A m \in (k + 1)..(n + 1) : m \in (k + 1)..n \/ m = n + 1
                    BY <1>1
                <5>3. \A m \in (k + 1)..(n + 1) : fields[m].idx # i - 1
                    BY <4>1, <5>1, <5>2, SMTT(30)
                <5> QED
                    BY <2>2, <4>1, <5>1, <5>3
            <4> QED
                BY <4>1, <4>2, <4>3 DEF Filled
        <3> QED
            BY <1>1, <2>1, <3>1, <3>2, <3>3
    <2>7. Filled(w, fields, n + 1)
        BY <2>1, <2>4, <2>5, <2>6, Zenon DEF Filled
    <2> QED
        BY <2>7 DEF w
<1> QED
    BY <1>3, <1>4

\* The vector that BSONElement::Array() returns, whatever the order, the gaps and
\* the repetitions of the names in the array.
LEMMA ArrayFilled ==
    ASSUME NEW fields \in Seq(Field)
    PROVE  Filled(ArrayOf(fields), fields, Len(fields))
<1> DEFINE N == Len(fields)
           step == [n \in 1..N |-> [v \in Seq(Element) |-> Store(v, fields[n])]]
           Eqn(f) == f = [n \in 0..N |-> IF n = 0 THEN <<>> ELSE Store(f[n - 1], fields[n])]
           upTo == CHOOSE f : Eqn(f)
<1>1. N \in Nat /\ <<>> \in Seq(Element)
    OBVIOUS
<1>2. ASSUME NEW n \in 1..N, NEW v \in Seq(Element)
      PROVE  Store(v, fields[n]) \in Seq(Element)
    <2>1. fields[n] \in Field
        OBVIOUS
    <2> QED
        BY <2>1, StoreProps, Zenon
<1>3. step \in [1..N -> [Seq(Element) -> Seq(Element)]]
    BY <1>2
<1>4. \A n \in 1..N, v \in Seq(Element) : step[n][v] = Store(v, fields[n])
    OBVIOUS
<1> HIDE DEF step, N
<1>5. PICK f \in [0..N -> Seq(Element)] : f[0] = <<>> /\ \A n \in 1..N : f[n] = step[n][f[n - 1]]
    <2> DEFINE X == Seq(Element)
               b == <<>>
    <2>1. b \in X /\ step \in [1..N -> [X -> X]]
        BY <1>3
    <2> HIDE DEF X, b
    <2>2. \E f \in [0..N -> X] : f[0] = b /\ \A n \in 1..N : f[n] = step[n][f[n - 1]]
        BY <1>1, <2>1, LoopExists
    <2> QED
        BY <2>2, Zenon DEF X, b
<1>6. ASSUME NEW n \in 0..N PROVE f[n] = IF n = 0 THEN <<>> ELSE Store(f[n - 1], fields[n])
    <2>1. CASE n # 0
        <3>1. n \in 1..N /\ n - 1 \in 0..N
            BY <1>1, <2>1
        <3> QED
            BY <1>4, <1>5, <2>1, <3>1
    <2> QED
        BY <1>5, <2>1
<1>7. Eqn(f)
    BY <1>6
<1>8. Eqn(upTo)
    BY <1>7, Zenon
<1>9. ArrayOf(fields) = upTo[N]
    BY DEF ArrayOf, N
<1> HIDE DEF upTo
<1>10. /\ upTo[0] = <<>>
       /\ \A n \in 0..(N - 1) : upTo[n + 1] = Store(upTo[n], fields[n + 1])
    BY <1>1, <1>8
<1> HIDE DEF Eqn
<1> DEFINE T == {n \in 0..N : Filled(upTo[n], fields, n)}
<1>11. 0 \in T
    <2>1. upTo[0] \in Seq(Element) /\ Len(upTo[0]) = 0 /\ 1..0 = {}
        BY <1>10
    <2>2. Filled(upTo[0], fields, 0)
        BY <2>1 DEF Filled
    <2> QED
        BY <1>1, <2>2
<1>12. \A n \in 0..(N - 1) : n \in T => n + 1 \in T
    BY <1>1, <1>10, FilledStep DEF N
<1> HIDE DEF T
<1>13. \A n \in 0..N : n \in T
    BY <1>1, <1>11, <1>12, IntervalInduction, Zenon
<1>14. N \in T
    BY <1>1, <1>13
<1> QED
    BY <1>9, <1>14 DEF T, N

-----------------------------------------------------------------------------
(* The rows *)

\* The rows returned so far are those of the first elements of the vector.
Shown(c) ==
    /\ Len(rows[c]) <= Len(Elements(arg[c]))
    /\ \A i \in 1..Len(rows[c]) : /\ Elements(arg[c])[i] # NoElement
                                  /\ rows[c][i] = RowOf(Elements(arg[c])[i])

\* Where each set is: the vector in its FunctionContext is that of its own
\* argument, call_cntr has counted its rows, and "done" means all of them.
Progress ==
    \A c \in Calls :
        /\ st[c] \in {"first", "next", "done"} => Shown(c)
        /\ st[c] = "first" => rows[c] = <<>>
        /\ st[c] = "next" => array[c] = Elements(arg[c]) /\ cntr[c] = Len(rows[c])
        /\ st[c] = "done" => Len(rows[c]) = Len(Elements(arg[c]))

\* What a backend was terminated by: a set in progress on an array that verify()
\* rejects, or that has a position without a field.
Culprit ==
    backend = "terminated" =>
        \E c \in Calls :
            /\ Running(c)
            /\ \/ ~Accepted(arg[c])
               \/ \E i \in 1..Len(Elements(arg[c])) : Elements(arg[c])[i] = NoElement

RInv == TypeOK /\ Progress /\ Culprit

\* The vector is one of elements, whatever the argument.
LEMMA ElementsType ==
    ASSUME NEW a \in Args
    PROVE  /\ a.fields \in Seq(Field)
           /\ Elements(a) \in Seq(Element)
           /\ a.kind \in {"missing", "array", "value"}
           /\ a.kind = "array" => Filled(Elements(a), a.fields, Len(a.fields))
           /\ a.kind = "value" => /\ Len(Elements(a)) = 1
                                  /\ Elements(a)[1] = a.fields[1].el /\ a.fields[1].el # NoElement
           /\ a.kind = "missing" => Len(Elements(a)) = 0
<1>1. a \in ArgSet /\ (a.kind = "value" => Len(a.fields) = 1)
      /\ \A i \in 1..Len(a.fields) : a.fields[i].el # NoElement
    BY UnwindAssumption
<1>2. a.fields \in Seq(Field) /\ a.kind \in {"missing", "array", "value"}
    BY <1>1 DEF ArgSet
<1>3. CASE a.kind = "array"
    <2>1. Elements(a) = ArrayOf(a.fields)
        BY <1>3 DEF Elements
    <2>2. Filled(Elements(a), a.fields, Len(a.fields))
        BY <1>2, <2>1, ArrayFilled
    <2> QED
        BY <1>2, <1>3, <2>2 DEF Filled
<1>4. CASE a.kind = "value"
    <2>1. Elements(a) = <<a.fields[1].el>> /\ a.fields[1].el # NoElement
        BY <1>1, <1>2, <1>4 DEF Elements
    <2>2. a.fields[1] \in Field
        BY <1>1, <1>2, <1>4
    <2>3. a.fields[1].el \in Element
        BY <2>2 DEF Field
    <2> QED
        BY <1>2, <1>4, <2>1, <2>3
<1>5. CASE a.kind = "missing"
    BY <1>2, <1>5 DEF Elements
<1> QED
    BY <1>2, <1>3, <1>4, <1>5

\* The state before the first set.
LEMMA InitRInv == Init => RInv
<1> SUFFICES ASSUME Init PROVE RInv
    OBVIOUS
<1>1. arg \in [Calls -> Args]
    BY UnwindAssumption DEF Init
<1>2. TypeOK
    BY <1>1 DEF Init, TypeOK, Memory
<1>3. Progress /\ Culprit
    BY DEF Init, Progress, Culprit
<1> QED
    BY <1>2, <1>3 DEF RInv

\* Sets that are given up keep no promise, the others keep theirs.
LEMMA GiveUpRows ==
    ASSUME RInv, NEW S \in SUBSET Calls, NEW h \in SUBSET Block, backend = "up", GiveUp(S, h)
    PROVE  RInv'
<1>1. TypeOK /\ Progress
    BY DEF RInv
<1>2. \A c \in Calls : st'[c] \in {"idle", st[c]}
    BY <1>1 DEF GiveUp, TypeOK
<1>3. TypeOK'
    <2>1. st' \in [Calls -> {"idle", "first", "next", "done"}]
        BY <1>1 DEF GiveUp, TypeOK
    <2>2. live' \subseteq Memory /\ heap' \subseteq Block /\ lost' \subseteq Block
        BY <1>1 DEF GiveUp, TypeOK
    <2> QED
        BY <1>1, <2>1, <2>2 DEF GiveUp, TypeOK
<1>4. Progress'
    <2>1. UNCHANGED <<rows, arg, array, cntr>>
        BY DEF GiveUp
    <2> QED
        BY <1>1, <1>2, <2>1, SMTT(30) DEF Progress, Shown
<1>5. Culprit'
    BY DEF Culprit, GiveUp
<1> QED
    BY <1>3, <1>4, <1>5 DEF RInv

\* An invocation that has the vector of its argument and goes on behind the rows
\* it has returned.
AtRow(c, h, v, n) ==
    /\ backend = "up" /\ c \in Calls /\ Running(c) /\ h \in SUBSET Block
    /\ v = Elements(arg[c]) /\ n = Len(rows[c])

\* The last call: all rows have been returned.
LEMMA ReturnDoneRows ==
    ASSUME RInv, NEW c, NEW h, NEW v, NEW n, AtRow(c, h, v, n), n = Len(v), ReturnDone(c, h)
    PROVE  RInv'
<1>1. TypeOK /\ Progress /\ c \in Calls /\ Running(c) /\ h \in SUBSET Block /\ backend = "up"
    BY DEF RInv, AtRow
<1>2. st' = [st EXCEPT ![c] = "done"] /\ UNCHANGED <<backend, rows, arg, array, cntr>>
    BY DEF ReturnDone
<1>3. TypeOK'
    <2>1. live' \subseteq Memory /\ heap' \subseteq Block
        BY <1>1 DEF ReturnDone, TypeOK
    <2>2. st' \in [Calls -> {"idle", "first", "next", "done"}]
        BY <1>1, <1>2 DEF TypeOK
    <2> QED
        BY <1>1, <2>1, <2>2 DEF ReturnDone, TypeOK
<1>4. ASSUME NEW d \in Calls
      PROVE  /\ st'[d] \in {"first", "next", "done"} => Shown(d)'
             /\ st'[d] = "first" => rows'[d] = <<>>
             /\ st'[d] = "next" => array'[d] = Elements(arg'[d]) /\ cntr'[d] = Len(rows'[d])
             /\ st'[d] = "done" => Len(rows'[d]) = Len(Elements(arg'[d]))
    <2>1. Shown(d)' <=> Shown(d)
        BY <1>2 DEF Shown
    <2>2. CASE d = c
        BY <1>1, <1>2, <2>1, <2>2, Zenon DEF Progress, Running, AtRow, TypeOK
    <2>3. CASE d # c
        <3>1. st'[d] = st[d]
            BY <1>1, <1>2, <2>3, SMTT(30) DEF TypeOK
        <3> QED
            BY <1>1, <1>2, <2>1, <3>1 DEF Progress
    <2> QED
        BY <2>2, <2>3
<1>5. Progress'
    BY <1>4 DEF Progress
<1>6. Culprit'
    BY <1>1, <1>2 DEF Culprit
<1> QED
    BY <1>3, <1>5, <1>6 DEF RInv

\* A call that returns a row returns the next one.
LEMMA ReturnNextRows ==
    ASSUME RInv, NEW c, NEW h, NEW v, NEW n, AtRow(c, h, v, n), n # Len(v), v[n + 1] # NoElement,
           NEW p \in Memory, ReturnNext(c, h, v, n, p)
    PROVE  RInv'
<1>1. TypeOK /\ Progress /\ c \in Calls /\ Running(c) /\ h \in SUBSET Block /\ backend = "up"
      /\ v = Elements(arg[c]) /\ n = Len(rows[c]) /\ arg[c] \in Args
    BY DEF RInv, AtRow, TypeOK
<1>2. /\ st' = [st EXCEPT ![c] = "next"] /\ UNCHANGED <<backend, arg>>
      /\ rows' = [rows EXCEPT ![c] = Append(@, RowOf(v[n + 1]))]
      /\ cntr' = [cntr EXCEPT ![c] = n + 1]
      /\ array' = [array EXCEPT ![c] = v]
    BY DEF ReturnNext
<1>3. v \in Seq(Element) /\ n \in Nat /\ n + 1 \in 1..Len(v)
    <2>1. v \in Seq(Element)
        BY <1>1, ElementsType
    <2>2. Shown(c)
        BY <1>1 DEF Progress, Running
    <2>3. rows[c] \in Seq({"doc", "wrapped"} \X Int)
        BY <1>1 DEF TypeOK
    <2> QED
        BY <1>1, <2>1, <2>2, <2>3, SMTT(30) DEF Shown
<1>4. RowOf(v[n + 1]) \in {"doc", "wrapped"} \X Int
    <2>1. v[n + 1] \in Element
        BY <1>3
    <2> QED
        BY <2>1 DEF RowOf, Element
<1>5. /\ rows'[c] = Append(rows[c], RowOf(v[n + 1])) /\ rows[c] \in Seq({"doc", "wrapped"} \X Int)
      /\ st'[c] = "next" /\ array'[c] = v /\ cntr'[c] = n + 1
    BY <1>1, <1>2, SMTT(30) DEF TypeOK
<1>6. rows'[c] \in Seq({"doc", "wrapped"} \X Int) /\ Len(rows'[c]) = n + 1
      /\ rows'[c][n + 1] = RowOf(v[n + 1]) /\ \A i \in 1..n : rows'[c][i] = rows[c][i]
    <2> HIDE DEF RowOf
    <2> DEFINE row == RowOf(v[n + 1])
               X == {"doc", "wrapped"} \X Int
    <2>1. row \in X /\ rows[c] \in Seq(X) /\ rows'[c] = Append(rows[c], row) /\ n = Len(rows[c])
        BY <1>1, <1>4, <1>5
    <2> HIDE DEF row, X
    <2>2. rows'[c] \in Seq(X) /\ Len(rows'[c]) = n + 1 /\ rows'[c][n + 1] = row
          /\ \A i \in 1..n : rows'[c][i] = rows[c][i]
        BY <2>1
    <2> QED
        BY <2>2 DEF row, X
<1>7. TypeOK'
    <2>1. live' \subseteq Memory /\ heap' \subseteq Block
        BY <1>1 DEF ReturnNext, TypeOK, Memory
    <2>2. st' \in [Calls -> {"idle", "first", "next", "done"}] /\ cntr' \in [Calls -> Nat]
        BY <1>1, <1>2, <1>3 DEF TypeOK
    <2>3. array' \in [Calls -> Seq(Element)]
        BY <1>1, <1>2, <1>3 DEF TypeOK
    <2>4. points' \in [Calls -> Memory]
        BY <1>1 DEF TypeOK, ReturnNext
    <2>5. rows' \in [Calls -> Seq({"doc", "wrapped"} \X Int)]
        BY <1>1, <1>2, <1>5, <1>6, SMTT(30) DEF TypeOK
    <2> QED
        BY <1>1, <2>1, <2>2, <2>3, <2>4, <2>5 DEF ReturnNext, TypeOK
<1>8. ASSUME NEW d \in Calls
      PROVE  /\ st'[d] \in {"first", "next", "done"} => Shown(d)'
             /\ st'[d] = "first" => rows'[d] = <<>>
             /\ st'[d] = "next" => array'[d] = Elements(arg'[d]) /\ cntr'[d] = Len(rows'[d])
             /\ st'[d] = "done" => Len(rows'[d]) = Len(Elements(arg'[d]))
    <2>1. CASE d = c
        <3>1. Shown(c)
            BY <1>1 DEF Progress, Running
        <3>2. ASSUME NEW i \in 1..(n + 1)
              PROVE  v[i] # NoElement /\ rows'[c][i] = RowOf(v[i])
            <4>1. CASE i = n + 1
                BY <1>6, <4>1, SMTT(30)
            <4>2. CASE i \in 1..n
                BY <1>1, <1>6, <3>1, <4>2, SMTT(30) DEF Shown
            <4> QED
                BY <1>3, <4>1, <4>2, SMTT(30)
        <3>3. Shown(c)'
            BY <1>1, <1>2, <1>3, <1>6, <3>2 DEF Shown
        <3> QED
            BY <1>1, <1>2, <1>5, <1>6, <2>1, <3>3, SMTT(30)
    <2>2. CASE d # c
        <3>1. st'[d] = st[d] /\ rows'[d] = rows[d] /\ cntr'[d] = cntr[d] /\ array'[d] = array[d]
            BY <1>1, <1>2, <2>2 DEF TypeOK
        <3>2. Shown(d)' <=> Shown(d)
            BY <1>2, <3>1, ZenonT(30) DEF Shown
        <3> QED
            BY <1>1, <1>2, <3>1, <3>2, Zenon DEF Progress
    <2> QED
        BY <2>1, <2>2
<1>9. Progress'
    BY <1>8, Zenon DEF Progress
<1>10. Culprit'
    BY <1>1, <1>2 DEF Culprit
<1> QED
    BY <1>7, <1>9, <1>10 DEF RInv

\* An exception ends everything, and the set in which it was thrown is at fault.
LEMMA TerminateRows ==
    ASSUME RInv, Terminate, NEW c \in Calls, Running(c),
           \/ ~Accepted(arg[c])
           \/ \E i \in 1..Len(Elements(arg[c])) : Elements(arg[c])[i] = NoElement
    PROVE  RInv'
<1>1. UNCHANGED <<starts, st, arg, user, cntr, array, points, rows, live, heap, lost>>
      /\ backend' = "terminated"
    BY DEF Terminate
<1>2. TypeOK' /\ Progress'
    BY <1>1 DEF RInv, TypeOK, Progress, Shown
<1>3. Culprit'
    BY <1>1, Zenon DEF Culprit, Running
<1> QED
    BY <1>2, <1>3 DEF RInv

\* The part of an invocation behind SRF_PERCALL_SETUP, however it ends.
LEMMA PerCallRows ==
    ASSUME RInv, NEW c, NEW h, NEW v, NEW n, AtRow(c, h, v, n), NEW p \in Memory,
           PerCall(c, h, v, n, p)
    PROVE  RInv'
<1>1. TypeOK /\ Progress /\ c \in Calls /\ Running(c) /\ h \in SUBSET Block /\ backend = "up"
      /\ v = Elements(arg[c]) /\ n = Len(rows[c]) /\ arg[c] \in Args
    BY SMTT(30) DEF RInv, AtRow, TypeOK
<1>2. v \in Seq(Element)
    BY <1>1, ElementsType, Zenon
<1>3. CASE n = Len(v) /\ ReturnDone(c, h)
    BY <1>3, ReturnDoneRows
<1>4. CASE n # Len(v) /\ v[n + 1] = NoElement /\ Terminate
    <2>1. Shown(c) /\ rows[c] \in Seq({"doc", "wrapped"} \X Int)
        BY <1>1, SMTT(30) DEF Progress, Running, TypeOK
    <2>2. n + 1 \in 1..Len(v)
        BY <1>1, <1>2, <1>4, <2>1 DEF Shown
    <2> QED
        BY <1>1, <1>4, <2>2, TerminateRows
<1>5. CASE n # Len(v) /\ v[n + 1] # NoElement /\ ReturnNext(c, h, v, n, p)
    BY <1>5, ReturnNextRows
<1>6. CASE Abort(c, IF v[n + 1].obj THEN h ELSE h \cup {<<"row", user[c]>>})
    <2> DEFINE g == IF v[n + 1].obj THEN h ELSE h \cup {<<"row", user[c]>>}
    <2>1. PICK S \in SUBSET Calls : GiveUp(S, g)
        BY <1>6, SMTT(30) DEF Abort
    <2>2. g \in SUBSET Block
        BY <1>1 DEF TypeOK, Block
    <2> HIDE DEF g
    <2> QED
        BY <1>1, <2>1, <2>2, GiveUpRows
<1> QED
    BY <1>3, <1>4, <1>5, <1>6 DEF PerCall

\* Every step of the function and of the executor preserves the invariant.
LEMMA NextRInv == RInv /\ [Next]_vars => RInv'
<1> SUFFICES ASSUME RInv, [Next]_vars PROVE RInv'
    OBVIOUS
<1>1. TypeOK /\ Progress
    BY Zenon DEF RInv
<1>2. ASSUME NEW c \in Calls, NEW a \in Args, Begin(c, a) PROVE RInv'
    <2>1. /\ backend' = "up" /\ st' = [st EXCEPT ![c] = "first"] /\ arg' = [arg EXCEPT ![c] = a]
          /\ rows' = [rows EXCEPT ![c] = <<>>] /\ UNCHANGED <<array, cntr>>
        BY <1>2 DEF Begin
    <2>2. TypeOK'
        <3>1. st' \in [Calls -> {"idle", "first", "next", "done"}] /\ arg' \in [Calls -> Args]
            BY <1>1, <2>1 DEF TypeOK
        <3>2. rows' \in [Calls -> Seq({"doc", "wrapped"} \X Int)]
            BY <1>1, <2>1 DEF TypeOK
        <3>3. live' \subseteq Memory /\ starts' \in Nat /\ user' \in [Calls -> Nat]
            BY <1>1, <1>2 DEF TypeOK, Begin, Memory
        <3> QED
            BY <1>1, <1>2, <3>1, <3>2, <3>3 DEF TypeOK, Begin
    <2>3. ASSUME NEW d \in Calls
          PROVE  /\ st'[d] \in {"first", "next", "done"} => Shown(d)'
                 /\ st'[d] = "first" => rows'[d] = <<>>
                 /\ st'[d] = "next" => array'[d] = Elements(arg'[d]) /\ cntr'[d] = Len(rows'[d])
                 /\ st'[d] = "done" => Len(rows'[d]) = Len(Elements(arg'[d]))
        <3>1. CASE d = c
            <4>1. st'[d] = "first" /\ rows'[d] = <<>> /\ arg'[d] \in Args
                BY <1>1, <2>1, <3>1, SMTT(30) DEF TypeOK
            <4>2. Elements(arg'[d]) \in Seq(Element)
                BY <4>1, ElementsType, SMTT(30)
            <4> QED
                BY <4>1, <4>2 DEF Shown
        <3>2. CASE d # c
            <4>1. st'[d] = st[d] /\ rows'[d] = rows[d] /\ arg'[d] = arg[d]
                BY <1>1, <2>1, <3>2, SMTT(30) DEF TypeOK
            <4>2. Shown(d)' <=> Shown(d)
                BY <4>1, SMTT(30) DEF Shown
            <4> QED
                BY <1>1, <2>1, <4>1, <4>2 DEF Progress
        <3> QED
            BY <3>1, <3>2
    <2>4. Progress' /\ Culprit'
        BY <2>1, <2>3, SMTT(30) DEF Progress, Culprit
    <2> QED
        BY <2>2, <2>4 DEF RInv
<1>3. ASSUME NEW c \in Calls, FirstCall(c) PROVE RInv'
    <2>1. Running(c) /\ backend = "up" /\ st[c] = "first"
        BY <1>3 DEF FirstCall, Running
    <2>2. CASE Abort(c, heap)
        <3>1. PICK S \in SUBSET Calls : GiveUp(S, heap)
            BY <2>2 DEF Abort
        <3>2. heap \in SUBSET Block
            BY <1>1 DEF TypeOK
        <3> QED
            BY <2>1, <3>1, <3>2, GiveUpRows
    <2>3. CASE ~Accepted(arg[c]) /\ Terminate
        BY <2>1, <2>3, TerminateRows, SMTT(30)
    <2>4. CASE PerCall(c, heap \cup {<<"context", user[c]>>}, Elements(arg[c]), 0, GetArg(c))
        <3>1. heap \cup {<<"context", user[c]>>} \in SUBSET Block
            BY <1>1 DEF TypeOK, Block
        <3>2. GetArg(c) \in Memory
            BY DEF GetArg, Memory
        <3>3. 0 = Len(rows[c])
            BY <1>1, <2>1 DEF Progress
        <3>4. AtRow(c, heap \cup {<<"context", user[c]>>}, Elements(arg[c]), 0)
            BY <2>1, <3>1, <3>3, SMTT(30) DEF AtRow
        <3> QED
            BY <2>4, <3>2, <3>4, PerCallRows
    <2> QED
        BY <1>3, <2>2, <2>3, <2>4, SMTT(30) DEF FirstCall
<1>4. ASSUME NEW c \in Calls, NextCall(c) PROVE RInv'
    <2>1. st[c] = "next" /\ backend = "up" /\ PerCall(c, heap, array[c], cntr[c], points[c])
        BY <1>4 DEF NextCall
    <2>2. points[c] \in Memory /\ heap \in SUBSET Block
        BY <1>1, SMTT(30) DEF TypeOK
    <2>3. AtRow(c, heap, array[c], cntr[c])
        BY <1>1, <2>1, <2>2 DEF AtRow, Progress, Running
    <2> QED
        BY <2>1, <2>2, <2>3, PerCallRows, SMTT(30)
<1>5. ASSUME NEW c \in Calls, Abandon(c) PROVE RInv'
    <2>1. heap \in SUBSET Block /\ {c} \in SUBSET Calls /\ GiveUp({c}, heap) /\ backend = "up"
        BY <1>1, <1>5 DEF TypeOK, Abandon
    <2> QED
        BY <2>1, GiveUpRows
<1>6. CASE ResetTuple
    <2>1. /\ UNCHANGED <<backend, starts, st, arg, user, cntr, array, points, rows, heap, lost>>
          /\ live' \subseteq live
        BY <1>6 DEF ResetTuple
    <2>2. TypeOK'
        BY <1>1, <2>1, SMTT(30) DEF TypeOK
    <2>3. Progress' /\ Culprit'
        BY <2>1, SMTT(30) DEF RInv, Progress, Culprit, Shown, Running
    <2> QED
        BY <2>2, <2>3 DEF RInv
<1>7. CASE UNCHANGED vars
    BY <1>7 DEF vars, RInv, TypeOK, Progress, Culprit, Shown, Running
<1> QED
    BY <1>2, <1>3, <1>4, <1>5, <1>6, <1>7 DEF Next

\* The invariant of the rows holds of every execution.
THEOREM RowsInvariant == Spec => []RInv
BY InitRInv, NextRInv, PTL DEF Spec

\* The variables keep their types.
THEOREM UnwindTypeCorrect == Spec => []TypeOK
<1>1. RInv => TypeOK
    BY SMTT(30) DEF RInv
<1> QED BY <1>1, RowsInvariant, PTL

\* bson_unwind_array returns, for each position of the array in turn, the last
\* field of that number, and is not done before all positions: for any arrays,
\* any number of sets in progress and any schedule.
THEOREM RowsComeInOrder == Spec => []RowsInOrder
<1>1. RInv => RowsInOrder
    <2> SUFFICES ASSUME RInv, NEW c \in Calls, st[c] \in {"next", "done"}
                 PROVE  /\ \A i \in 1..Len(rows[c]) : Shows(arg[c], i, rows[c][i])
                        /\ st[c] = "done" =>
                              ~\E row \in {RowOf(arg[c].fields[k].el) : k \in 1..Len(arg[c].fields)},
                                  i \in (Len(rows[c]) + 1)..MaxIndex : Shows(arg[c], i, row)
        BY SMTT(30) DEF RowsInOrder
    <2> DEFINE a == arg[c]
               v == Elements(a)
    <2>1. a \in Args /\ Shown(c) /\ (st[c] = "done" => Len(rows[c]) = Len(v))
          /\ rows[c] \in Seq({"doc", "wrapped"} \X Int) /\ MaxIndex \in Nat
        BY UnwindAssumption DEF RInv, TypeOK, Progress
    <2>2. /\ v \in Seq(Element)
          /\ a.kind \in {"missing", "array", "value"}
          /\ a.kind = "array" => Filled(v, a.fields, Len(a.fields))
          /\ a.kind = "value" => Len(v) = 1 /\ v[1] = a.fields[1].el
          /\ a.kind = "missing" => Len(v) = 0
        BY <2>1, ElementsType
    <2>3. /\ Len(rows[c]) <= Len(v)
          /\ \A i \in 1..Len(rows[c]) : v[i] # NoElement /\ rows[c][i] = RowOf(v[i])
        BY <2>1 DEF Shown
    <2> HIDE DEF v, a
    <2>4. Len(rows[c]) \in Nat /\ Len(v) \in Nat
        BY <2>1, <2>2, SMTT(30)
    <2>5. ASSUME NEW i \in 1..Len(rows[c]) PROVE Shows(a, i, rows[c][i])
        <3>1. i \in 1..Len(v)
            BY <2>3, <2>4
        <3>2. CASE a.kind = "array"
            BY <2>2, <2>3, <3>1, <3>2 DEF Shows, Filled
        <3>3. CASE a.kind = "value"
            <4>1. Len(v) = 1 /\ v[1] = a.fields[1].el
                BY <2>2, <3>3
            <4>2. i = 1
                BY <3>1, <4>1
            <4> QED
                BY <2>3, <3>3, <4>1, <4>2 DEF Shows
        <3> QED
            BY <2>2, <3>1, <3>2, <3>3
    <2>6. ASSUME st[c] = "done", NEW row, NEW i \in (Len(rows[c]) + 1)..MaxIndex, Shows(a, i, row)
          PROVE  FALSE
        <3>1. i \in Nat /\ i > Len(v)
            BY <2>1, <2>4, <2>6 DEF a, v
        <3>2. CASE a.kind = "array"
            <4>1. PICK k \in 1..Len(a.fields) : a.fields[k].idx = i - 1
                BY <2>6, <3>2 DEF Shows
            <4>2. a.fields[k].idx # None
                BY <2>4, <3>1, <4>1 DEF None
            <4>3. a.fields[k].idx < Len(v)
                BY <2>2, <3>2, <4>2 DEF Filled
            <4> QED
                BY <2>4, <3>1, <4>1, <4>3
        <3>3. CASE a.kind = "value"
            <4>1. Len(v) = 1
                BY <2>2, <3>3
            <4>2. i = 1
                BY <2>6, <3>3 DEF Shows
            <4> QED
                BY <3>1, <4>1, <4>2
        <3>4. CASE a.kind = "missing"
            BY <2>6, <3>4 DEF Shows
        <3> QED
            BY <2>2, <3>2, <3>3, <3>4
    <2> QED
        BY <2>5, <2>6 DEF a
<1> QED BY <1>1, RowsInvariant, PTL

\* The vector of an array with the names "0", "1", ... is as long as the array
\* and has no gap.
LEMMA WellNamedFilled ==
    ASSUME NEW a \in Args, WellNamed(a), a.kind = "array"
    PROVE  /\ Len(Elements(a)) = Len(a.fields)
           /\ \A i \in 1..Len(a.fields) : Elements(a)[i] # NoElement
<1> DEFINE v == Elements(a)
           n == Len(a.fields)
<1>1. v \in Seq(Element) /\ a.fields \in Seq(Field) /\ Filled(v, a.fields, n)
    BY ElementsType, Zenon
<1>2. {a.fields[i].idx : i \in 1..n} = 0..(n - 1)
    BY DEF WellNamed
<1> HIDE DEF v
<1>3. n \in Nat /\ Len(v) \in Nat
    BY <1>1
<1>4. \A i \in 1..n : \E k \in 1..n : a.fields[k].idx = i - 1
    <2>1. \A j \in 0..(n - 1) : \E k \in 1..n : a.fields[k].idx = j
        BY <1>2, Zenon
    <2> QED
        BY <1>3, <2>1
<1>5. \A k \in 1..n : a.fields[k].idx \in 0..(n - 1)
    BY <1>2
<1> HIDE DEF n
<1>6. Len(v) <= n
    <2> SUFFICES ASSUME Len(v) # 0 PROVE Len(v) <= n
        BY <1>3
    <2>1. PICK k \in 1..n : a.fields[k].idx = Len(v) - 1
        BY <1>1 DEF Filled
    <2>2. Len(v) - 1 \in 0..(n - 1)
        BY <1>5, <2>1
    <2> QED
        BY <1>3, <2>2
<1>7. n <= Len(v)
    <2> SUFFICES ASSUME n # 0 PROVE n <= Len(v)
        BY <1>3
    <2>1. PICK k \in 1..n : a.fields[k].idx = n - 1
        BY <1>3, <1>4
    <2>2. n - 1 # None
        BY <1>3 DEF None
    <2>3. n - 1 < Len(v)
        BY <1>1, <2>1, <2>2 DEF Filled
    <2> QED
        BY <1>3, <2>3
<1>8. Len(v) = n
    BY <1>3, <1>6, <1>7
<1>9. ASSUME NEW i \in 1..n PROVE v[i] # NoElement
    <2>1. PICK m \in 1..n : /\ a.fields[m].idx = i - 1 /\ v[i] = a.fields[m].el
        BY <1>1, <1>4, <1>8, ZenonT(30) DEF Filled
    <2>2. a.fields[m].el # NoElement
        BY <2>1, UnwindAssumption DEF n
    <2> QED
        BY <2>1, <2>2
<1> QED
    BY <1>8, <1>9 DEF v, n

\* On an array as the parser and the drivers write it, bson_unwind_array returns
\* bson_array_size rows.
THEOREM SizeAgreesWithRows == Spec => []SizeAgrees
<1>1. RInv => SizeAgrees
    <2> SUFFICES ASSUME RInv, NEW c \in Calls, st[c] = "done", WellNamed(arg[c])
                 PROVE  Len(rows[c]) = IF ArraySize(arg[c]) = None THEN 0 ELSE ArraySize(arg[c])
        BY DEF SizeAgrees
    <2>1. arg[c] \in Args /\ Len(rows[c]) = Len(Elements(arg[c]))
        BY DEF RInv, TypeOK, Progress
    <2>2. CASE arg[c].kind = "array"
        <3>1. arg[c].fields \in Seq(Field) /\ Len(rows[c]) = Len(arg[c].fields)
            BY <2>1, <2>2, ElementsType, WellNamedFilled
        <3>2. ArraySize(arg[c]) = Len(arg[c].fields) /\ Len(arg[c].fields) # None
            BY <2>2, <3>1 DEF ArraySize, None
        <3> QED
            BY <3>1, <3>2
    <2>3. CASE arg[c].kind = "value"
        BY <2>1, <2>3, ElementsType DEF ArraySize, None
    <2>4. CASE arg[c].kind = "missing"
        BY <2>1, <2>4, ElementsType DEF ArraySize
    <2> QED
        BY <2>1, <2>2, <2>3, <2>4, ElementsType
<1> QED BY <1>1, RowsInvariant, PTL

\* Only an array longer than Array() accepts, or one with other names, can end
\* the backend with an exception.
THEOREM WellNamedArraysSurvive == Spec => []WellNamedSurvives
<1>1. RInv => WellNamedSurvives
    <2> SUFFICES ASSUME RInv, backend = "terminated"
                 PROVE  \E c \in Calls :
                            Running(c) /\ (WellNamed(arg[c]) => Len(arg[c].fields) > MaxIndex)
        BY DEF WellNamedSurvives
    <2>1. PICK c \in Calls :
              /\ Running(c)
              /\ \/ ~Accepted(arg[c])
                 \/ \E i \in 1..Len(Elements(arg[c])) : Elements(arg[c])[i] = NoElement
        BY DEF RInv, Culprit
    <2> SUFFICES ASSUME WellNamed(arg[c]) PROVE Len(arg[c].fields) > MaxIndex
        BY <2>1
    <2>2. arg[c] \in Args /\ MaxIndex \in Nat
        BY UnwindAssumption DEF RInv, TypeOK
    <2>3. arg[c].fields \in Seq(Field)
        BY <2>2, ElementsType
    <2>4. CASE ~Accepted(arg[c])
        <3>1. PICK i \in 1..Len(arg[c].fields) : ~(arg[c].fields[i].idx < MaxIndex)
            BY <2>4 DEF Accepted
        <3>2. arg[c].kind = "array"
            BY <2>4 DEF Accepted
        <3>3. arg[c].fields[i].idx \in 0..(Len(arg[c].fields) - 1)
            BY <3>2 DEF WellNamed
        <3> QED
            BY <2>2, <2>3, <3>1, <3>3
    <2>5. CASE \E i \in 1..Len(Elements(arg[c])) : Elements(arg[c])[i] = NoElement
        <3>1. arg[c].kind # "array"
            BY <2>2, <2>5, WellNamedFilled
        <3>2. arg[c].kind # "value"
            BY <2>2, <2>5, ElementsType
        <3>3. arg[c].kind # "missing"
            BY <2>2, <2>5, ElementsType
        <3> QED
            BY <2>2, <3>1, <3>2, <3>3, ElementsType
    <2> QED
        BY <2>1, <2>4, <2>5
<1> QED BY <1>1, RowsInvariant, PTL

-----------------------------------------------------------------------------
(* Closed sets of documents *)

IsDocument(e) == Len(e) \in Nat /\ \A i \in 1..Len(e) : IsElement(e[i])
Closed(S) == \A e \in S : IsDocument(e) /\ \A i \in 1..Len(e) : e[i].sub \in S

\* The documents of L are those of the fields of the documents of T.
Below(L, T) == \A x : x \in L <=> \E e \in T : \E i \in 1..Len(e) : x = e[i].sub
IsLevels(f, d) == f[0] = {d} /\ \A n \in 1..MaxDepth : Below(f[n], f[n - 1])

\* Levels builds them, whatever the document.
LEMMA LevelsProps ==
    ASSUME NEW d
    PROVE  IsLevels(Levels(d), d)
<1> DEFINE N == MaxDepth
           U(T) == UNION {{e[i].sub : i \in 1..Len(e)} : e \in T}
           Body(f, n) == IF n = 0 THEN {d} ELSE U(f[n - 1])
           Eqn(f) == f = [n \in 0..N |-> Body(f, n)]
           levels == CHOOSE f : Eqn(f)
<1>1. Levels(d) = levels
    BY DEF Levels
<1>2. N \in Nat
    BY FieldAccessAssumption, Zenon
<1>3. \A T : Below(U(T), T)
    <2> SUFFICES ASSUME NEW T, NEW x PROVE x \in U(T) <=> \E e \in T : \E i \in 1..Len(e) : x = e[i].sub
        BY DEF Below
    <2> DEFINE P(e) == {e[i].sub : i \in 1..Len(e)}
    <2>1. \A e : x \in P(e) <=> \E i \in 1..Len(e) : x = e[i].sub
        OBVIOUS
    <2>2. U(T) = UNION {P(e) : e \in T}
        OBVIOUS
    <2> HIDE DEF P, U
    <2>3. x \in U(T) <=> \E e \in T : x \in P(e)
        BY <2>2, Zenon
    <2> QED
        BY <2>1, <2>3, Zenon
<1> HIDE DEF N, U
<1>4. \A f : Body(f, 0) = {d} /\ \A n \in 1..N : Body(f, n) = U(f[n - 1])
    BY <1>2
<1> HIDE DEF Body
<1> DEFINE Upto(k) == \E f : f[0] = {d} /\ \A n \in 1..k : f[n] = U(f[n - 1])
           K == {k \in 0..N : Upto(k)}
<1>5. 0 \in K
    <2> DEFINE f == [n \in 0..N |-> {d}]
    <2>1. f[0] = {d} /\ \A n \in 1..0 : f[n] = U(f[n - 1])
        BY <1>2
    <2>2. Upto(0)
        <3> HIDE DEF f
        <3> QED
            BY <2>1
    <2> HIDE DEF Upto
    <2> QED
        BY <1>2, <2>2
<1>6. ASSUME NEW k \in 0..(N - 1), k \in K PROVE k + 1 \in K
    <2>1. PICK f : f[0] = {d} /\ \A n \in 1..k : f[n] = U(f[n - 1])
        BY <1>6
    <2> DEFINE g == [n \in 0..N |-> IF n = k + 1 THEN U(f[k]) ELSE f[n]]
    <2>2. k \in 0..N /\ k + 1 \in 1..N /\ k + 1 \in 0..N
        BY <1>2
    <2>3. g[k + 1] = U(f[k]) /\ \A n \in 0..k : g[n] = f[n]
        <3>1. \A n \in 0..k : n \in 0..N /\ n # k + 1
            BY <1>2
        <3>2. \A n \in 0..N : g[n] = IF n = k + 1 THEN U(f[k]) ELSE f[n]
            OBVIOUS
        <3> HIDE DEF g
        <3> QED
            BY <2>2, <3>1, <3>2
    <2> HIDE DEF g
    <2>4. ASSUME NEW n \in 1..(k + 1) PROVE g[n] = U(g[n - 1])
        <3>1. CASE n = k + 1
            <4>1. n - 1 = k /\ k \in 0..k
                BY <2>2, <3>1
            <4> QED
                BY <2>3, <3>1, <4>1
        <3>2. CASE n # k + 1
            <4>1. n \in 1..k /\ n - 1 \in 0..k /\ n \in 0..k
                BY <2>2, <3>2
            <4> QED
                BY <2>1, <2>3, <4>1
        <3> QED
            BY <3>1, <3>2
    <2>5. g[0] = {d}
        BY <2>1, <2>2, <2>3
    <2>6. Upto(k + 1)
        BY <2>4, <2>5
    <2> HIDE DEF Upto
    <2> QED
        BY <2>2, <2>6
<1> HIDE DEF K
<1>7. \A k \in 0..N : k \in K
    BY <1>2, <1>5, <1>6, IntervalInduction
<1>8. PICK h : h[0] = {d} /\ \A n \in 1..N : h[n] = U(h[n - 1])
    <2>1. N \in K
        BY <1>2, <1>7
    <2> QED
        BY <2>1 DEF K
<1> DEFINE g == [n \in 0..N |-> h[n]]
<1>9. \A n \in 0..N : g[n] = h[n]
    OBVIOUS
<1>10. ASSUME NEW n \in 0..N PROVE g[n] = Body(g, n)
    <2> HIDE DEF g
    <2>1. CASE n = 0
        BY <1>2, <1>4, <1>8, <1>9, <2>1, SMTT(30)
    <2>2. CASE n # 0
        <3>1. n \in 1..N /\ n - 1 \in 0..N
            BY <1>2, <2>2
        <3>2. g[n] = U(g[n - 1])
            BY <1>8, <1>9, <3>1
        <3> QED
            BY <1>4, <3>1, <3>2
    <2> QED
        BY <2>1, <2>2
<1>11. Eqn(g)
    BY <1>10
<1>12. Eqn(levels)
    <2> HIDE DEF Eqn
    <2> QED
        BY <1>11, Zenon
<1>13. \A n \in 0..N : levels[n] = Body(levels, n)
    BY <1>12, Zenon
<1> HIDE DEF levels
<1>14. levels[0] = {d} /\ \A n \in 1..N : levels[n] = U(levels[n - 1])
    BY <1>2, <1>4, <1>13
<1>15. ASSUME NEW n \in 1..N PROVE Below(levels[n], levels[n - 1])
    BY <1>3, <1>14
<1> QED
    BY <1>1, <1>14, <1>15, Zenon DEF IsLevels, N

\* The documents inside one are those of all its levels.
LEMMA InsideLevels == \A d, x : x \in Inside(d) <=> \E n \in 0..MaxDepth : x \in Levels(d)[n]
<1> SUFFICES ASSUME NEW d, NEW x PROVE x \in Inside(d) <=> \E n \in 0..MaxDepth : x \in Levels(d)[n]
    OBVIOUS
<1> DEFINE L(n) == Levels(d)[n]
<1>1. Inside(d) = UNION {L(n) : n \in 0..MaxDepth}
    BY DEF Inside
<1> HIDE DEF L
<1>2. x \in Inside(d) <=> \E n \in 0..MaxDepth : x \in L(n)
    BY <1>1, Zenon
<1> QED
    BY <1>2 DEF L

\* The documents in one that is queried are closed.
LEMMA InsideClosed ==
    ASSUME NEW d \in Docs
    PROVE  d \in Inside(d) /\ Closed(Inside(d))
<1>1. MaxDepth \in Nat /\ WellFormed(d) /\ Levels(d)[MaxDepth] \subseteq {<<>>}
    BY FieldAccessAssumption, Zenon
<1>2. /\ Levels(d)[0] = {d}
      /\ \A n \in 1..MaxDepth : Below(Levels(d)[n], Levels(d)[n - 1])
    BY LevelsProps DEF IsLevels
<1>3. d \in Inside(d)
    <2>1. 0 \in 0..MaxDepth /\ d \in Levels(d)[0]
        BY <1>1, <1>2
    <2> QED
        BY <2>1, InsideLevels, Zenon
<1>4. ASSUME NEW e \in Inside(d), NEW i \in 1..Len(e) PROVE e[i].sub \in Inside(d)
    <2>1. PICK n \in 0..MaxDepth : e \in Levels(d)[n]
        BY <1>4, InsideLevels, Zenon
    <2>2. n # MaxDepth
        <3>1. ASSUME n = MaxDepth PROVE e = <<>>
            BY <1>1, <2>1, <3>1
        <3>2. e = <<>> => FALSE
            BY <1>4
        <3> QED
            BY <3>1, <3>2
    <2>3. n + 1 \in 1..MaxDepth /\ n + 1 \in 0..MaxDepth /\ (n + 1) - 1 = n
        BY <1>1, <2>2
    <2>4. Below(Levels(d)[n + 1], Levels(d)[n])
        BY <1>2, <2>3
    <2>5. e[i].sub \in Levels(d)[n + 1]
        BY <1>4, <2>1, <2>4, Zenon DEF Below
    <2> QED
        BY <2>3, <2>5, InsideLevels, Zenon
<1>5. \A e \in Inside(d) : IsDocument(e)
    BY <1>1, Zenon DEF WellFormed, IsDocument
<1> QED
    BY <1>3, <1>4, <1>5, Zenon DEF Closed

\* A document with its fields in a closed set has everything in it there.
LEMMA InsideSubset ==
    ASSUME NEW S, Closed(S), NEW d, \A i \in 1..Len(d) : d[i].sub \in S
    PROVE  Inside(d) \subseteq {d} \cup S
<1> DEFINE R == {d} \cup S
           T == {n \in 0..MaxDepth : Levels(d)[n] \subseteq R}
<1>1. MaxDepth \in Nat
    BY FieldAccessAssumption, Zenon
<1>2. /\ Levels(d)[0] = {d}
      /\ \A n \in 1..MaxDepth : Below(Levels(d)[n], Levels(d)[n - 1])
    BY LevelsProps DEF IsLevels
<1>3. 0 \in T
    BY <1>1, <1>2
<1>4. \A e \in R : \A i \in 1..Len(e) : e[i].sub \in R
    BY DEF Closed
<1>5. ASSUME NEW n \in 0..(MaxDepth - 1), n \in T PROVE n + 1 \in T
    <2>1. n + 1 \in 1..MaxDepth /\ n + 1 \in 0..MaxDepth /\ (n + 1) - 1 = n
        BY <1>1
    <2>2. Below(Levels(d)[n + 1], Levels(d)[n]) /\ Levels(d)[n] \subseteq R
        BY <1>2, <1>5, <2>1
    <2> HIDE DEF R
    <2>3. ASSUME NEW x \in Levels(d)[n + 1] PROVE x \in R
        <3>1. PICK e \in Levels(d)[n] : \E i \in 1..Len(e) : x = e[i].sub
            BY <2>2, Zenon DEF Below
        <3>2. e \in R
            BY <2>2
        <3> QED
            BY <1>4, <3>1, <3>2
    <2> QED
        BY <2>1, <2>3
<1> HIDE DEF T
<1>6. \A n \in 0..MaxDepth : n \in T
    BY <1>1, <1>3, <1>5, IntervalInduction
<1> HIDE DEF R
<1>7. \A n \in 0..MaxDepth : Levels(d)[n] \subseteq R
    BY <1>6 DEF T
<1>8. Inside(d) \subseteq R
    BY <1>7, InsideLevels, Zenon
<1> QED
    BY <1>8 DEF R

\* A document is well formed if its fields' documents are in a closed set.
LEMMA InsideWellFormed ==
    ASSUME NEW S, Closed(S), NEW d, IsDocument(d), \A i \in 1..Len(d) : d[i].sub \in S
    PROVE  WellFormed(d)
<1>1. \A e \in Inside(d) : e = d \/ e \in S
    BY InsideSubset
<1>2. \A e \in Inside(d) : IsDocument(e)
    BY <1>1, Zenon DEF Closed
<1> QED
    BY <1>2, Zenon DEF WellFormed, IsDocument

-----------------------------------------------------------------------------
(* Lookup *)

\* An element of a document is not the one that says there is none.
LEMMA ElementIsNotEoo ==
    ASSUME NEW e, IsElement(e)
    PROVE  e # Eoo
<1>1. Eoo.name = <<>>
    BY DEF Eoo
<1> QED
    BY <1>1, Zenon DEF IsElement

\* getField() finds a field of that name, if there is one.
LEMMA GetFieldProps ==
    ASSUME NEW d, IsDocument(d), NEW name
    PROVE  \/ GetField(d, name) = Eoo /\ \A i \in 1..Len(d) : d[i].name # name
           \/ \E i \in 1..Len(d) : GetField(d, name) = d[i] /\ d[i].name = name
<1> DEFINE hits == {i \in 1..Len(d) : d[i].name = name}
<1>1. GetField(d, name) = IF hits = {} THEN Eoo ELSE d[Min(hits)]
    BY DEF GetField
<1>2. hits \subseteq Nat
    BY DEF IsDocument
<1>3. \A i \in hits : i \in 1..Len(d) /\ d[i].name = name
    OBVIOUS
<1>4. hits = {} => \A i \in 1..Len(d) : d[i].name # name
    OBVIOUS
<1> HIDE DEF hits
<1>5. ASSUME hits # {} PROVE Min(hits) \in hits
    <2>1. \E x \in hits : \A y \in hits : x <= y
        BY <1>2, <1>5, LeastNatural, Zenon
    <2> QED
        BY <2>1, Zenon DEF Min
<1> QED
    BY <1>1, <1>3, <1>4, <1>5, Zenon

\* The empty document has no fields.
LEMMA EmptyDocument == IsDocument(<<>>) /\ \A i \in 1..Len(<<>>) : FALSE
BY DEF IsDocument

\* A set of documents, closed, with the empty one that stands for what is no document.
IsStock(S) == Closed(S) /\ <<>> \in S

\* What the fields of an element are, for the way down.
Sub(e) == IF e.type \in {"object", "array"} THEN e.sub ELSE <<>>

\* getObjectField stays among the documents it starts from.
LEMMA GetObjectFieldProps ==
    ASSUME NEW S, IsStock(S), NEW d \in S, NEW label
    PROVE  GetObjectField(d, label) \in S /\ GetObjectField(d, label) = Sub(GetField(d, <<label>>))
<1> DEFINE e == GetField(d, <<label>>)
<1>1. GetObjectField(d, label) = IF e.type \in {"object", "array"} THEN e.sub ELSE <<>>
    BY DEF GetObjectField
<1>2. IsDocument(d) /\ \A i \in 1..Len(d) : d[i].sub \in S
    BY DEF IsStock, Closed
<1>3. e = Eoo \/ \E i \in 1..Len(d) : e = d[i]
    BY <1>2, GetFieldProps, Zenon
<1>4. Eoo.type \notin {"object", "array"} /\ <<>> \in S
    BY DEF Eoo, IsStock
<1> HIDE DEF e
<1>5. (IF e.type \in {"object", "array"} THEN e.sub ELSE <<>>) \in S
    BY <1>2, <1>3, <1>4, Zenon
<1> QED
    BY <1>1, <1>5, Zenon DEF Sub, e

\* Walk() goes from document to document.
IsWalk(f, S, d, name) ==
    /\ f[0] = d
    /\ \A k \in 0..Len(name) : f[k] \in S
    /\ \A k \in 1..Len(name) : f[k] = GetObjectField(f[k - 1], name[k])

\* The way of getFieldDotted from label to label.
LEMMA WalkProps ==
    ASSUME NEW S, IsStock(S), NEW d \in S, NEW name \in Seq(Labels)
    PROVE  IsWalk(Walk(d, name), S, d, name)
<1> DEFINE N == Len(name)
           Body(f, k) == IF k = 0 THEN d ELSE GetObjectField(f[k - 1], name[k])
           Eqn(f) == f = [k \in 0..N |-> Body(f, k)]
           at == CHOOSE f : Eqn(f)
           step == [k \in 1..N |-> [x \in S |-> GetObjectField(x, name[k])]]
<1>1. Walk(d, name) = at
    BY DEF Walk
<1>2. N \in Nat
    OBVIOUS
<1>3. \A k \in 1..N, x \in S : GetObjectField(x, name[k]) \in S
    BY GetObjectFieldProps, Zenon
<1> HIDE DEF N
<1>4. \A f : Body(f, 0) = d /\ \A k \in 1..N : Body(f, k) = GetObjectField(f[k - 1], name[k])
    BY <1>2
<1>5. \A k \in 1..N, x \in S : step[k][x] = GetObjectField(x, name[k])
    OBVIOUS
<1>6. step \in StepsOf(S, N)
    BY <1>3 DEF StepsOf
<1>7. PICK g : g \in RunsOf(S, d, N, step)
    <2> HIDE DEF step
    <2> QED
        BY <1>2, <1>6, RunExists
<1>8. g \in [0..N -> S] /\ g[0] = d /\ \A k \in 1..N : g[k] = step[k][g[k - 1]]
    BY <1>7 DEF RunsOf
<1> HIDE DEF step, Body
<1>9. ASSUME NEW k \in 1..N PROVE g[k] = GetObjectField(g[k - 1], name[k])
    <2>1. k - 1 \in 0..N
        BY <1>2
    <2> QED
        BY <1>5, <1>8, <2>1
<1>10. ASSUME NEW k \in 0..N PROVE g[k] = Body(g, k)
    <2>1. CASE k = 0
        BY <1>4, <1>8, <2>1
    <2>2. CASE k # 0
        <3>1. k \in 1..N
            BY <1>2, <2>2
        <3> QED
            BY <1>4, <1>9, <3>1
    <2> QED
        BY <2>1, <2>2
<1>11. Eqn(g)
    BY <1>8, <1>10
<1>12. Eqn(at)
    <2> HIDE DEF Eqn
    <2> QED
        BY <1>11, Zenon
<1>13. \A k \in 0..N : at[k] = Body(at, k)
    BY <1>12, Zenon
<1> HIDE DEF at
<1>14. at[0] = d /\ \A k \in 1..N : at[k] = GetObjectField(at[k - 1], name[k])
    BY <1>2, <1>4, <1>13
<1> DEFINE T == {k \in 0..N : at[k] \in S}
<1>15. 0 \in T
    BY <1>2, <1>14
<1>16. ASSUME NEW k \in 0..(N - 1), k \in T PROVE k + 1 \in T
    <2>1. k + 1 \in 1..N /\ k + 1 \in 0..N /\ (k + 1) - 1 = k
        BY <1>2
    <2>2. at[k + 1] = GetObjectField(at[k], name[k + 1]) /\ at[k] \in S
        BY <1>14, <1>16, <2>1
    <2>3. at[k + 1] \in S
        BY <1>3, <2>1, <2>2
    <2> QED
        BY <2>1, <2>3
<1> HIDE DEF T
<1>17. \A k \in 0..N : k \in T
    BY <1>2, <1>15, <1>16, IntervalInduction
<1>18. \A k \in 0..N : at[k] \in S
    BY <1>17 DEF T
<1> QED
    BY <1>1, <1>14, <1>18, Zenon DEF IsWalk, N

\* The labels of a name from the k-th on.
Rest(name, k) == SubSeq(name, k, Len(name))

\* What is left of a dotted name behind its first labels.
LEMMA RestProps ==
    ASSUME NEW name \in Seq(Labels), NEW k \in 1..Len(name)
    PROVE  /\ Rest(name, k) \in Seq(Labels) /\ Len(Rest(name, k)) = Len(name) - k + 1
           /\ k = Len(name) => Rest(name, k) = <<name[k]>>
<1> DEFINE r == SubSeq(name, k, Len(name))
<1>1. r \in Seq(Labels) /\ Len(r) = Len(name) - k + 1
    OBVIOUS
<1>2. r[1] = name[k]
    OBVIOUS
<1> HIDE DEF r
<1>3. ASSUME k = Len(name) PROVE r = <<name[k]>>
    BY <1>1, <1>2, <1>3, SMTT(30)
<1> QED
    BY <1>1, <1>3 DEF Rest, r

\* What getFieldDotted() finds is a field of one of the documents on the way, the
\* first that has one of the right name.
LEMMA DottedProps ==
    ASSUME NEW S, IsStock(S), NEW d \in S, NEW name \in Seq(Labels)
    PROVE  \/ /\ GetFieldDotted(d, name) = Eoo
              /\ \A k \in 1..Len(name) : GetField(Walk(d, name)[k - 1], Rest(name, k)) = Eoo
           \/ \E k \in 1..Len(name) :
                  /\ GetFieldDotted(d, name) = GetField(Walk(d, name)[k - 1], Rest(name, k))
                  /\ GetFieldDotted(d, name) # Eoo
<1> DEFINE at == Walk(d, name)
           found(k) == GetField(at[k - 1], Rest(name, k))
           hits == {k \in 1..Len(name) : found(k) # Eoo}
<1>1. GetFieldDotted(d, name) = IF hits = {} THEN Eoo ELSE found(Min(hits))
    BY DEF GetFieldDotted, Rest
<1>2. hits \subseteq Nat
    OBVIOUS
<1>3. \A k \in hits : k \in 1..Len(name) /\ found(k) # Eoo
    OBVIOUS
<1>4. hits = {} => \A k \in 1..Len(name) : found(k) = Eoo
    OBVIOUS
<1> HIDE DEF hits
<1>5. ASSUME hits # {} PROVE Min(hits) \in hits
    <2>1. \E x \in hits : \A y \in hits : x <= y
        BY <1>2, <1>5, LeastNatural, Zenon
    <2> QED
        BY <2>1, Zenon DEF Min
<1>6. CASE hits = {}
    BY <1>1, <1>4, <1>6, Zenon
<1>7. CASE hits # {}
    <2> DEFINE m == Min(hits)
    <2>1. m \in 1..Len(name) /\ found(m) # Eoo /\ GetFieldDotted(d, name) = found(m)
        BY <1>1, <1>3, <1>5, <1>7, Zenon
    <2> HIDE DEF m
    <2> QED
        BY <2>1, Zenon
<1> QED
    BY <1>6, <1>7

\* It is an element of one of the documents, or there is none.
LEMMA DottedElement ==
    ASSUME NEW S, IsStock(S), NEW d \in S, NEW name \in Seq(Labels), GetFieldDotted(d, name) # Eoo
    PROVE  \E e \in S : \E i \in 1..Len(e) : GetFieldDotted(d, name) = e[i]
<1>1. PICK k \in 1..Len(name) : GetFieldDotted(d, name) = GetField(Walk(d, name)[k - 1], Rest(name, k))
    BY DottedProps
<1> DEFINE e == Walk(d, name)[k - 1]
<1>2. e \in S
    <2>1. k - 1 \in 0..Len(name)
        OBVIOUS
    <2> QED
        BY <2>1, WalkProps, Zenon DEF IsWalk
<1>3. IsDocument(e)
    BY <1>2, Zenon DEF IsStock, Closed
<1> HIDE DEF e
<1>4. GetFieldDotted(d, name) = GetField(e, Rest(name, k))
    BY <1>1, Zenon DEF e
<1>5. \E i \in 1..Len(e) : GetFieldDotted(d, name) = e[i]
    <2>1. GetField(e, Rest(name, k)) = Eoo \/ \E i \in 1..Len(e) : GetField(e, Rest(name, k)) = e[i]
        BY <1>3, GetFieldProps
    <2> QED
        BY <1>4, <2>1, Zenon
<1> QED
    BY <1>2, <1>5, Zenon

\* An empty document has no field.
LEMMA DottedEmpty ==
    ASSUME NEW name \in Seq(Labels)
    PROVE  GetFieldDotted(<<>>, name) = Eoo
<1> DEFINE S == {<<>>}
<1>1. IsStock(S) /\ <<>> \in S
    BY EmptyDocument DEF IsStock, Closed
<1>2. \A e \in S : \A i \in 1..Len(e) : FALSE
    BY EmptyDocument
<1> HIDE DEF S
<1> QED
    BY <1>1, <1>2, DottedElement

\* Documents without a dot in a name.
NoDots(S) == \A e \in S : \A i \in 1..Len(e) : Len(e[i].name) = 1

\* Without dots only the last label can be the name of a field.
LEMMA PlainDotted ==
    ASSUME NEW S, IsStock(S), NoDots(S), NEW d \in S, NEW name \in Seq(Labels), name # <<>>
    PROVE  GetFieldDotted(d, name) = GetField(Walk(d, name)[Len(name) - 1], <<name[Len(name)]>>)
<1> DEFINE N == Len(name)
           at == Walk(d, name)
<1>1. N \in Nat /\ N \in 1..N
    OBVIOUS
<1>2. \A k \in 1..N : at[k - 1] \in S /\ IsDocument(at[k - 1])
    <2>1. \A k \in 1..N : k - 1 \in 0..N
        BY <1>1
    <2>2. \A k \in 0..N : at[k] \in S
        BY WalkProps, Zenon DEF IsWalk
    <2> QED
        BY <2>1, <2>2, Zenon DEF IsStock, Closed
<1>3. Rest(name, N) = <<name[N]>>
    BY <1>1, RestProps
<1> HIDE DEF at
<1>4. ASSUME NEW k \in 1..N, k # N PROVE GetField(at[k - 1], Rest(name, k)) = Eoo
    <2>1. Len(Rest(name, k)) # 1
        <3>1. Len(Rest(name, k)) = N - k + 1
            BY RestProps
        <3> QED
            BY <1>1, <1>4, <3>1
    <2>2. \A i \in 1..Len(at[k - 1]) : Len(at[k - 1][i].name) = 1
        BY <1>2, Zenon DEF NoDots
    <2> DEFINE e == at[k - 1]
               r == Rest(name, k)
    <2>3. IsDocument(e) /\ Len(r) # 1 /\ \A i \in 1..Len(e) : Len(e[i].name) = 1
        BY <1>2, <2>1, <2>2
    <2> HIDE DEF e, r
    <2>4. GetField(e, r) = Eoo \/ \E i \in 1..Len(e) : e[i].name = r
        BY <2>3, GetFieldProps
    <2>5. GetField(e, r) = Eoo
        BY <2>3, <2>4, Zenon
    <2> QED
        BY <2>5 DEF e, r
<1>5. \/ /\ GetFieldDotted(d, name) = Eoo
         /\ \A k \in 1..N : GetField(at[k - 1], Rest(name, k)) = Eoo
      \/ \E k \in 1..N :
             /\ GetFieldDotted(d, name) = GetField(at[k - 1], Rest(name, k))
             /\ GetFieldDotted(d, name) # Eoo
    BY DottedProps, Zenon DEF at
<1> HIDE DEF N
<1>6. GetFieldDotted(d, name) = GetField(at[N - 1], Rest(name, N))
    BY <1>1, <1>4, <1>5, Zenon
<1> QED
    BY <1>3, <1>6, Zenon DEF N, at

\* Without dots a name is looked up one part after the other.
LEMMA DottedConcat ==
    ASSUME NEW S, IsStock(S), NoDots(S), NEW d \in S,
           NEW t \in Seq(Labels), t # <<>>, NEW p \in Seq(Labels), p # <<>>
    PROVE  /\ Sub(GetFieldDotted(d, t)) \in S
           /\ GetFieldDotted(d, t \o p) = GetFieldDotted(Sub(GetFieldDotted(d, t)), p)
<1> DEFINE M == Len(t)
           N == Len(p)
           w == t \o p
           W == Walk(d, w)
           A == Walk(d, t)
           x == A[M]
           B == Walk(x, p)
<1>1. M \in Nat /\ M > 0 /\ N \in Nat /\ N > 0
    OBVIOUS
<1>2. /\ w \in Seq(Labels) /\ Len(w) = M + N
      /\ \A i \in 1..M : w[i] = t[i]
      /\ \A j \in 1..N : w[M + j] = p[j]
    BY ConcatProps
<1>3. w # <<>>
    <2> HIDE DEF w
    <2> QED
        BY <1>1, <1>2
<1> HIDE DEF w
<1>4. /\ W[0] = d /\ \A k \in 1..(M + N) : W[k] = GetObjectField(W[k - 1], w[k])
      /\ A[0] = d /\ \A k \in 1..M : A[k] = GetObjectField(A[k - 1], t[k])
      /\ \A k \in 0..M : A[k] \in S
    <2>1. IsWalk(W, S, d, w) /\ IsWalk(A, S, d, t)
        BY <1>2, WalkProps
    <2>2. \A k \in 1..Len(w) : W[k] = GetObjectField(W[k - 1], w[k])
        BY <2>1, Zenon DEF IsWalk
    <2> HIDE DEF W, A
    <2> QED
        BY <1>2, <2>1, <2>2, Zenon DEF IsWalk
<1>5. x \in S
    <2>1. M \in 0..M
        BY <1>1
    <2> QED
        BY <1>4, <2>1, Zenon
<1> HIDE DEF W, A, x
<1>6. B[0] = x /\ \A k \in 1..N : B[k] = GetObjectField(B[k - 1], p[k])
    <2>1. IsWalk(B, S, x, p)
        BY <1>5, WalkProps
    <2> HIDE DEF B
    <2> QED
        BY <2>1, Zenon DEF IsWalk
<1> HIDE DEF B, M, N
<1>7. \A k \in 0..M : W[k] = A[k]
    <2> DEFINE T == {k \in 0..M : W[k] = A[k]}
    <2>1. 0 \in T
        BY <1>1, <1>4
    <2>2. ASSUME NEW k \in 0..(M - 1), k \in T PROVE k + 1 \in T
        <3>1. k + 1 \in 1..(M + N) /\ k + 1 \in 1..M /\ (k + 1) - 1 = k /\ k + 1 \in 0..M
            BY <1>1, SMTT(30)
        <3>2. /\ W[k + 1] = GetObjectField(W[k], w[k + 1]) /\ A[k + 1] = GetObjectField(A[k], t[k + 1])
              /\ w[k + 1] = t[k + 1] /\ W[k] = A[k]
            BY <1>2, <1>4, <2>2, <3>1
        <3> QED
            BY <3>1, <3>2
    <2> HIDE DEF T
    <2>3. \A k \in 0..M : k \in T
        BY <1>1, <2>1, <2>2, IntervalInduction, Zenon
    <2> QED
        BY <2>3 DEF T
<1>8. \A j \in 0..N : W[M + j] = B[j]
    <2> DEFINE T == {j \in 0..N : W[M + j] = B[j]}
    <2>1. 0 \in T
        <3>1. M + 0 = M /\ M \in 0..M /\ 0 \in 0..N
            BY <1>1
        <3>2. W[M] = x
            BY <1>7, <3>1, SMTT(30) DEF x
        <3> QED
            BY <1>6, <3>1, <3>2
    <2>2. ASSUME NEW j \in 0..(N - 1), j \in T PROVE j + 1 \in T
        <3>1. /\ j + 1 \in 1..N /\ j + 1 \in 0..N /\ (j + 1) - 1 = j
              /\ M + (j + 1) \in 1..(M + N) /\ (M + (j + 1)) - 1 = M + j
            BY <1>1, SMTT(30)
        <3>2. /\ W[M + (j + 1)] = GetObjectField(W[M + j], w[M + (j + 1)])
              /\ B[j + 1] = GetObjectField(B[j], p[j + 1])
              /\ w[M + (j + 1)] = p[j + 1] /\ W[M + j] = B[j]
            BY <1>2, <1>4, <1>6, <2>2, <3>1
        <3> QED
            BY <3>1, <3>2
    <2> HIDE DEF T
    <2>3. \A j \in 0..N : j \in T
        BY <1>1, <2>1, <2>2, IntervalInduction, Zenon
    <2> QED
        BY <2>3, SMTT(30) DEF T
<1>9. GetFieldDotted(d, w) = GetFieldDotted(x, p)
    <2>1. GetFieldDotted(d, w) = GetField(W[Len(w) - 1], <<w[Len(w)]>>)
        BY <1>2, <1>3, PlainDotted DEF W
    <2>2. GetFieldDotted(x, p) = GetField(B[N - 1], <<p[N]>>)
        BY <1>5, PlainDotted DEF B, N
    <2>3. N - 1 \in 0..N /\ N \in 1..N /\ (M + N) - 1 = M + (N - 1)
        BY <1>1
    <2>4. W[Len(w) - 1] = B[N - 1] /\ w[Len(w)] = p[N]
        BY <1>2, <1>8, <2>3
    <2> QED
        BY <2>1, <2>2, <2>4, Zenon
<1>10. x = Sub(GetFieldDotted(d, t))
    <2>1. GetFieldDotted(d, t) = GetField(A[M - 1], <<t[M]>>)
        BY PlainDotted DEF A, M
    <2>2. M \in 1..M /\ M - 1 \in 0..M
        BY <1>1
    <2>3. x = GetObjectField(A[M - 1], t[M]) /\ A[M - 1] \in S
        BY <1>4, <2>2, Zenon DEF x
    <2>4. GetObjectField(A[M - 1], t[M]) = Sub(GetField(A[M - 1], <<t[M]>>))
        BY <2>3, GetObjectFieldProps
    <2> QED
        BY <2>1, <2>3, <2>4, Zenon
<1> QED
    BY <1>5, <1>9, <1>10, Zenon DEF w

-----------------------------------------------------------------------------
(* What bson_get_bson returns *)

Wrap(e) == <<[e EXCEPT !.name = <<"">>]>>

\* One label is a name.
LEMMA LabelProps ==
    ASSUME NEW X, NEW l \in X
    PROVE  <<l>> \in Seq(X) /\ <<l>> # <<>> /\ Len(<<l>>) = 1 /\ <<l>>[1] = l
OBVIOUS

\* So is the empty label, which bson_get_bson gives a wrapped value.
LEMMA EmptyLabel == <<"">> \in Seq(Labels) /\ <<"">> # <<>> /\ Len(<<"">>) = 1 /\ <<"">>[1] = ""
<1>1. "" \in Labels
    BY FieldAccessAssumption, Zenon
<1> QED
    BY <1>1, LabelProps, Zenon

\* A value in a document of its own has its type and value, and the empty name.
LEMMA WrapProps ==
    ASSUME NEW e, IsElement(e)
    PROVE  /\ IsDocument(Wrap(e)) /\ Len(Wrap(e)) = 1 /\ Wrap(e)[1].name = <<"">>
           /\ Wrap(e)[1].type = e.type /\ Wrap(e)[1].v = e.v /\ Wrap(e)[1].sub = e.sub
           /\ Wrap(Wrap(e)[1]) = Wrap(e)
<1> DEFINE D == {"name", "type", "v", "sub"}
           x == [e EXCEPT !.name = <<"">>]
           y == [x EXCEPT !.name = <<"">>]
<1>1. DOMAIN e = D
    BY DEF IsElement
<1>2. DOMAIN x = D /\ x.name = <<"">> /\ x.type = e.type /\ x.v = e.v /\ x.sub = e.sub
    BY <1>1, Zenon
<1>3. x = [f \in D |-> IF f = "name" THEN <<"">> ELSE e[f]]
    BY <1>1, Zenon
<1>4. y = [f \in D |-> IF f = "name" THEN <<"">> ELSE x[f]]
    BY <1>2, Zenon
<1>5. y = x
    BY <1>3, <1>4, Zenon
<1>6. Wrap(e) = <<x>> /\ Wrap(x) = <<y>>
    BY DEF Wrap
<1>7. <<"">> \in Seq(Labels) /\ <<"">> # <<>>
    BY EmptyLabel, Zenon
<1> HIDE DEF x, y, D
<1>8. IsElement(x)
    BY <1>2, <1>7, Zenon DEF IsElement, D
<1>9. Len(<<x>>) = 1 /\ <<x>>[1] = x
    OBVIOUS
<1>10. IsDocument(<<x>>)
    BY <1>8, <1>9 DEF IsDocument
<1> QED
    BY <1>2, <1>5, <1>6, <1>9, <1>10, Zenon

\* The three outcomes of bson_get_bson: NULL, an embedded document, a value
\* wrapped up.
LEMMA BsonGetBsonProps ==
    ASSUME NEW d, NEW name
    PROVE  LET el == GetFieldDotted(d, name)
           IN  /\ el = Eoo => BsonGetBson(d, name) = Null
               /\ el # Eoo /\ el.type = "object" => BsonGetBson(d, name) = <<"bson", el.sub>>
               /\ el # Eoo /\ el.type # "object" => BsonGetBson(d, name) = <<"bson", Wrap(el)>>
<1> DEFINE el == GetFieldDotted(d, name)
           A == el = Eoo
           B == el.type = "object"
           P == <<"bson", el.sub>>
           Q == <<"bson", Wrap(el)>>
<1>1. BsonGetBson(d, name) = CASE A -> Null [] B -> P [] OTHER -> Q
    BY DEF BsonGetBson, Wrap
<1>2. A => ~B
    BY DEF Eoo
<1> HIDE DEF A, B, P, Q
<1>3. (A => BsonGetBson(d, name) = Null) /\ (~A /\ B => BsonGetBson(d, name) = P) /\ (~A /\ ~B => BsonGetBson(d, name) = Q)
    BY <1>1, <1>2
<1> QED
    BY <1>3, Zenon DEF A, B, P, Q

\* A document is told from NULL.
LEMMA BsonIsNotNull == \A x : <<"bson", x>> # Null /\ <<"bson", x>>[2] = x
BY DEF Null

\* What a query can have reached: a document, or a field of one wrapped up.
IsShown(c, S) == c \in S \/ \E e \in S : \E i \in 1..Len(e) : c = Wrap(e[i])

\* With what a query has reached, the documents are still a closed set.
LEMMA ShownStock ==
    ASSUME NEW S, IsStock(S), NEW c, IsShown(c, S)
    PROVE  /\ IsStock(S \cup {c}) /\ IsDocument(c) /\ \A i \in 1..Len(c) : c[i].sub \in S
           /\ NoDots(S) => NoDots(S \cup {c})
<1>1. \A e \in S : IsDocument(e) /\ \A i \in 1..Len(e) : e[i].sub \in S /\ IsElement(e[i])
    BY Zenon DEF IsStock, Closed, IsDocument
<1>2. /\ IsDocument(c) /\ \A i \in 1..Len(c) : c[i].sub \in S
      /\ NoDots(S) => \A i \in 1..Len(c) : Len(c[i].name) = 1
    <2>1. CASE c \in S
        BY <1>1, <2>1, Zenon DEF NoDots
    <2>2. CASE \E e \in S : \E i \in 1..Len(e) : c = Wrap(e[i])
        <3>0. PICK e \in S : \E i \in 1..Len(e) : c = Wrap(e[i])
            BY <2>2
        <3>1. PICK i \in 1..Len(e) : c = Wrap(e[i])
            BY <3>0
        <3>2. IsElement(e[i]) /\ e[i].sub \in S
            BY <1>1
        <3>3. IsDocument(c) /\ Len(c) = 1 /\ c[1].name = <<"">> /\ c[1].sub = e[i].sub
            BY <3>1, <3>2, WrapProps, Zenon
        <3>4. Len(<<"">>) = 1 /\ \A j \in 1..1 : j = 1
            OBVIOUS
        <3> QED
            BY <3>2, <3>3, <3>4, Zenon
    <2> QED
        BY <2>1, <2>2 DEF IsShown
<1>3. IsStock(S \cup {c})
    BY <1>1, <1>2, Zenon DEF IsStock, Closed
<1>4. NoDots(S) => NoDots(S \cup {c})
    BY <1>2, Zenon DEF NoDots
<1> QED
    BY <1>2, <1>3, <1>4

\* The next bson_get_bson stays there.
LEMMA ShownNext ==
    ASSUME NEW S, IsStock(S), NEW c, IsShown(c, S), NEW p \in Seq(Labels), BsonGetBson(c, p) # Null
    PROVE  IsShown(BsonGetBson(c, p)[2], S)
<1> DEFINE el == GetFieldDotted(c, p)
           R == S \cup {c}
<1>1. IsStock(R) /\ c \in R /\ IsDocument(c)
    BY ShownStock
<1>2. el # Eoo
    BY BsonGetBsonProps
<1>3. PICK x \in R : \E i \in 1..Len(x) : el = x[i]
    <2> HIDE DEF R
    <2> QED
        BY <1>1, <1>2, DottedElement
<1>4. PICK i \in 1..Len(x) : el = x[i]
    BY <1>3
<1>5. el.sub \in S /\ IsShown(Wrap(el), S)
    <2>1. CASE x \in S
        BY <1>4, <2>1, Zenon DEF IsStock, Closed, IsShown
    <2>2. CASE x \notin S
        <3>1. x = c /\ c \notin S
            BY <1>3, <2>2
        <3>0. PICK e \in S : \E j \in 1..Len(e) : c = Wrap(e[j])
            BY <3>1 DEF IsShown
        <3>2. PICK j \in 1..Len(e) : c = Wrap(e[j])
            BY <3>0
        <3>3. IsElement(e[j]) /\ e[j].sub \in S
            BY Zenon DEF IsStock, Closed, IsDocument
        <3>4. Len(c) = 1 /\ c[1].sub = e[j].sub /\ Wrap(c[1]) = Wrap(e[j])
            BY <3>2, <3>3, WrapProps, Zenon
        <3>5. i = 1
            BY <1>4, <3>1, <3>4
        <3>6. el = c[1]
            BY <1>4, <3>1, <3>5, Zenon
        <3>7. Wrap(el) = Wrap(e[j]) /\ el.sub = e[j].sub
            BY <3>4, <3>6, Zenon
        <3> QED
            BY <3>3, <3>7, Zenon DEF IsShown
    <2> QED
        BY <2>1, <2>2
<1>6. BsonGetBson(c, p) = <<"bson", el.sub>> \/ BsonGetBson(c, p) = <<"bson", Wrap(el)>>
    BY <1>2, BsonGetBsonProps
<1> HIDE DEF el
<1>7. BsonGetBson(c, p)[2] = el.sub \/ BsonGetBson(c, p)[2] = Wrap(el)
    BY <1>6, BsonIsNotNull, Zenon
<1> QED
    BY <1>5, <1>7, Zenon DEF IsShown

-----------------------------------------------------------------------------
(* The full name *)

\* A name is its first label and the rest.
LEMMA TailProps ==
    ASSUME NEW X, NEW p \in Seq(X), p # <<>>
    PROVE  /\ p[1] \in X /\ Head(p) = p[1] /\ Tail(p) \in Seq(X)
           /\ p = <<p[1]>> \o Tail(p) /\ (Tail(p) = <<>> => p = <<p[1]>>)
<1> DEFINE h == p[1]
           t == Tail(p)
<1>1. h \in X /\ Head(p) = h /\ t \in Seq(X) /\ Len(t) = Len(p) - 1 /\ Len(p) \in Nat /\ Len(p) > 0
    OBVIOUS
<1>2. \A i \in 1..Len(t) : t[i] = p[i + 1]
    OBVIOUS
<1> HIDE DEF h, t
<1> DEFINE w == <<h>> \o t
<1>3. w \in Seq(X) /\ Len(w) = Len(p) /\ w[1] = h /\ \A i \in 1..Len(t) : w[i + 1] = t[i]
    BY <1>1
<1>4. \A i \in 1..Len(p) : w[i] = p[i]
    <2> HIDE DEF w
    <2> SUFFICES ASSUME NEW i \in 1..Len(p) PROVE w[i] = p[i]
        OBVIOUS
    <2>1. CASE i = 1
        BY <1>3, <2>1 DEF h
    <2>2. CASE i # 1
        <3>1. i - 1 \in 1..Len(t) /\ (i - 1) + 1 = i
            BY <1>1, <2>2
        <3>2. w[(i - 1) + 1] = t[i - 1] /\ t[i - 1] = p[(i - 1) + 1]
            BY <1>2, <1>3, <3>1
        <3> QED
            BY <3>1, <3>2
    <2> QED
        BY <2>1, <2>2
<1>5. p = w
    <2> HIDE DEF w
    <2> QED
        BY <1>3, <1>4
<1>6. t = <<>> => p = <<h>>
    BY <1>1, <1>5
<1> QED
    BY <1>1, <1>5, <1>6 DEF h, t

\* A name of one label.
LEMMA OneLabel ==
    ASSUME NEW S, IsStock(S), NoDots(S), NEW d \in S, NEW l \in Labels
    PROVE  GetFieldDotted(d, <<l>>) = GetField(d, <<l>>)
<1> DEFINE n == <<l>>
<1>1. n \in Seq(Labels) /\ n # <<>> /\ Len(n) = 1 /\ n[1] = l
    BY LabelProps
<1> HIDE DEF n
<1>2. GetFieldDotted(d, n) = GetField(Walk(d, n)[Len(n) - 1], <<n[Len(n)]>>)
    BY <1>1, PlainDotted
<1>3. Len(n) - 1 = 0 /\ Walk(d, n)[0] = d
    BY <1>1, WalkProps DEF IsWalk
<1>4. Walk(d, n)[Len(n) - 1] = d /\ <<n[Len(n)]>> = n
    BY <1>1, <1>3 DEF n
<1>5. GetFieldDotted(d, n) = GetField(d, n)
    BY <1>2, <1>4, Zenon
<1> QED
    BY <1>5 DEF n

\* Elements that differ in their names at most.
Similar(x, y) ==
    /\ x = Eoo <=> y = Eoo
    /\ x # Eoo => x.type = y.type /\ x.v = y.v /\ x.sub = y.sub /\ Wrap(x) = Wrap(y)

\* Every element is similar to itself.
LEMMA SimilarSelf == \A x : Similar(x, x)
BY Zenon DEF Similar

\* Looking into a wrapped value, by a name that starts with the empty label.
LEMMA WrapLookup ==
    ASSUME NEW S, IsStock(S), NoDots(S), NEW d \in S, NEW i \in 1..Len(d),
           NEW p \in Seq(Labels), p # <<>>
    PROVE  LET c == Wrap(d[i])
           IN  /\ Head(p) # "" => GetFieldDotted(c, p) = Eoo
               /\ Head(p) = "" /\ Tail(p) = <<>> => Similar(d[i], GetFieldDotted(c, p))
               /\ Head(p) = "" /\ Tail(p) # <<>> => GetFieldDotted(c, p) = GetFieldDotted(Sub(d[i]), Tail(p))
<1> DEFINE c == Wrap(d[i])
           R == S \cup {c}
           h == p[1]
           t == Tail(p)
           f == GetField(c, <<h>>)
<1>1. IsShown(c, S)
    BY DEF IsShown
<1>2. IsStock(R) /\ NoDots(R) /\ c \in R /\ IsDocument(c)
    BY <1>1, ShownStock, Zenon
<1>3. IsElement(d[i])
    BY Zenon DEF IsStock, Closed, IsDocument
<1>4. /\ Len(c) = 1 /\ c[1].name = <<"">> /\ c[1].type = d[i].type /\ c[1].v = d[i].v /\ c[1].sub = d[i].sub
      /\ Wrap(c[1]) = Wrap(d[i])
    BY <1>3, WrapProps, Zenon
<1>0. 1 \in 1..Len(c) /\ \A j \in 1..Len(c) : j = 1
    <2>1. 1 \in 1..1 /\ \A j \in 1..1 : j = 1
        OBVIOUS
    <2> QED
        BY <1>4, <2>1, Zenon
<1>5. IsElement(c[1])
    BY <1>0, <1>2, Zenon DEF IsDocument
<1>6. /\ h \in Labels /\ Head(p) = h /\ t \in Seq(Labels)
      /\ p = <<h>> \o t /\ (t = <<>> => p = <<h>>)
    BY TailProps
<1>7. <<h>> \in Seq(Labels) /\ <<h>> # <<>> /\ (h # "" => <<h>> # <<"">>)
    <2>1. <<h>> \in Seq(Labels) /\ <<h>> # <<>> /\ <<h>>[1] = h
        BY <1>6, LabelProps
    <2>2. <<"">>[1] = ""
        BY EmptyLabel, Zenon
    <2> QED
        BY <2>1, <2>2, Zenon
<1> HIDE DEF c, R, h, t
<1>8. GetFieldDotted(c, <<h>>) = f
    BY <1>2, <1>6, OneLabel
<1>9. f = IF h = "" THEN c[1] ELSE Eoo
    <2>1. \/ f = Eoo /\ \A j \in 1..Len(c) : c[j].name # <<h>>
          \/ \E j \in 1..Len(c) : f = c[j] /\ c[j].name = <<h>>
        BY <1>2, GetFieldProps
    <2> HIDE DEF f
    <2> QED
        BY <1>0, <1>4, <1>7, <2>1, Zenon
<1>10. t # <<>> => GetFieldDotted(c, p) = GetFieldDotted(Sub(f), t)
    <2>1. ASSUME t # <<>> PROVE GetFieldDotted(c, <<h>> \o t) = GetFieldDotted(Sub(GetFieldDotted(c, <<h>>)), t)
        <3>1. <<h>> \in Seq(Labels) /\ <<h>> # <<>> /\ t \in Seq(Labels)
            BY <1>6, <1>7, Zenon
        <3> QED
            BY <1>2, <2>1, <3>1, DottedConcat, ZenonT(30)
    <2> QED
        BY <1>6, <1>8, <2>1, Zenon
<1> HIDE DEF f
<1>11. t = <<>> => GetFieldDotted(c, p) = f
    BY <1>6, <1>8, Zenon
<1>12. Sub(Eoo) = <<>> /\ Sub(c[1]) = Sub(d[i])
    <2>1. Eoo.type \notin {"object", "array"}
        BY DEF Eoo
    <2> QED
        BY <1>4, <2>1, Zenon DEF Sub
<1>13. ASSUME h # "" PROVE GetFieldDotted(c, p) = Eoo
    <2>1. GetFieldDotted(<<>>, t) = Eoo
        BY <1>6, DottedEmpty
    <2> QED
        BY <1>9, <1>10, <1>11, <1>12, <1>13, <2>1, Zenon
<1>14. ASSUME h = "", t = <<>> PROVE Similar(d[i], GetFieldDotted(c, p))
    <2>1. GetFieldDotted(c, p) = c[1]
        BY <1>9, <1>11, <1>14, Zenon
    <2>2. c[1] # Eoo /\ d[i] # Eoo
        BY <1>3, <1>5, ElementIsNotEoo
    <2>3. Similar(d[i], c[1])
        BY <1>4, <2>2, Zenon DEF Similar
    <2> QED
        BY <2>1, <2>3, Zenon
<1>15. ASSUME h = "", t # <<>> PROVE GetFieldDotted(c, p) = GetFieldDotted(Sub(d[i]), t)
    BY <1>9, <1>10, <1>12, <1>15, Zenon
<1> QED
    BY <1>6, <1>13, <1>14, <1>15, Zenon DEF c, t

-----------------------------------------------------------------------------
(* The invariant *)

\* The documents a query can come by.
Stock(d) == Inside(d) \cup {<<>>}

\* The query is at a document or a wrapped value of the document; if no name has a
\* dot it is the one that the full name leads to, and what was read last is what
\* the full name reads.
QueryInv ==
    /\ doc \in Docs /\ IsShown(cur, Stock(doc))
    /\ trail \in Seq(Labels) /\ Len(trail) <= MaxTrail
    /\ read.getter \in Getters \cup {"none"} /\ read.name \in Seq(Labels)
    /\ Plain(doc) =>
           /\ trail = <<>> => cur = doc
           /\ trail # <<>> => BsonGetBson(doc, trail) = <<"bson", cur>>
           /\ read.getter # "none" => read.res = BsonGet(read.getter, doc, read.name)

\* The documents inside one, and the empty document, are a closed set.
LEMMA StockProps ==
    ASSUME NEW d \in Docs
    PROVE  IsStock(Stock(d)) /\ d \in Stock(d) /\ (Plain(d) => NoDots(Stock(d)))
<1>1. d \in Inside(d) /\ Closed(Inside(d))
    BY InsideClosed
<1>2. IsDocument(<<>>) /\ \A i \in 1..Len(<<>>) : FALSE
    BY EmptyDocument
<1>3. \A e \in Stock(d) : e \in Inside(d) \/ e = <<>>
    BY DEF Stock
<1>4. \A e \in Inside(d) : e \in Stock(d)
    BY DEF Stock
<1>5. <<>> \in Stock(d)
    BY DEF Stock
<1>6. Closed(Stock(d))
    BY <1>1, <1>2, <1>3, <1>4, Zenon DEF Closed
<1>7. Plain(d) => NoDots(Stock(d))
    BY <1>2, <1>3, Zenon DEF Plain, NoDots
<1> QED
    BY <1>1, <1>4, <1>5, <1>6, <1>7, Zenon DEF IsStock

\* The full name of what a path names is a name.
LEMMA FullNameType ==
    ASSUME trail \in Seq(Labels), NEW p \in Paths
    PROVE  FullName(p) \in Seq(Labels) /\ FullName(p) # <<>> /\ p \in Seq(Labels) /\ p # <<>>
<1>1. p \in Seq(Labels) /\ p # <<>>
    BY FieldAccessAssumption, Zenon
<1> DEFINE r == IF Wrapped THEN Tail(p) ELSE p
<1>2. r \in Seq(Labels)
    BY <1>1, TailProps
<1>3. Wrapped => trail # <<>>
    BY DEF Wrapped
<1>4. ~Wrapped => r # <<>>
    BY <1>1
<1>5. FullName(p) = trail \o r
    BY DEF FullName
<1> HIDE DEF r, Wrapped
<1>6. \A u, z \in Seq(Labels) : u \o z \in Seq(Labels) /\ (u # <<>> \/ z # <<>> => u \o z # <<>>)
    OBVIOUS
<1> QED
    BY <1>1, <1>2, <1>3, <1>4, <1>5, <1>6, Zenon

\* Concatenation with the empty sequence.
LEMMA EmptyConcat ==
    ASSUME NEW X, NEW u \in Seq(X)
    PROVE  <<>> \o u = u /\ u \o <<>> = u
OBVIOUS

\* A field of what the query has reached is the field of the full name.
LEMMA SameField ==
    ASSUME QueryInv, Plain(doc), NEW p \in Paths
    PROVE  /\ Wrapped /\ Head(p) # "" => GetFieldDotted(cur, p) = Eoo
           /\ (Wrapped => Head(p) = "") => Similar(GetFieldDotted(doc, FullName(p)), GetFieldDotted(cur, p))
<1> DEFINE S == Stock(doc)
           el == GetFieldDotted(doc, trail)
<1>1. IsStock(S) /\ doc \in S /\ NoDots(S)
    BY StockProps DEF QueryInv
<1>2. p \in Seq(Labels) /\ p # <<>> /\ trail \in Seq(Labels)
    BY FullNameType DEF QueryInv
<1> HIDE DEF S
<1>3. CASE trail = <<>>
    <2>1. cur = doc /\ ~Wrapped
        BY <1>3 DEF QueryInv, Wrapped
    <2>2. FullName(p) = p
        BY <1>2, <1>3, <2>1, EmptyConcat DEF FullName
    <2> QED
        BY <2>1, <2>2, SimilarSelf, Zenon
<1>4. CASE trail # <<>>
    <2>1. BsonGetBson(doc, trail) = <<"bson", cur>>
        BY <1>4 DEF QueryInv
    <2>2. el # Eoo
        BY <2>1, BsonGetBsonProps, BsonIsNotNull
    <2>3. PICK x \in S : \E i \in 1..Len(x) : el = x[i]
        BY <1>1, <1>2, <2>2, DottedElement
    <2>4. PICK i \in 1..Len(x) : el = x[i]
        BY <2>3
    <2>5. Wrapped <=> el.type # "object"
        BY <1>4 DEF Wrapped
    <2>6. \A n \in Seq(Labels) : n # <<>> => GetFieldDotted(doc, trail \o n) = GetFieldDotted(Sub(el), n)
        BY <1>1, <1>2, <1>4, DottedConcat
    <2>7. CASE ~Wrapped
        <3>1. BsonGetBson(doc, trail) = <<"bson", el.sub>>
            BY <2>2, <2>5, <2>7, BsonGetBsonProps
        <3>2. cur = el.sub
            BY <2>1, <3>1, BsonIsNotNull, Zenon
        <3>3. Sub(el) = el.sub
            BY <2>5, <2>7 DEF Sub
        <3>4. FullName(p) = trail \o p
            BY <2>7 DEF FullName
        <3>5. GetFieldDotted(doc, FullName(p)) = GetFieldDotted(cur, p)
            BY <1>2, <2>6, <3>2, <3>3, <3>4, Zenon
        <3> QED
            BY <2>7, <3>5, SimilarSelf, Zenon
    <2>8. CASE Wrapped
        <3>1. BsonGetBson(doc, trail) = <<"bson", Wrap(el)>>
            BY <2>2, <2>5, <2>8, BsonGetBsonProps
        <3> DEFINE w == Wrap(el)
        <3>a. <<"bson", cur>> = <<"bson", w>>
            BY <2>1, <3>1, Zenon
        <3> HIDE DEF w
        <3>b. cur = w
            BY <3>a
        <3>c. cur = Wrap(el)
            BY <3>b DEF w
        <3>2. cur = Wrap(x[i])
            BY <2>4, <3>c
        <3>3. FullName(p) = trail \o Tail(p) /\ Tail(p) \in Seq(Labels)
            BY <1>2, <2>8, TailProps DEF FullName
        <3>4. /\ Head(p) # "" => GetFieldDotted(cur, p) = Eoo
              /\ Head(p) = "" /\ Tail(p) = <<>> => Similar(x[i], GetFieldDotted(cur, p))
              /\ Head(p) = "" /\ Tail(p) # <<>> => GetFieldDotted(cur, p) = GetFieldDotted(Sub(x[i]), Tail(p))
            BY <1>1, <1>2, <3>2, WrapLookup, Zenon
        <3>5. CASE Tail(p) = <<>>
            <4>1. FullName(p) = trail
                BY <1>2, <3>3, <3>5, EmptyConcat, Zenon
            <4>2. GetFieldDotted(doc, FullName(p)) = x[i]
                BY <2>4, <4>1, Zenon
            <4> QED
                BY <2>8, <3>4, <3>5, <4>2, Zenon
        <3>6. CASE Tail(p) # <<>>
            <4>1. GetFieldDotted(doc, FullName(p)) = GetFieldDotted(Sub(x[i]), Tail(p))
                BY <2>4, <2>6, <3>3, <3>6, Zenon
            <4> QED
                BY <2>8, <3>4, <3>6, <4>1, SimilarSelf, Zenon
        <3> QED
            BY <3>5, <3>6, Zenon
    <2> QED
        BY <2>7, <2>8, Zenon
<1> QED
    BY <1>3, <1>4, Zenon

\* The getters look at the type and the value only.
LEMMA SimilarReads ==
    ASSUME NEW d, NEW n, NEW c, NEW p, Similar(GetFieldDotted(d, n), GetFieldDotted(c, p))
    PROVE  /\ BsonGetBson(d, n) = BsonGetBson(c, p)
           /\ \A g \in Getters : BsonGet(g, d, n) = BsonGet(g, c, p)
<1> DEFINE x == GetFieldDotted(d, n)
           y == GetFieldDotted(c, p)
<1>1. /\ x = Eoo <=> y = Eoo
      /\ x # Eoo => x.type = y.type /\ x.v = y.v /\ x.sub = y.sub /\ Wrap(x) = Wrap(y)
    BY DEF Similar
<1>2. /\ x = Eoo => BsonGetBson(d, n) = Null
      /\ x # Eoo /\ x.type = "object" => BsonGetBson(d, n) = <<"bson", x.sub>>
      /\ x # Eoo /\ x.type # "object" => BsonGetBson(d, n) = <<"bson", Wrap(x)>>
    BY BsonGetBsonProps, SMTT(30)
<1>3. /\ y = Eoo => BsonGetBson(c, p) = Null
      /\ y # Eoo /\ y.type = "object" => BsonGetBson(c, p) = <<"bson", y.sub>>
      /\ y # Eoo /\ y.type # "object" => BsonGetBson(c, p) = <<"bson", Wrap(y)>>
    BY BsonGetBsonProps
<1>4. BsonGetBson(d, n) = BsonGetBson(c, p)
    <2> HIDE DEF x, y
    <2> QED
        BY <1>1, <1>2, <1>3, Zenon
<1>5. ASSUME NEW g \in Getters PROVE BsonGet(g, d, n) = BsonGet(g, c, p)
    <2> DEFINE V(e) == CASE g = "text" -> ConvertText(e)
                         [] g = "int" -> ConvertInt(e)
                         [] g = "double" -> ConvertDouble(e)
                         [] g = "bigint" -> ConvertBigint(e)
    <2>1. BsonGet(g, d, n) = IF x = Eoo THEN Null ELSE V(x)
        BY DEF BsonGet
    <2>2. BsonGet(g, c, p) = IF y = Eoo THEN Null ELSE V(y)
        BY DEF BsonGet
    <2>3. ASSUME x # Eoo PROVE V(x) = V(y)
        <3>1. x.type = y.type /\ x.v = y.v
            BY <1>1, <2>3
        <3> HIDE DEF x, y
        <3>2. ConvertText(x) = ConvertText(y)
            BY <3>1, SMTT(30) DEF ConvertText
        <3>3. ConvertInt(x) = ConvertInt(y) /\ ConvertDouble(x) = ConvertDouble(y) /\ ConvertBigint(x) = ConvertBigint(y)
            BY <3>1 DEF ConvertInt, ConvertDouble, ConvertBigint
        <3> QED
            BY <3>2, <3>3, SMTT(30)
    <2> HIDE DEF x, y, V
    <2>4. CASE x = Eoo
        BY <1>1, <2>1, <2>2, <2>4, SMTT(30)
    <2>5. CASE x # Eoo
        BY <1>1, <2>1, <2>2, <2>3, <2>5, SMTT(30)
    <2> QED
        BY <2>4, <2>5
<1> QED
    BY <1>4, <1>5, SMTT(30)

\* A getter returns NULL only if there is no field.
LEMMA GetterIsNull ==
    ASSUME NEW g \in Getters, NEW d, NEW n
    PROVE  /\ BsonGet(g, d, n) = Null <=> GetFieldDotted(d, n) = Eoo
           /\ BsonGetBson(d, n) = Null <=> GetFieldDotted(d, n) = Eoo
<1> DEFINE e == GetFieldDotted(d, n)
           V == CASE g = "text" -> ConvertText(e)
                  [] g = "int" -> ConvertInt(e)
                  [] g = "double" -> ConvertDouble(e)
                  [] g = "bigint" -> ConvertBigint(e)
<1>1. BsonGet(g, d, n) = IF e = Eoo THEN Null ELSE V
    BY DEF BsonGet
<1> HIDE DEF e
<1>2. ConvertInt(e) # Null /\ ConvertDouble(e) # Null /\ ConvertBigint(e) # Null
    BY DEF ConvertInt, ConvertDouble, ConvertBigint, Null, Error
<1>3. ConvertText(e) # Null
    <2>1. \A a, b : <<"text", a, b>> # Null
        BY DEF Null
    <2>2. Error # Null
        BY DEF Error, Null
    <2> HIDE DEF Error, Null
    <2> QED
        BY <2>1, <2>2 DEF ConvertText
<1>4. V # Null
    BY <1>2, <1>3 DEF Getters
<1>5. BsonGetBson(d, n) = Null <=> e = Eoo
    BY BsonGetBsonProps, BsonIsNotNull DEF e
<1> HIDE DEF V
<1> QED
    BY <1>1, <1>4, <1>5 DEF e

\* The getters on a field that bson_get_int can read.
LEMMA IntReads ==
    ASSUME NEW S, IsStock(S), NEW d \in S, NEW n \in Seq(Labels),
           BsonGet("int", d, n) # Null, BsonGet("int", d, n) # Error
    PROVE  LET m == BsonGet("int", d, n)[2]
           IN  /\ BsonGet("bigint", d, n) = <<"int8", m>> /\ BsonGet("double", d, n) = <<"float8", m>>
               /\ BsonGet("text", d, n) = <<"text", "decimal", <<m>>>>
<1> DEFINE e == GetFieldDotted(d, n)
<1>1. /\ BsonGet("int", d, n) = IF e = Eoo THEN Null ELSE ConvertInt(e)
      /\ BsonGet("bigint", d, n) = IF e = Eoo THEN Null ELSE ConvertBigint(e)
      /\ BsonGet("double", d, n) = IF e = Eoo THEN Null ELSE ConvertDouble(e)
      /\ BsonGet("text", d, n) = IF e = Eoo THEN Null ELSE ConvertText(e)
    BY DEF BsonGet
<1>2. e # Eoo
    BY <1>1
<1>3. PICK x \in S : \E i \in 1..Len(x) : e = x[i]
    BY <1>2, DottedElement
<1>4. IsElement(e)
    BY <1>3, Zenon DEF IsStock, Closed, IsDocument
<1> HIDE DEF e
<1>5. e.type = "int"
    BY <1>1, <1>2, SMTT(30) DEF ConvertInt
<1>6. e.v = <<e.v[1]>>
    <2> DEFINE v == e.v
    <2>1. v \in Seq(Int) /\ Len(v) = 1
        BY <1>4, <1>5 DEF IsElement
    <2> HIDE DEF v
    <2>2. v = <<v[1]>>
        BY <2>1
    <2> QED
        BY <2>2, SMTT(30) DEF v
<1>7. ConvertInt(e) = <<"int4", e.v[1]>> /\ ConvertBigint(e) = <<"int8", e.v[1]>> /\ ConvertDouble(e) = <<"float8", e.v[1]>>
    BY <1>5 DEF ConvertInt, ConvertBigint, ConvertDouble
<1>8. ConvertText(e) = <<"text", "decimal", e.v>>
    BY <1>5 DEF ConvertText
<1>9. \A z : <<"int4", z>>[2] = z
    OBVIOUS
<1> QED
    BY <1>1, <1>2, <1>6, <1>7, <1>8, <1>9, Zenon

\* A query starts at the whole document.
LEMMA QueryStarts == InitQuery => QueryInv
<1> SUFFICES ASSUME InitQuery PROVE QueryInv
    OBVIOUS
<1>1. doc \in Docs /\ cur = doc /\ trail = <<>> /\ read = Nothing
    BY DEF InitQuery
<1>2. IsShown(cur, Stock(doc))
    BY <1>1, StockProps, Zenon DEF IsShown
<1>3. trail \in Seq(Labels) /\ Len(trail) <= MaxTrail
    <2>1. MaxTrail \in Nat
        BY FieldAccessAssumption, Zenon
    <2>2. <<>> \in Seq(Labels) /\ Len(<<>>) = 0 /\ 0 <= MaxTrail
        BY <2>1
    <2> QED
        BY <1>1, <2>2, Zenon
<1>4. read.getter = "none" /\ read.name = <<>>
    BY <1>1 DEF Nothing
<1>5. read.getter \in Getters \cup {"none"} /\ read.name \in Seq(Labels)
    BY <1>4
<1> QED
    BY <1>1, <1>2, <1>3, <1>4, <1>5, Zenon DEF QueryInv

\* bson_get_bson goes one step down.
LEMMA GetBsonKeeps ==
    ASSUME QueryInv, NEW p \in Paths, GetBson(p)
    PROVE  QueryInv'
<1>1. /\ Len(FullName(p)) <= MaxTrail /\ BsonGetBson(cur, p) # Null
      /\ cur' = BsonGetBson(cur, p)[2] /\ trail' = FullName(p) /\ read' = Nothing /\ doc' = doc
    BY DEF GetBson
<1>2. doc \in Docs /\ trail \in Seq(Labels) /\ IsShown(cur, Stock(doc))
    BY DEF QueryInv
<1>3. FullName(p) \in Seq(Labels) /\ FullName(p) # <<>> /\ p \in Seq(Labels)
    BY <1>2, FullNameType
<1>4. IsShown(cur', Stock(doc))
    BY <1>1, <1>2, <1>3, StockProps, ShownNext, SMTT(30)
<1>5. read'.getter = "none" /\ read'.name = <<>>
    BY <1>1 DEF Nothing
<1>6. read'.getter \in Getters \cup {"none"} /\ read'.name \in Seq(Labels)
    BY <1>5
<1>7. ASSUME Plain(doc) PROVE BsonGetBson(doc, FullName(p)) = <<"bson", cur'>>
    <2>1. GetFieldDotted(cur, p) # Eoo
        BY <1>1, BsonGetBsonProps
    <2>2. Similar(GetFieldDotted(doc, FullName(p)), GetFieldDotted(cur, p))
        BY <1>7, <2>1, SameField, Zenon
    <2>3. BsonGetBson(doc, FullName(p)) = BsonGetBson(cur, p)
        BY <2>2, SimilarReads
    <2> DEFINE e == GetFieldDotted(cur, p)
    <2>4. \E z : BsonGetBson(cur, p) = <<"bson", z>>
        BY <2>1, BsonGetBsonProps
    <2>5. BsonGetBson(cur, p) = <<"bson", BsonGetBson(cur, p)[2]>>
        BY <2>4, BsonIsNotNull, Zenon
    <2> QED
        BY <1>1, <2>3, <2>5, SMTT(30)
<1>8. /\ doc' \in Docs /\ IsShown(cur', Stock(doc')) /\ trail' \in Seq(Labels) /\ Len(trail') <= MaxTrail
      /\ trail' # <<>> /\ (Plain(doc') => BsonGetBson(doc', trail') = <<"bson", cur'>>)
    BY <1>1, <1>2, <1>3, <1>4, <1>7
<1> QED
    BY <1>5, <1>6, <1>8, Zenon DEF QueryInv

\* A typed getter reads and stays where it is.
LEMMA GetKeeps ==
    ASSUME QueryInv, NEW p \in Paths, NEW g \in Getters, Get(g, p)
    PROVE  QueryInv'
<1>1. /\ Wrapped => Head(p) = ""
      /\ read' = [name |-> FullName(p), getter |-> g, res |-> BsonGet(g, cur, p)]
      /\ doc' = doc /\ cur' = cur /\ trail' = trail
    BY Zenon DEF Get
<1>2. read'.name = FullName(p) /\ read'.getter = g /\ read'.res = BsonGet(g, cur, p)
    BY <1>1, Zenon
<1>3. FullName(p) \in Seq(Labels)
    BY FullNameType DEF QueryInv
<1>4. ASSUME Plain(doc) PROVE BsonGet(g, doc, FullName(p)) = BsonGet(g, cur, p)
    <2>1. Similar(GetFieldDotted(doc, FullName(p)), GetFieldDotted(cur, p))
        BY <1>1, <1>4, SameField, Zenon
    <2>2. \A h \in Getters : BsonGet(h, doc, FullName(p)) = BsonGet(h, cur, p)
        BY <2>1, SimilarReads
    <2> QED
        BY <2>2, Zenon
<1>5. g \in Getters \cup {"none"}
    OBVIOUS
<1> QED
    BY <1>1, <1>2, <1>3, <1>4, <1>5, Zenon DEF QueryInv

\* A query keeps to the document: the invariant the properties follow from.
THEOREM QueryInvariant == QuerySpec => []QueryInv
<1>1. QueryInv /\ [NextQuery]_query => QueryInv'
    <2> SUFFICES ASSUME QueryInv, [NextQuery]_query PROVE QueryInv'
        OBVIOUS
    <2>1. ASSUME NEW p \in Paths, GetBson(p) PROVE QueryInv'
        BY <2>1, GetBsonKeeps
    <2>2. ASSUME NEW p \in Paths, NEW g \in Getters, Get(g, p) PROVE QueryInv'
        BY <2>2, GetKeeps
    <2>3. CASE UNCHANGED query
        <3>1. doc' = doc /\ cur' = cur /\ trail' = trail /\ read' = read
            BY <2>3 DEF query
        <3> QED
            BY <3>1, Zenon DEF QueryInv
    <2> QED
        BY <2>1, <2>2, <2>3 DEF NextQuery
<1> QED
    BY <1>1, QueryStarts, PTL DEF QuerySpec

\* Every bson_get_bson returns a well formed document, whatever it wraps.
THEOREM QueryTypeCorrect == QuerySpec => []QueryTypeOK
<1>1. QueryInv => QueryTypeOK
    <2> SUFFICES ASSUME QueryInv PROVE QueryTypeOK
        OBVIOUS
    <2>1. doc \in Docs /\ IsShown(cur, Stock(doc)) /\ Len(trail) <= MaxTrail /\ read.getter \in Getters \cup {"none"}
        BY DEF QueryInv
    <2>2. IsStock(Stock(doc))
        BY <2>1, StockProps
    <2>3. IsDocument(cur) /\ \A i \in 1..Len(cur) : cur[i].sub \in Stock(doc)
        BY <2>1, <2>2, ShownStock, Zenon
    <2>4. WellFormed(cur)
        BY <2>2, <2>3, InsideWellFormed DEF IsStock
    <2> QED
        BY <2>1, <2>4 DEF QueryTypeOK
<1> QED
    BY <1>1, QueryInvariant, PTL

\* bson_get_bson inside bson_get_bson leads to what the full dotted name leads to,
\* for documents of any depth without a dot in a name.
THEOREM StepsLeadToFullName == QuerySpec => []StepsAgree
<1>1. QueryInv => StepsAgree
    BY Zenon DEF QueryInv, StepsAgree
<1> QED
    BY <1>1, QueryInvariant, PTL

\* bson_get_text, bson_get_int, bson_get_double and bson_get_bigint read from a
\* nested document what the full name reads, find the same fields, and agree on
\* every number that bson_get_int can read.
THEOREM GettersReadAlike == QuerySpec => []GettersAgree
<1>1. QueryInv => GettersAgree
    <2> SUFFICES ASSUME QueryInv, Plain(doc), read.getter # "none", read.name # <<>>
                 PROVE  LET res(g) == BsonGet(g, doc, read.name)
                        IN  /\ read.res = res(read.getter)
                            /\ read.res = Null <=> BsonGetBson(doc, read.name) = Null
                            /\ res("int") \notin {Null, Error} =>
                                  LET n == res("int")[2]
                                  IN  /\ res("bigint") = <<"int8", n>> /\ res("double") = <<"float8", n>>
                                      /\ res("text") = <<"text", "decimal", <<n>>>>
        BY ZenonT(30) DEF GettersAgree
    <2>1. read.getter \in Getters /\ doc \in Docs /\ read.name \in Seq(Labels)
        BY SMTT(30) DEF QueryInv
    <2>2. read.res = BsonGet(read.getter, doc, read.name)
        BY SMTT(30) DEF QueryInv
    <2>3. read.res = Null <=> BsonGetBson(doc, read.name) = Null
        BY <2>1, <2>2, GetterIsNull, SMTT(30)
    <2>4. IsStock(Stock(doc)) /\ doc \in Stock(doc)
        BY <2>1, StockProps, SMTT(30)
    <2>5. ASSUME BsonGet("int", doc, read.name) \notin {Null, Error}
          PROVE  LET n == BsonGet("int", doc, read.name)[2]
                 IN  /\ BsonGet("bigint", doc, read.name) = <<"int8", n>>
                     /\ BsonGet("double", doc, read.name) = <<"float8", n>>
                     /\ BsonGet("text", doc, read.name) = <<"text", "decimal", <<n>>>>
        BY <2>1, <2>4, <2>5, IntReads
    <2> QED
        BY <2>2, <2>3, <2>5, Zenon
<1> QED
    BY <1>1, QueryInvariant, PTL
=============================================================================
