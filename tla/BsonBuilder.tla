---------------------------- MODULE BsonBuilder ----------------------------
(***************************************************************************)
(* BSONObjBuilder over _BufBuilder: one root builder that owns a malloc'ed *)
(* buffer, and the stack of sub-builders that C++ scoping keeps open on    *)
(* it.  Every append goes through grow(), which doubles the buffer up to   *)
(* BufferMaxSize and throws past it; done() and the destructor of a        *)
(* sub-builder terminate a document and patch its size field; obj() hands  *)
(* the buffer to a reference counted Holder.                               *)
(*                                                                         *)
(* The buffer's bytes are abstracted to the positions a reader looks at:   *)
(* cells maps the offset of a type byte, a size field or a terminator to   *)
(* what is stored there.                                                   *)
(***************************************************************************)
EXTENDS Integers, Sequences

CONSTANTS
    InitSize,      \* capacity the root builder starts with (512 + 4)
    MinAlloc,      \* first capacity grow_reallocate tries (64)
    MaxDoublings,  \* doublings of MinAlloc the loop is followed for
    BufferMaxSize, \* limit past which grow_reallocate throws (64MB)
    MaxInternal,   \* BSONObjMaxInternalSize, the largest valid document
    NameSizes,     \* widths of field names, terminator included
    ValueSizes,    \* <<length prefix, body>> widths of values
    MaxDepth,      \* bound on nested builders
    MaxRefs        \* bound on copies of the finished BSONObj

RefCount == 4      \* sizeof(unsigned), in front of the root document
SizeField == 4     \* the int at the start of every document

\* The capacities the loop of grow_reallocate runs through.
Doubled == {MinAlloc * 2^k : k \in 0..MaxDoublings}

ASSUME BuilderAssumption ==
    /\ {MinAlloc, MaxDoublings, MaxInternal, MaxDepth, MaxRefs} \subseteq Nat
    /\ Doubled \subseteq Nat
    /\ InitSize \in Nat /\ InitSize >= RefCount + SizeField
    /\ BufferMaxSize \in Nat /\ InitSize <= BufferMaxSize
    /\ NameSizes \subseteq Nat \ {0}
    /\ ValueSizes \subseteq Nat \X Nat

VARIABLES
    l, size,  \* _BufBuilder's length and capacity
    cells,    \* what the buffer holds, by offset
    levels,   \* builders in scope, root first: _offset and _doneCalled
    data,     \* _BufBuilder::data is not NULL
    oom,      \* realloc() has returned NULL
    refs,     \* reference count of the Holder, 0 before obj()
    frees,    \* calls of free() on the buffer
    phase     \* what the thread does: see TypeOK

vars == <<l, size, cells, levels, data, oom, refs, frees, phase>>
mem == <<data, oom, refs, frees>>

CellSet == [k : {"elem", "sub", "size", "eoo", "torn"}, w : Nat]
Level == [off : Nat, done : BOOLEAN]

\* Building; obj() has returned, the root builder is gone after it; an
\* exception is in flight, the root builder is gone after it; std::terminate().
Phase == {"build", "built", "returned", "unwind", "failed", "terminated"}

TypeOK ==
    /\ l \in Nat /\ size \in Nat
    /\ DOMAIN cells \subseteq Nat
    /\ cells \in [DOMAIN cells -> CellSet]
    /\ levels \in Seq(Level)
    /\ data \in BOOLEAN /\ oom \in BOOLEAN /\ refs \in Nat /\ frees \in Nat
    /\ phase \in Phase

-----------------------------------------------------------------------------
(* The buffer *)

\* grow() to length n succeeds: the capacity suffices, or some capacity
\* grow_reallocate can stop at does.
Fits(n) == n <= size \/ \E a \in Doubled : n <= a /\ a <= BufferMaxSize

\* The capacity after a successful grow() to length n.
Grown(n) ==
    IF n <= size THEN size
    ELSE CHOOSE a \in Doubled : /\ n <= a
                                /\ \A b \in Doubled : n <= b => a <= b

GrowTo(n) == l' = n /\ size' = Grown(n)

Put(f, x, v) == [y \in DOMAIN f \cup {x} |-> IF y = x THEN v ELSE f[y]]

Cell(kind, width) == [k |-> kind, w |-> width]

Top == levels[Len(levels)]

\* Mutant of GrowThrows: a full buffer is not reallocated.
MutGrowNever(n, cap) ==
    /\ n > cap
    /\ UNCHANGED <<data, oom, refs, frees>>

\* grow() to length n from capacity cap throws and leaves l and size alone:
\* 13548 past the limit, or 16070 when realloc() fails, which has already
\* replaced the only pointer to the old block by NULL.
GrowThrows(n, cap) ==
    /\ \/ ~Fits(n) /\ UNCHANGED <<data, oom>>
       \/ Fits(n) /\ n > cap /\ data' = FALSE /\ oom' = TRUE
    /\ UNCHANGED <<refs, frees>>

\* One of the grow() calls of an operation throws.  They end at the lengths
\* ends[1] < ends[2] < ...; what the earlier calls wrote stays.
ThrowsIn(ends) ==
    /\ \/ GrowThrows(ends[1], size) /\ UNCHANGED <<l, size, cells>>
       \/ \E i \in 1..(Len(ends) - 1) :
             /\ Fits(ends[i])
             /\ GrowThrows(ends[i + 1], Grown(ends[i]))
             /\ GrowTo(ends[i])
             /\ cells' = Put(cells, l, Cell("torn", 0))
    /\ phase' = "unwind"
    /\ UNCHANGED levels

-----------------------------------------------------------------------------
(* Operations of the builders in scope *)

Init ==
    /\ l = RefCount + SizeField
    /\ size = InitSize
    /\ cells = Put(<<>>, RefCount, Cell("size", 0))
    /\ levels = <<[off |-> RefCount, done |-> FALSE]>>
    /\ data = TRUE /\ oom = FALSE /\ refs = 0 /\ frees = 0
    /\ phase = "build"

\* append(name, value) on the innermost builder: type byte, name, length
\* prefix (strings), body; one grow() each.
AppendValue(n, v) ==
    LET ends == <<l + 1, l + 1 + n, l + 1 + n + v[1], l + 1 + n + v[1] + v[2]>>
    IN  /\ phase = "build" /\ ~Top.done
        /\ \/ /\ Fits(ends[4])
              /\ GrowTo(ends[4])
              /\ cells' = Put(cells, l, Cell("elem", ends[4] - l))
              /\ UNCHANGED <<levels, mem, phase>>
           \/ ThrowsIn(ends)

\* subobjStart / subarrayStart followed by the sub-builder's constructor.
SubStart(n) ==
    LET ends == <<l + 1, l + 1 + n, l + 1 + n + SizeField>>
    IN  /\ phase = "build" /\ ~Top.done
        /\ Len(levels) < MaxDepth
        /\ \/ /\ Fits(ends[3])
              /\ GrowTo(ends[3])
              /\ cells' = Put(Put(cells, l, Cell("sub", 1 + n)),
                              ends[2], Cell("size", 0))
              /\ levels' = Append(levels, [off |-> ends[2], done |-> FALSE])
              /\ UNCHANGED <<mem, phase>>
           \/ ThrowsIn(ends)

\* Mutant of Seal: the length is taken before the terminator is appended.
MutSealShort ==
    /\ GrowTo(l + 1)
    /\ cells' = Put(Put(cells, l, Cell("eoo", 1)), Top.off, Cell("size", l - Top.off))

\* _done() on the innermost builder, when the terminator fits: EOO, then the
\* size field at _offset.
Seal ==
    /\ GrowTo(l + 1)
    /\ cells' = Put(Put(cells, l, Cell("eoo", 1)),
                    Top.off, Cell("size", l + 1 - Top.off))

\* _doneCalled is set before the terminator is written.
SetDone == levels' = [levels EXCEPT ![Len(levels)] = [off |-> Top.off, done |-> TRUE]]
Pop == levels' = SubSeq(levels, 1, Len(levels) - 1)

\* isValid() of the document the innermost builder is about to seal.
Valid == l + 1 - Top.off <= MaxInternal

\* done() on a sub-builder: the BSONObj it returns checks the size.
Done ==
    /\ phase = "build" /\ Len(levels) > 1 /\ ~Top.done
    /\ SetDone
    /\ \/ /\ Fits(l + 1)
          /\ Seal
          /\ phase' = IF Valid THEN phase ELSE "unwind"
          /\ UNCHANGED mem
       \/ /\ GrowThrows(l + 1, size)
          /\ phase' = "unwind"
          /\ UNCHANGED <<l, size, cells>>

\* Mutants of DestroySub: without the check of _doneCalled; without the check
\* of buf(), so that the destructor never gets past a lost buffer.
MutDestroyTwice ==
    /\ Len(levels) > 1 /\ data /\ Fits(l + 1)
    /\ Seal /\ Pop
    /\ UNCHANGED <<mem, phase>>
MutDestroyLost ==
    /\ Len(levels) > 1 /\ Pop
    /\ \/ ~Top.done /\ data /\ Fits(l + 1) /\ Seal
       \/ Top.done /\ UNCHANGED <<l, size, cells>>
    /\ UNCHANGED <<mem, phase>>

\* ~BSONObjBuilder of the innermost sub-builder: _done() unless it was called
\* or the buffer is gone.
DestroySub ==
    /\ Len(levels) > 1
    /\ Pop
    /\ \/ ~Top.done /\ data /\ Fits(l + 1) /\ Seal
       \/ (Top.done \/ ~data) /\ UNCHANGED <<l, size, cells>>
    /\ UNCHANGED <<mem, phase>>

\* The same destructor when grow() throws out of it.
DestroyThrows ==
    /\ Len(levels) > 1 /\ ~Top.done /\ data
    /\ GrowThrows(l + 1, size)
    /\ Pop
    /\ UNCHANGED <<l, size, cells>>

\* A sub-builder leaves scope.  The build sets no language level: under
\* gnu++98 an exception leaves the destructor and propagates, from C++11 on
\* destructors are noexcept and it terminates the process.
CloseSub ==
    /\ phase = "build"
    /\ \/ DestroySub
       \/ DestroyThrows /\ phase' \in {"unwind", "terminated"}

\* kill(): frees the buffer unless obj() took it or realloc() lost it.
Kill ==
    /\ data' = FALSE
    /\ frees' = IF data THEN frees + 1 ELSE frees
    /\ UNCHANGED <<oom, refs>>

\* Mutants of Obj: no test of the size; without decouple().
MutObjUnchecked ==
    /\ phase = "build" /\ Len(levels) = 1 /\ ~Top.done
    /\ SetDone
    /\ \/ Fits(l + 1) /\ Seal /\ data' = FALSE /\ refs' = 1 /\ phase' = "built" /\ UNCHANGED <<oom, frees>>
       \/ GrowThrows(l + 1, size) /\ phase' = "unwind" /\ UNCHANGED <<l, size, cells>>
MutObjCoupled ==
    /\ phase = "build" /\ Len(levels) = 1 /\ ~Top.done
    /\ SetDone
    /\ Fits(l + 1) /\ Seal
    /\ refs' = 1 /\ phase' = "built"
    /\ UNCHANGED <<data, oom, frees>>

\* obj() on the root builder: seal, decouple, construct the owning BSONObj.
\* If its size is not valid the constructor throws and the Holder it had
\* already taken is released.
Obj ==
    /\ phase = "build" /\ Len(levels) = 1 /\ ~Top.done
    /\ SetDone
    /\ \/ /\ Fits(l + 1)
          /\ Seal
          /\ data' = FALSE
          /\ refs' = IF Valid THEN 1 ELSE 0
          /\ frees' = IF Valid THEN frees ELSE frees + 1
          /\ phase' = IF Valid THEN "built" ELSE "unwind"
          /\ UNCHANGED oom
       \/ /\ GrowThrows(l + 1, size)
          /\ phase' = "unwind"
          /\ UNCHANGED <<l, size, cells>>

\* The root builder leaves scope after obj().
Leave ==
    /\ phase = "built"
    /\ Kill
    /\ levels' = <<>>
    /\ phase' = "returned"
    /\ UNCHANGED <<l, size, cells>>

\* Mutant of DropRef: a moved-from BSONObj releases its reference again.
MutDropAgain ==
    /\ phase = "returned"
    /\ refs' = refs - 1
    /\ frees' = IF refs = 1 THEN frees + 1 ELSE frees
    /\ UNCHANGED <<l, size, cells, levels, data, oom, phase>>

\* intrusive_ptr_add_ref / intrusive_ptr_release of the finished object.
CopyRef ==
    /\ refs \in 1..(MaxRefs - 1)
    /\ refs' = refs + 1
    /\ UNCHANGED <<l, size, cells, levels, data, oom, frees, phase>>

DropRef ==
    /\ refs > 0
    /\ refs' = refs - 1
    /\ frees' = IF refs = 1 THEN frees + 1 ELSE frees
    /\ UNCHANGED <<l, size, cells, levels, data, oom, phase>>

\* The code that uses the builder throws (a parse error, bad_alloc).
ClientThrows ==
    /\ phase = "build"
    /\ phase' = "unwind"
    /\ UNCHANGED <<l, size, cells, levels, mem>>

\* Stack unwinding destroys the innermost builder.  A second exception out of
\* a sub-builder's destructor terminates; the root's destructor only frees.
Unwind ==
    /\ phase = "unwind"
    /\ \/ DestroySub
       \/ DestroyThrows /\ phase' = "terminated"
       \/ /\ Len(levels) = 1
          /\ Kill
          /\ levels' = <<>>
          /\ phase' = "failed"
          /\ UNCHANGED <<l, size, cells>>

Next ==
    \/ \E n \in NameSizes, v \in ValueSizes : AppendValue(n, v)
    \/ \E n \in NameSizes : SubStart(n)
    \/ Done \/ CloseSub \/ Obj \/ Leave
    \/ CopyRef \/ DropRef
    \/ ClientThrows \/ Unwind

Spec == Init /\ [][Next]_vars

\* The C++ runtime does not stop in the middle of unwinding a stack.
FairSpec == Spec /\ WF_vars(Unwind)

-----------------------------------------------------------------------------
(* Properties *)

\* Documents whose size field has been patched, and where they end.
Closed == {o \in DOMAIN cells : cells[o].k = "size" /\ cells[o].w > 0}
End(o) == o + cells[o].w

\* Every size field _done() has written spans exactly a document: it stays
\* inside the buffer, its last byte is the terminator _done() wrote, and two
\* documents are disjoint or properly nested.  The field is computed from len()
\* and _offset after any number of reallocations and nested builders, also for
\* the documents destructors close while an exception is in flight.
SizeFieldsExact ==
    /\ \A o \in Closed : /\ End(o) <= l
                         /\ End(o) - 1 \in DOMAIN cells
                         /\ cells[End(o) - 1].k = "eoo"
    /\ \A o, p \in Closed : o < p => End(o) <= p \/ End(p) < End(o)

\* An object that obj() returned fills the buffer behind the reference count,
\* has a valid size, and holds neither a half-written element nor a document
\* whose size field is still open: no throwing path leads to a BSONObj.
FinishedIsWhole ==
    refs > 0 => /\ RefCount \in Closed
                /\ End(RefCount) = l
                /\ cells[RefCount].w <= MaxInternal
                /\ \A o \in DOMAIN cells :
                      /\ cells[o].k # "torn"
                      /\ cells[o].k = "size" => o \in Closed

\* The buffer has one owner, the builder or the Holder, and is freed exactly
\* once on every path: normal return, throw in grow(), throw in obj() after
\* decouple(), last copy of the BSONObj dropped before or after the builder.
\* The one exception is a failed realloc(): grow_reallocate overwrites the
\* pointer, the old block is never freed, and no BSONObj ever refers to it.
FreedOnce ==
    /\ frees <= 1
    /\ data \/ refs > 0 => frees = 0
    /\ phase \in {"returned", "failed"} /\ refs = 0 => frees = IF oom THEN 0 ELSE 1
    /\ oom => ~data /\ refs = 0

\* Once closed, a document is never written again: later appends, size
\* patches of enclosing builders and unwinding leave all its bytes alone.
ClosedIsFinal ==
    [][\A o \in Closed : \A x \in DOMAIN cells :
          o <= x /\ x < End(o) => x \in DOMAIN cells' /\ cells'[x] = cells[x]]_vars

\* While an exception is in flight, one spare byte per open sub-builder is
\* enough: the destructors' terminators all fit, the spare room is kept, and
\* std::terminate is not reached unless realloc() fails in a destructor.
Room == Fits(l + Len(levels) - 1)
RoomToUnwind ==
    [][phase = "unwind" /\ Room =>
          \/ phase' # "terminated" /\ (phase' = "unwind" => Room')
          \/ oom' # oom]_vars

\* An exception always gets out of the builders, or terminates the process.
UnwindEnds == phase = "unwind" ~> phase \in {"failed", "terminated"}
=============================================================================
