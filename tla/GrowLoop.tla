------------------------------ MODULE GrowLoop ------------------------------
(***************************************************************************)
(* _BufBuilder::grow() and grow_reallocate() at the level of their int     *)
(* variables: the loop that doubles a until it holds what is needed.       *)
(* BsonBuilder takes it as one step to the least such number.  A buffer is *)
(* asked to grow until a request throws.                                   *)
(***************************************************************************)
EXTENDS Integers

CONSTANTS
    MaxInt,     \* the largest int, 2^31 - 1
    FirstTry,   \* where the loop starts: 64
    NewSize,    \* size of a new buffer: 512
    MaxBuffer,  \* BufferMaxSize, 64 MB
    MaxBy       \* the most that one append asks for

ASSUME GrowAssumption ==
    /\ {MaxInt, FirstTry, NewSize, MaxBuffer, MaxBy} \subseteq Nat \ {0}
    /\ NewSize <= MaxBuffer /\ FirstTry <= MaxBuffer
    /\ MaxBuffer + MaxBy <= MaxInt

\* The values of the loop variable, if it were not an int.
Doubling[i \in 0..MaxInt] == IF i = 0 THEN FirstTry ELSE 2 * Doubling[i - 1]

ASSUME DoublingAssumption == \E i \in 1..MaxInt : Doubling[i] = MaxInt + 1

VARIABLES
    used,       \* l, the length of what has been written
    allocated,  \* size, that of the allocation
    request,    \* "idle", "loop", or "thrown"
    newLen,     \* what grow_reallocate() was called with
    tried       \* a, its loop variable

buffer == <<used, allocated, request, newLen, tried>>

GrowTypeOK ==
    /\ request \in {"idle", "loop", "thrown"}
    /\ {used, allocated, newLen} \subseteq 0..MaxInt
    /\ tried \in (-MaxInt - 1)..MaxInt

InitGrow == used = 0 /\ allocated = NewSize /\ request = "idle" /\ newLen = 0 /\ tried = FirstTry

\* Mutants of Grow: the loop starts at the old length; the length is left out.
MutGrowFromLength(by) ==
    /\ request = "idle"
    /\ newLen' = used + by
    /\ IF used + by > allocated THEN request' = "loop" /\ tried' = used /\ UNCHANGED <<used, allocated>>
       ELSE used' = used + by /\ UNCHANGED <<allocated, request, tried>>
MutGrowRest(by) ==
    /\ request = "idle"
    /\ newLen' = by - used
    /\ IF by > allocated THEN request' = "loop" /\ tried' = FirstTry /\ UNCHANGED <<used, allocated>>
       ELSE used' = by /\ UNCHANGED <<allocated, request, tried>>

Grow(by) ==
    /\ request = "idle"
    /\ newLen' = used + by
    /\ IF used + by > allocated THEN request' = "loop" /\ tried' = FirstTry /\ UNCHANGED <<used, allocated>>
       ELSE used' = used + by /\ UNCHANGED <<allocated, request, tried>>

\* Mutant of Twice: four times.
MutTwiceFour(n) == 4 * n

\* a * 2 in an int that wraps around.
Twice(n) ==
    IF 2 * n > MaxInt THEN 2 * n - 2 * (MaxInt + 1)
    ELSE IF 2 * n < -MaxInt - 1 THEN 2 * n + 2 * (MaxInt + 1) ELSE 2 * n

Double ==
    /\ request = "loop" /\ tried < newLen
    /\ tried' = Twice(tried)
    /\ UNCHANGED <<used, allocated, request, newLen>>

\* Mutant of Reallocate: without the test for the limit.
MutReallocateAny ==
    /\ request = "loop" /\ tried >= newLen
    /\ allocated' = tried /\ used' = newLen /\ request' = "idle" /\ UNCHANGED <<newLen, tried>>

\* Realloc, or an exception: past the limit, or out of memory.
Reallocate ==
    /\ request = "loop" /\ tried >= newLen
    /\ \/ tried <= MaxBuffer /\ allocated' = tried /\ used' = newLen /\ request' = "idle"
       \/ request' = "thrown" /\ UNCHANGED <<used, allocated>>
    /\ UNCHANGED <<newLen, tried>>

Loop == Double \/ Reallocate

NextGrow == Loop \/ \E by \in 0..MaxBy : Grow(by)

GrowSpec == InitGrow /\ [][NextGrow]_buffer

\* A call runs until it returns or throws.
GrowFairSpec == GrowSpec /\ WF_buffer(Loop)

-----------------------------------------------------------------------------
(* Properties *)

\* newLen is at most 2^30, which is what the loop variable can reach.
InReach == newLen + newLen <= MaxInt + 1

\* What is written always fits the allocation, which is within the limit.
Covered == used <= allocated /\ allocated <= MaxBuffer

\* For a length within reach the loop variable neither overflows nor gets to twice
\* what is needed, so that no allocation wastes more than half of itself.  For any
\* other it never gets as far as the test behind the loop.
Tight ==
    request = "loop" =>
        IF InReach THEN tried > 0 /\ (tried = FirstTry \/ tried < 2 * newLen) ELSE tried < newLen

\* An allocation never shrinks, and grows to the least doubling that will do.
GrowsToLeast ==
    [][allocated' # allocated => /\ newLen <= allocated' /\ allocated < allocated'
                                 /\ allocated' = FirstTry \/ allocated' < 2 * newLen]_buffer

\* A request within reach ends, with the exception if it is past the limit.  Beyond
\* that a * 2 overflows before the limit is tested, and the call never returns.
GrowEnds ==
    /\ request = "loop" /\ InReach ~> request # "loop"
    /\ [][request = "loop" /\ ~InReach => UNCHANGED <<request, newLen>>]_buffer
=============================================================================
