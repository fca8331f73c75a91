------------------------------- MODULE Chain -------------------------------
(***************************************************************************)
(* What header.Store promises (src/interface.go): a contiguous range of     *)
(* headers that can be read and that appends only extend, and a persisted   *)
(* part of it that outlives stops and crashes and never shrinks.  There is  *)
(* no queue, no loop and no flush here; Store is shown to implement it.     *)
(***************************************************************************)
EXTENDS Integers

CONSTANT Heights  \* the heights of the chain

VARIABLES
    running,  \* the store is started
    range,    \* <<first, last>>: Tail and Head, <<0, 0>> when there are none
    held,     \* headers a reader can get
    saved,    \* the range the datastore's keys delimit
    kept      \* headers in the datastore

chainVars == <<running, range, held, saved, kept>>

NoRange == <<0, 0>>

Span(r) == IF r = NoRange THEN {} ELSE r[1]..r[2]

\* r is a range of available headers.
Spans(r, headers) == r # NoRange /\ r[1] <= r[2] /\ Span(r) \subseteq headers

\* Headers arrive; they need not be adjacent to the range.
Receive ==
    /\ running
    /\ held \subseteq held' /\ held' \subseteq Heights
    /\ UNCHANGED <<running, range, saved, kept>>

\* Tail and Head move apart over headers that can be read.
Extend ==
    /\ running
    /\ Spans(range', held) /\ Span(range) \subseteq Span(range')
    /\ UNCHANGED <<running, held, saved, kept>>

\* Headers and the current range are persisted at once; nothing persisted is
\* given up, neither a header nor a part of the range.
Save ==
    /\ running
    /\ kept \subseteq kept' /\ kept' \subseteq held
    /\ saved' = range /\ Spans(saved', kept') /\ Span(saved) \subseteq Span(saved')
    /\ UNCHANGED <<running, range, held>>

\* The store ends only when all that can be read is persisted.
Halt ==
    /\ running /\ held = kept
    /\ running' = FALSE
    /\ UNCHANGED <<range, held, saved, kept>>

\* A stopped store has no Tail and no Head.
Forget ==
    /\ ~running
    /\ range' = NoRange
    /\ UNCHANGED <<running, held, saved, kept>>

\* The store starts with the range it persisted.
Open ==
    /\ ~running
    /\ running' = TRUE /\ range' = saved
    /\ UNCHANGED <<held, saved, kept>>

\* What is not persisted is lost.
Crash ==
    /\ running' = FALSE
    /\ range' = NoRange /\ held' = kept
    /\ UNCHANGED <<saved, kept>>

Init ==
    /\ running = FALSE
    /\ range = NoRange /\ saved = NoRange
    /\ held = {} /\ kept = {}

Next == Receive \/ Extend \/ Save \/ Halt \/ Forget \/ Open \/ Crash

Spec == Init /\ [][Next]_chainVars
=============================================================================
