------------------------------ MODULE Semaphore ------------------------------
(***************************************************************************)
(* asyncio.Semaphore as this code uses it, always in an async with: the    *)
(* tasks that hold a permit and, first come first, those that wait for one.*)
(***************************************************************************)
EXTENDS Naturals, Sequences, FiniteSets

\* Those that waited longest take the permits that are free.
Admit(s, limit) ==
    LET free == limit - Cardinality(s.open)
        next == IF Len(s.queue) < free THEN Len(s.queue) ELSE free
    IN  [open  |-> s.open \cup {s.queue[i] : i \in 1..next},
         queue |-> SubSeq(s.queue, next + 1, Len(s.queue))]

\* Tasks enter the block, in this order.
Acquire(s, limit, tasks) == Admit([s EXCEPT !.queue = @ \o tasks], limit)

ReleaseBug(s, limit, gone) ==
    [open |-> s.open \ gone, queue |-> SelectSeq(s.queue, LAMBDA t : t \notin gone)]

\* Tasks leave it, or the wait for it, whichever way.
Release(s, limit, gone) ==
    Admit([open  |-> s.open \ gone,
           queue |-> SelectSeq(s.queue, LAMBDA t : t \notin gone)], limit)
=============================================================================
