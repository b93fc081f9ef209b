------------------------------- MODULE Queue -------------------------------
(***************************************************************************)
(* The bounded process queue of queue.c: an array of MAX_QUEUE_SIZE slots  *)
(* and a size, seen as the sequence of the processes it holds.             *)
(***************************************************************************)
EXTENDS Naturals, Sequences

CONSTANT MAX_QUEUE_SIZE     \* capacity of one queue_t (50 in queue.h)

ASSUME QueueAssumption == MAX_QUEUE_SIZE \in Nat \ {0}

InQueue(q) == {q[i] : i \in DOMAIN q}

Distinct(q) == \A i, j \in DOMAIN q : q[i] = q[j] => i = j

(* Faulty variant: one place of the array is never used. *)
FullOneEarly(q) == Len(q) >= MAX_QUEUE_SIZE - 1

Full(q) == Len(q) >= MAX_QUEUE_SIZE

(* A full queue drops the process with a warning; the caller is not told. *)
Enqueue(q, p) == IF Full(q) THEN q ELSE Append(q, p)

(* Close the gap left at position i: the shifting loops of both removals. *)
Shift(q, i) == [j \in 1 .. Len(q) - 1 |-> IF j < i THEN q[j] ELSE q[j + 1]]

(* dequeue under MLQ_SCHED takes the process at the front. *)
Front(q) == q[1]
Dequeue(q) == Shift(q, 1)

FirstAt(q, p, i) == q[i] = p /\ \A j \in 1 .. i - 1 : q[j] # p

(* purgequeue removes the first entry with the pid, if there is one. *)
Purge(q, p) ==
    IF p \in InQueue(q)
    THEN Shift(q, CHOOSE i \in DOMAIN q : FirstAt(q, p, i))
    ELSE q
=============================================================================
