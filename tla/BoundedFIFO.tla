---------------------------- MODULE BoundedFIFO ----------------------------
(***************************************************************************)
(* What the ring of lock_free_queue.h promises its two threads: a queue of *)
(* at most Capacity whole items, taken in the order they were put.         *)
(***************************************************************************)
EXTENDS Naturals, Sequences

CONSTANTS Capacity, Values

VARIABLES
  queue,  \* the items between the threads
  taken   \* the item the reader took last

fifoVars == <<queue, taken>>

FIFOInit == queue = <<>> /\ taken \notin Values

Put ==
  /\ Len(queue) < Capacity
  /\ \E v \in Values : queue' = Append(queue, v)
  /\ UNCHANGED taken

Take ==
  /\ queue # <<>>
  /\ taken' = Head(queue)
  /\ queue' = Tail(queue)

FIFOSpec == FIFOInit /\ [][Put \/ Take]_fifoVars

=============================================================================
