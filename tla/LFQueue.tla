------------------------------ MODULE LFQueue ------------------------------
(***************************************************************************)
(* The single-producer single-consumer ring of header/lock_free_queue.h.   *)
(*                                                                         *)
(* The writer takes the slot at next_write_index_, fills it field by field *)
(* and then publishes it; the reader takes the slot at next_read_index_,   *)
(* reads it field by field and then releases it.  A slot is a pair, so     *)
(* that a half-written one can be seen.  The indices are sequentially      *)
(* consistent atomics: a step holds one access to the other thread's index.*)
(***************************************************************************)
EXTENDS Integers, Sequences

CONSTANTS
  N,       \* store_.size()
  Values,  \* the items
  Empty    \* what T() leaves in a slot

ASSUME LFQueueAssumption == N \in Nat \ {0} /\ Empty \notin Values

VARIABLES
  store_,             \* the slots
  next_write_index_,
  next_read_index_,
  writer,             \* where the writing thread is, and its item
  reader,             \* where the reading thread is, and the fields it has read
  received            \* the item the reader released last

ringVars == <<store_, next_write_index_, next_read_index_>>
lfVars == <<ringVars, writer, reader, received>>

Indices == 0 .. N - 1
Items == Values \cup {Empty}

AfterNoWrap(i) == i + 1          \* mutant: the index never wraps around

After(i) == (i + 1) % N

LFInit ==
  /\ store_ = [i \in Indices |-> <<Empty, Empty>>]
  /\ next_write_index_ = 0 /\ next_read_index_ = 0
  /\ writer = [at |-> "out", item |-> Empty]
  /\ reader = [at |-> "out", fields |-> <<Empty, Empty>>]
  /\ received = Empty

(* mutant: the comparison leaves the modulo out *)
FullNoWrap == next_write_index_ + 1 = next_read_index_

Full == After(next_write_index_) = next_read_index_

Drained == next_read_index_ = next_write_index_

WriterAt(from, to) == writer.at = from /\ writer' = [writer EXCEPT !.at = to]
ReaderAt(from, to) == reader.at = from /\ reader' = [reader EXCEPT !.at = to]

-----------------------------------------------------------------------------
(* The writer.  When the ring is full getNextToWriteTo returns nullptr and *)
(* nothing changes: the caller asks again or gives its item up.            *)

GetNextUnchecked(v) ==           \* mutant: the slot is taken although the ring is full
  /\ writer.at = "out"
  /\ writer' = [at |-> "first", item |-> v]
  /\ UNCHANGED <<ringVars, reader, received>>

getNextToWriteTo(v) ==
  /\ writer.at = "out"
  /\ ~ Full
  /\ writer' = [at |-> "first", item |-> v]
  /\ UNCHANGED <<ringVars, reader, received>>

FillFirst ==
  /\ WriterAt("first", "second")
  /\ store_' = [store_ EXCEPT ![next_write_index_][1] = writer.item]
  /\ UNCHANGED <<next_write_index_, next_read_index_, reader, received>>

FillSecond ==
  /\ WriterAt("second", "assert")
  /\ store_' = [store_ EXCEPT ![next_write_index_][2] = writer.item]
  /\ UNCHANGED <<next_write_index_, next_read_index_, reader, received>>

(* The ASSERT of updateWriteIndex; a failure exits the program. *)
AssertWrite ==
  /\ IF Full THEN WriterAt("assert", "failed") ELSE WriterAt("assert", "publish")
  /\ UNCHANGED <<ringVars, reader, received>>

updateWriteIndex ==
  /\ WriterAt("publish", "out")
  /\ next_write_index_' = After(next_write_index_)
  /\ UNCHANGED <<store_, next_read_index_, reader, received>>

-----------------------------------------------------------------------------
(* The reader.  When nothing is published getNextToRead returns nullptr.   *)
(* A reader that left its slot asks for it again.                          *)

getNextToReadUnchecked ==        \* mutant: the slot is read although it is not published
  /\ ReaderAt("out", "first") \/ ReaderAt("kept", "first")
  /\ UNCHANGED <<ringVars, writer, received>>

getNextToRead ==
  /\ ~ Drained
  /\ ReaderAt("out", "first") \/ ReaderAt("kept", "first")
  /\ UNCHANGED <<ringVars, writer, received>>

ReadFirst ==
  /\ reader.at = "first"
  /\ reader' = [at |-> "second",
                fields |-> [reader.fields EXCEPT ![1] = store_[next_read_index_][1]]]
  /\ UNCHANGED <<ringVars, writer, received>>

(* The reader goes on to release the slot, or leaves it where it is: the   *)
(* gateway keeps an acknowledgement while the sniper's ring is full        *)
(* (order_gateway.cpp lines 190 to 213) and asks for it again next round.  *)
ReadSecond ==
  /\ reader.at = "second"
  /\ \E at \in {"assert", "kept"} :
       reader' = [at |-> at,
                  fields |-> [reader.fields EXCEPT ![2] = store_[next_read_index_][2]]]
  /\ UNCHANGED <<ringVars, writer, received>>

AssertRead ==
  /\ IF Drained THEN ReaderAt("assert", "failed") ELSE ReaderAt("assert", "release")
  /\ UNCHANGED <<ringVars, writer, received>>

updateReadIndex ==
  /\ ReaderAt("release", "out")
  /\ next_read_index_' = After(next_read_index_)
  /\ received' = reader.fields[2]
  /\ UNCHANGED <<store_, next_write_index_, writer>>

-----------------------------------------------------------------------------

Writer ==
  \/ \E v \in Values : getNextToWriteTo(v)
  \/ FillFirst \/ FillSecond \/ AssertWrite \/ updateWriteIndex

Reader == getNextToRead \/ ReadFirst \/ ReadSecond \/ AssertRead \/ updateReadIndex

LFNext == Writer \/ Reader

LFSpec == LFInit /\ [][LFNext]_lfVars

-----------------------------------------------------------------------------
(* What the ring implements. *)

size == IF next_write_index_ >= next_read_index_
        THEN next_write_index_ - next_read_index_
        ELSE N - next_read_index_ + next_write_index_

Contents == [k \in 1 .. size |-> store_[(next_read_index_ + k - 1) % N][1]]

FIFO == INSTANCE BoundedFIFO WITH
  Capacity <- N - 1, queue <- Contents, taken <- received

-----------------------------------------------------------------------------
(* Properties. *)

Writing == writer.at \in {"first", "second", "assert", "publish"}
Reading == reader.at \in {"first", "second", "assert", "release"}

(* Every variable has its type. *)
LFTypeOK ==
  /\ store_ \in [Indices -> Items \X Items]
  /\ next_write_index_ \in Indices /\ next_read_index_ \in Indices
  /\ writer \in [at : {"out", "first", "second", "assert", "publish", "failed"},
                 item : Items]
  /\ reader \in [at : {"out", "first", "second", "assert", "release", "kept",
                        "failed"},
                 fields : Items \X Items]
  /\ received \in Items

(* The two threads never hold the same slot. *)
NeverSameSlot == Writing /\ Reading => next_write_index_ # next_read_index_

(* The assertions of updateWriteIndex and updateReadIndex never fail: what *)
(* a thread saw when it took its slot still holds when it gives it up.     *)
AssertionsHold == writer.at # "failed" /\ reader.at # "failed"

(* What the reader takes is whole: both fields are of one item.            *)
NoTornRead == reader.at \in {"assert", "release"} =>
                reader.fields[1] = reader.fields[2] /\ reader.fields[1] \in Values

(* The ring is a FIFO queue of N - 1 items. *)
ImplementsFIFO == FIFO!FIFOSpec

(* A slot that was read and not released is still there, whole, however    *)
(* far the writer goes on: the next read of it takes the same item.        *)
KeptSlotStays == reader.at = "kept" =>
                   /\ ~ Drained
                   /\ store_[next_read_index_] = reader.fields
                   /\ reader.fields[1] = reader.fields[2]

=============================================================================
