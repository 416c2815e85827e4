---------------------------- MODULE LFQueueProofs ----------------------------
(***************************************************************************)
(* Theorems about the ring for every number of slots and every set of      *)
(* items.  The argument: a thread that has taken its slot knows an order   *)
(* between the indices (the ring is not full, not empty) that only the     *)
(* thread itself can end, because the other thread moves the other index   *)
(* in the direction that keeps it true.                                    *)
(***************************************************************************)
EXTENDS LFQueue, SequenceTheorems, TLAPS

(* The slot after slot i, without the remainder. *)
LEMMA AfterValue ==
  ASSUME NEW i \in Indices
  PROVE  After(i) = (IF i = N - 1 THEN 0 ELSE i + 1) /\ After(i) \in Indices
BY LFQueueAssumption DEF After, Indices

(* The slots between the indices: published and not yet released.          *)
Published(i) ==
  IF next_read_index_ <= next_write_index_
  THEN next_read_index_ <= i /\ i < next_write_index_
  ELSE next_read_index_ <= i \/ i < next_write_index_

Whole(slot) == slot[1] = slot[2] /\ slot[1] \in Values

(* What the threads know: see the comment of the module.  Every published  *)
(* slot is whole, and so is the part of a slot a thread has dealt with.    *)
LFInv ==
  /\ LFTypeOK
  /\ AssertionsHold
  /\ Writing => ~ Full /\ writer.item \in Values
  /\ \A i \in Indices : Published(i) => Whole(store_[i])
  /\ writer.at \in {"second", "assert", "publish"} =>
       store_[next_write_index_][1] = writer.item
  /\ writer.at \in {"assert", "publish"} => store_[next_write_index_][2] = writer.item
  /\ Reading \/ reader.at = "kept" => ~ Drained
  /\ reader.at \in {"second", "assert", "release", "kept"} =>
       reader.fields[1] = store_[next_read_index_][1]
  /\ reader.at \in {"assert", "release", "kept"} =>
       reader.fields[2] = store_[next_read_index_][2]

(* An empty ring. *)
LEMMA LFInitInv == LFInit => LFInv
<1> SUFFICES ASSUME LFInit PROVE LFInv
  OBVIOUS
<1>1. LFTypeOK
  BY LFQueueAssumption DEF LFInit, LFTypeOK, Indices, Items
<1>2. \A i \in Indices : ~ Published(i)
  BY LFQueueAssumption DEF LFInit, Published, Indices
<1> QED BY <1>1, <1>2 DEF LFInit, LFInv, AssertionsHold, Writing, Reading

(* The slots of the two threads are different whenever both hold one, and  *)
(* the slot being written is not a published one.                          *)
LEMMA SlotsApart ==
  ASSUME LFInv
  PROVE  /\ ~ Drained => Published(next_read_index_)
         /\ ~ Published(next_write_index_)
         /\ NeverSameSlot
<1>1. next_write_index_ \in Int /\ next_read_index_ \in Int
  BY LFQueueAssumption DEF LFInv, LFTypeOK, Indices
<1> QED BY <1>1 DEF LFInv, Drained, Published, NeverSameSlot

(* Each step of the writer keeps the invariant. *)
LEMMA WriterKeepsInv ==
  ASSUME LFInv, Writer
  PROVE  LFInv'
<1> USE DEF LFInv, LFTypeOK, AssertionsHold, Writing, Reading, Full, Drained, Items
<1>0. Published(next_read_index_) \/ Drained
  BY SlotsApart
<1>1. ~ Published(next_write_index_)
  BY SlotsApart
<1>2. ASSUME NEW v \in Values, getNextToWriteTo(v)
      PROVE  LFInv'
  BY <1>2, LFQueueAssumption DEF getNextToWriteTo, ringVars, Published, Whole
<1>3. ASSUME store_' \in [Indices -> Items \X Items],
             \A i \in Indices \ {next_write_index_} : store_'[i] = store_[i],
             UNCHANGED <<next_write_index_, next_read_index_, reader>>
      PROVE  /\ \A i \in Indices : Published(i)' => Whole(store_[i])'
             /\ reader.at \in {"second", "assert", "release", "kept"} =>
                  reader.fields[1] = store_'[next_read_index_][1]
             /\ reader.at \in {"assert", "release", "kept"} =>
                  reader.fields[2] = store_'[next_read_index_][2]
  BY <1>0, <1>1, <1>3 DEF Published, Whole
<1>4. CASE FillFirst
  <2>1. /\ writer.at = "first" /\ writer' = [writer EXCEPT !.at = "second"]
        /\ store_' = [store_ EXCEPT ![next_write_index_][1] = writer.item]
        /\ UNCHANGED <<next_write_index_, next_read_index_, reader, received>>
    BY <1>4 DEF FillFirst, WriterAt
  <2>2. /\ store_' \in [Indices -> Items \X Items]
        /\ \A i \in Indices \ {next_write_index_} : store_'[i] = store_[i]
        /\ store_'[next_write_index_][1] = writer.item
    BY <2>1
  <2> QED BY <1>3, <2>1, <2>2
<1>5. CASE FillSecond
  <2>1. /\ writer.at = "second" /\ writer' = [writer EXCEPT !.at = "assert"]
        /\ store_' = [store_ EXCEPT ![next_write_index_][2] = writer.item]
        /\ UNCHANGED <<next_write_index_, next_read_index_, reader, received>>
    BY <1>5 DEF FillSecond, WriterAt
  <2>2. /\ store_' \in [Indices -> Items \X Items]
        /\ \A i \in Indices \ {next_write_index_} : store_'[i] = store_[i]
        /\ store_'[next_write_index_][1] = writer.item
        /\ store_'[next_write_index_][2] = writer.item
    BY <2>1
  <2> QED BY <1>3, <2>1, <2>2
<1>6. CASE AssertWrite
  <2>1. writer.at = "assert" /\ writer' = [writer EXCEPT !.at = "publish"]
        /\ UNCHANGED <<ringVars, reader, received>>
    BY <1>6 DEF AssertWrite, WriterAt
  <2> QED BY <2>1 DEF ringVars, Published, Whole
<1>7. CASE updateWriteIndex
  <2>1. /\ writer.at = "publish" /\ writer' = [writer EXCEPT !.at = "out"]
        /\ next_write_index_' = After(next_write_index_)
        /\ UNCHANGED <<store_, next_read_index_, reader, received>>
    BY <1>7 DEF updateWriteIndex, WriterAt
  <2>2. /\ After(next_write_index_) \in Indices
        /\ After(next_write_index_) =
             IF next_write_index_ = N - 1 THEN 0 ELSE next_write_index_ + 1
    BY AfterValue
  <2>3. After(next_write_index_) # next_read_index_
    BY <2>1
  <2>4. ASSUME NEW i \in Indices, Published(i)'
        PROVE  Published(i) \/ i = next_write_index_
    BY <2>1, <2>2, <2>3, <2>4, LFQueueAssumption DEF Published, Indices
  <2>5. Whole(store_[next_write_index_])
    BY <2>1 DEF Whole
  <2>6. \A i \in Indices : Published(i)' => Whole(store_[i])'
    BY <2>1, <2>4, <2>5 DEF Whole
  <2> QED BY <2>1, <2>2, <2>3, <2>6
<1> QED BY <1>2, <1>4, <1>5, <1>6, <1>7 DEF Writer

(* Each step of the reader keeps the invariant. *)
LEMMA ReaderKeepsInv ==
  ASSUME LFInv, Reader
  PROVE  LFInv'
<1> USE DEF LFInv, LFTypeOK, AssertionsHold, Writing, Reading, Full, Drained, Items
<1>1. CASE getNextToRead
  BY <1>1 DEF getNextToRead, ReaderAt, ringVars, Published, Whole
<1>2. CASE ReadFirst
  <2>1. /\ reader.at = "first"
        /\ reader' = [at |-> "second",
             fields |-> [reader.fields EXCEPT ![1] = store_[next_read_index_][1]]]
        /\ UNCHANGED <<ringVars, writer, received>>
    BY <1>2 DEF ReadFirst
  <2> QED BY <2>1 DEF ringVars, Published, Whole
<1>3. CASE ReadSecond
  <2>1. PICK at \in {"assert", "kept"} :
        /\ reader.at = "second"
        /\ reader' = [at |-> at,
             fields |-> [reader.fields EXCEPT ![2] = store_[next_read_index_][2]]]
        /\ UNCHANGED <<ringVars, writer, received>>
    BY <1>3 DEF ReadSecond
  <2> QED BY <2>1 DEF ringVars, Published, Whole
<1>4. CASE AssertRead
  <2>1. reader.at = "assert" /\ reader' = [reader EXCEPT !.at = "release"]
        /\ UNCHANGED <<ringVars, writer, received>>
    BY <1>4 DEF AssertRead, ReaderAt
  <2> QED BY <2>1 DEF ringVars, Published, Whole
<1>5. CASE updateReadIndex
  <2>1. /\ reader.at = "release" /\ reader' = [reader EXCEPT !.at = "out"]
        /\ next_read_index_' = After(next_read_index_)
        /\ received' = reader.fields[2]
        /\ UNCHANGED <<store_, next_write_index_, writer>>
    BY <1>5 DEF updateReadIndex, ReaderAt
  <2>2. /\ After(next_read_index_) \in Indices
        /\ After(next_read_index_) =
             IF next_read_index_ = N - 1 THEN 0 ELSE next_read_index_ + 1
        /\ After(next_write_index_) =
             IF next_write_index_ = N - 1 THEN 0 ELSE next_write_index_ + 1
    BY AfterValue
  <2>3. After(next_write_index_) # After(next_read_index_)
    BY <2>1, <2>2, LFQueueAssumption DEF Indices
  <2>4. ASSUME NEW i \in Indices, Published(i)'
        PROVE  Published(i)
    BY <2>1, <2>2, <2>4, LFQueueAssumption DEF Published, Indices
  <2>5. \A i \in Indices : Published(i)' => Whole(store_[i])'
    BY <2>1, <2>4 DEF Whole
  <2>6. (After(next_write_index_))' = After(next_write_index_)
    BY <2>1 DEF After
  <2> QED BY <2>1, <2>2, <2>3, <2>5, <2>6
<1> QED BY <1>1, <1>2, <1>3, <1>4, <1>5 DEF Reader

(* The invariant holds in every state. *)
LEMMA LFInvariant == LFSpec => []LFInv
<1>1. LFInit => LFInv
  BY LFInitInv
<1>2. LFInv /\ [LFNext]_lfVars => LFInv'
  <2>1. ASSUME LFInv, UNCHANGED lfVars
        PROVE  LFInv'
    BY <2>1 DEF LFInv, lfVars, ringVars, LFTypeOK, AssertionsHold, Writing, Reading,
      Full, Drained, Published, Whole
  <2> QED BY <2>1, WriterKeepsInv, ReaderKeepsInv DEF LFNext
<1> QED BY <1>1, <1>2, PTL DEF LFSpec

(* Both indices stay within the ring, and each thread holds what its place *)
(* in the code says, whatever the ring's size.                             *)
THEOREM RingTypeCorrect == LFSpec => []LFTypeOK
<1>1. LFInv => LFTypeOK
  BY DEF LFInv
<1> QED BY <1>1, LFInvariant, PTL

(* The assertions of updateWriteIndex and updateReadIndex never fail, for  *)
(* a ring of any size.                                                     *)
THEOREM RingAssertionsHold == LFSpec => []AssertionsHold
<1>1. LFInv => AssertionsHold
  BY DEF LFInv
<1> QED BY <1>1, LFInvariant, PTL

(* The threads never hold the same slot, for a ring of any size. *)
THEOREM RingNeverSameSlot == LFSpec => []NeverSameSlot
<1>1. LFInv => NeverSameSlot
  BY SlotsApart
<1> QED BY <1>1, LFInvariant, PTL

(* What the reader takes is a whole item, for a ring of any size. *)
THEOREM RingNoTornRead == LFSpec => []NoTornRead
<1>1. LFInv => NoTornRead
  <2> SUFFICES ASSUME LFInv, reader.at \in {"assert", "release"}
               PROVE  reader.fields[1] = reader.fields[2] /\ reader.fields[1] \in Values
    BY DEF NoTornRead
  <2>1. next_read_index_ \in Indices /\ Published(next_read_index_)
    BY SlotsApart DEF LFInv, LFTypeOK, Reading
  <2>2. Whole(store_[next_read_index_])
    BY <2>1 DEF LFInv
  <2> QED BY <2>2 DEF LFInv, Whole
<1> QED BY <1>1, LFInvariant, PTL

(* A slot that was read and not released is still there, and whole, for a  *)
(* ring of any size and however far the writer goes on.                    *)
THEOREM RingKeptSlotStays == LFSpec => []KeptSlotStays
<1>1. LFInv => KeptSlotStays
  <2> SUFFICES ASSUME LFInv, reader.at = "kept"
               PROVE  /\ ~ Drained
                      /\ store_[next_read_index_] = reader.fields
                      /\ reader.fields[1] = reader.fields[2]
    BY DEF KeptSlotStays
  <2>1. next_read_index_ \in Indices /\ Published(next_read_index_) /\ ~ Drained
    BY SlotsApart DEF LFInv, LFTypeOK
  <2>2. Whole(store_[next_read_index_])
    BY <2>1 DEF LFInv
  <2>3. /\ reader.fields[1] = store_[next_read_index_][1]
        /\ reader.fields[2] = store_[next_read_index_][2]
        /\ reader.fields \in Items \X Items /\ store_[next_read_index_] \in Items \X Items
    BY <2>1 DEF LFInv, LFTypeOK
  <2> QED BY <2>1, <2>2, <2>3 DEF Whole
<1> QED BY <1>1, LFInvariant, PTL

-----------------------------------------------------------------------------
(* The refinement: the published slots, in order, are a FIFO queue.        *)

(* A remainder of a number below the divisor. *)
LEMMA SmallRemainder ==
  ASSUME NEW j \in 0 .. N - 1
  PROVE  j % N = j
BY LFQueueAssumption

(* The k-th slot after slot i, without the remainder. *)
LEMMA SlotValue ==
  ASSUME NEW i \in Indices, NEW k \in 0 .. N - 1
  PROVE  /\ (i + k) % N = IF i + k < N THEN i + k ELSE i + k - N
         /\ (i + k) % N \in Indices
<1>1. CASE i + k < N
  BY <1>1, LFQueueAssumption DEF Indices
<1>2. CASE i + k >= N
  <2>1. i + k - N \in 0 .. N - 1
    BY <1>2, LFQueueAssumption DEF Indices
  <2>2. (i + k) % N = (i + k - N) % N
    BY <1>2, LFQueueAssumption DEF Indices
  <2>3. (i + k - N) % N = i + k - N
    BY <2>1, SmallRemainder
  <2>4. i + k \in Int /\ ~ (i + k < N)
    BY <1>2, LFQueueAssumption DEF Indices
  <2> QED BY <2>1, <2>2, <2>3, <2>4 DEF Indices
<1> QED BY <1>1, <1>2, LFQueueAssumption DEF Indices

(* The number of published slots, and where the k-th of them lies. *)
LEMMA SizeBounds ==
  ASSUME LFTypeOK
  PROVE  size \in 0 .. N - 1 /\ (size = 0 <=> Drained)
BY LFQueueAssumption DEF LFTypeOK, size, Indices, Drained

LEMMA ContentsSeq ==
  ASSUME LFTypeOK
  PROVE  /\ Contents \in Seq(Items) /\ Len(Contents) = size
         /\ \A k \in 1 .. size : Contents[k] = store_[(next_read_index_ + k - 1) % N][1]
<1>1. size \in 0 .. N - 1
  BY SizeBounds
<1>2. ASSUME NEW k \in 1 .. size
      PROVE  store_[(next_read_index_ + k - 1) % N][1] \in Items
  <2>1. k - 1 \in 0 .. N - 1 /\ next_read_index_ \in Indices
        /\ next_read_index_ + k - 1 = next_read_index_ + (k - 1)
    BY <1>1, LFQueueAssumption DEF LFTypeOK, Indices
  <2>2. (next_read_index_ + k - 1) % N \in Indices
    BY <2>1, SlotValue
  <2> QED BY <2>2 DEF LFTypeOK
<1> HIDE DEF size
<1> QED BY <1>1, <1>2 DEF Contents

(* Publishing a slot puts its item at the end of the queue. *)
LEMMA PublishPuts ==
  ASSUME LFInv, updateWriteIndex
  PROVE  FIFO!Put
<1> USE DEF LFInv
<1>1. /\ writer.at = "publish" /\ next_write_index_' = After(next_write_index_)
      /\ UNCHANGED <<store_, next_read_index_, reader, received>>
  BY DEF updateWriteIndex, WriterAt
<1>2. /\ After(next_write_index_) =
           IF next_write_index_ = N - 1 THEN 0 ELSE next_write_index_ + 1
      /\ After(next_write_index_) # next_read_index_
      /\ next_write_index_ \in Indices /\ next_read_index_ \in Indices
  BY <1>1, AfterValue DEF LFTypeOK, Writing, Full
<1>3. /\ size' = size + 1 /\ size' \in 1 .. N - 1 /\ size \in 0 .. N - 1
  BY <1>1, <1>2, LFQueueAssumption DEF size, Indices
<1>4. (next_read_index_ + size) % N = next_write_index_
  <2>1. (next_read_index_ + size) % N = IF next_read_index_ + size < N
          THEN next_read_index_ + size ELSE next_read_index_ + size - N
    BY <1>2, <1>3, SlotValue
  <2> QED BY <1>2, <2>1, LFQueueAssumption DEF size, Indices
<1>5. store_[next_write_index_][1] = writer.item /\ writer.item \in Values
  BY <1>1 DEF Writing
<1>6. /\ Contents \in Seq(Items) /\ Len(Contents) = size
      /\ \A k \in 1 .. size : Contents[k] = store_[(next_read_index_ + k - 1) % N][1]
  BY ContentsSeq
<1>7. Contents' = [k \in 1 .. size' |-> store_[(next_read_index_ + k - 1) % N][1]]
  BY <1>1 DEF Contents
<1> HIDE DEF size
<1>8. Contents' = Append(Contents, writer.item)
  <2>1. ASSUME NEW k \in 1 .. size'
        PROVE  Contents'[k] = Append(Contents, writer.item)[k]
    <3>1. CASE k = size + 1
      <4>1. next_read_index_ + k - 1 = next_read_index_ + size
        BY <1>2, <1>3, <3>1 DEF Indices
      <4>2. Contents'[k] = writer.item
        BY <1>4, <1>5, <1>7, <4>1
      <4> HIDE DEF Contents
      <4> QED BY <1>3, <1>6, <3>1, <4>2
    <3>2. CASE k # size + 1
      <4>1. k \in 1 .. size
        BY <1>3, <3>2
      <4>2. Contents'[k] = Contents[k]
        BY <1>6, <1>7, <4>1
      <4> HIDE DEF Contents
      <4> QED BY <1>3, <1>6, <4>1, <4>2
    <3> QED BY <3>1, <3>2
  <2>2. /\ Contents' = [k \in 1 .. size + 1 |-> Contents'[k]]
    BY <1>3, <1>7
  <2>3. Append(Contents, writer.item)
          = [k \in 1 .. size + 1 |-> Append(Contents, writer.item)[k]]
    <3>1. Append(Contents, writer.item) \in Seq(Items)
          /\ Len(Append(Contents, writer.item)) = size + 1
      BY <1>5, <1>6 DEF Items
    <3> HIDE DEF Contents
    <3> QED BY <3>1
  <2> HIDE DEF Contents
  <2> QED BY <1>3, <2>1, <2>2, <2>3
<1>9. Len(Contents) < N - 1
  BY <1>3, <1>6, LFQueueAssumption
<1> HIDE DEF Contents
<1> QED BY <1>1, <1>5, <1>8, <1>9 DEF FIFO!Put

(* The tail of a sequence, as a function. *)
LEMMA TailOf ==
  ASSUME NEW S, NEW s \in Seq(S), s # <<>>
  PROVE  Tail(s) = [k \in 1 .. Len(s) - 1 |-> s[k + 1]]
<1> DEFINE t == Tail(s)
<1>1. /\ t \in Seq(S) /\ Len(t) = Len(s) - 1
      /\ \A i \in 1 .. Len(t) : t[i] = s[i + 1]
  BY HeadTailProperties
<1> HIDE DEF t
<1>2. t \in [1 .. Len(t) -> S]
  BY <1>1, LenProperties
<1>3. t = [i \in 1 .. Len(t) |-> t[i]]
  BY <1>2
<1> QED BY <1>1, <1>3 DEF t

(* Releasing a slot takes the first item of the queue. *)
LEMMA ReleaseTakes ==
  ASSUME LFInv, updateReadIndex
  PROVE  FIFO!Take
<1> USE DEF LFInv
<1>1. /\ reader.at = "release" /\ next_read_index_' = After(next_read_index_)
      /\ received' = reader.fields[2]
      /\ UNCHANGED <<store_, next_write_index_, writer>>
  BY DEF updateReadIndex, ReaderAt
<1>2. /\ After(next_read_index_) =
           IF next_read_index_ = N - 1 THEN 0 ELSE next_read_index_ + 1
      /\ next_read_index_ # next_write_index_
      /\ next_write_index_ \in Indices /\ next_read_index_ \in Indices
  BY <1>1, AfterValue DEF LFTypeOK, Reading, Drained
<1>3. /\ size' = size - 1 /\ size \in 1 .. N - 1 /\ size' \in 0 .. N - 2
  BY <1>1, <1>2, LFQueueAssumption DEF size, Indices
<1>4. Whole(store_[next_read_index_]) /\ received' = store_[next_read_index_][1]
  <2>1. Published(next_read_index_)
    BY <1>1, SlotsApart DEF Reading
  <2> QED BY <1>1, <1>2, <2>1 DEF Whole
<1>5. /\ Contents \in Seq(Items) /\ Len(Contents) = size
      /\ \A k \in 1 .. size : Contents[k] = store_[(next_read_index_ + k - 1) % N][1]
  BY ContentsSeq
<1>6. Contents' = [k \in 1 .. size' |-> store_[(After(next_read_index_) + k - 1) % N][1]]
  BY <1>1 DEF Contents
<1> HIDE DEF size
<1>7. Head(Contents) = received'
  <2>1. (next_read_index_ + 1 - 1) % N = next_read_index_
    BY <1>2, SmallRemainder, LFQueueAssumption DEF Indices
  <2>2. Contents[1] = store_[next_read_index_][1]
    BY <1>3, <1>5, <2>1
  <2> HIDE DEF Contents
  <2> QED BY <1>3, <1>4, <1>5, <2>2
<1>8. ASSUME NEW k \in 1 .. size'
      PROVE  Contents'[k] = Contents[k + 1]
  <2>1. k - 1 \in 0 .. N - 1 /\ k \in 0 .. N - 1 /\ k + 1 \in 1 .. size
    BY <1>3, LFQueueAssumption
  <2>2. (After(next_read_index_) + (k - 1)) % N = (next_read_index_ + k) % N
    <3>1. After(next_read_index_) \in Indices
      BY <1>2, AfterValue
    <3>2. (After(next_read_index_) + (k - 1)) % N =
            IF After(next_read_index_) + (k - 1) < N
            THEN After(next_read_index_) + (k - 1) ELSE After(next_read_index_) + (k - 1) - N
      BY <2>1, <3>1, SlotValue
    <3>3. (next_read_index_ + k) % N =
            IF next_read_index_ + k < N THEN next_read_index_ + k
                                        ELSE next_read_index_ + k - N
      BY <1>2, <2>1, SlotValue
    <3> QED BY <1>2, <2>1, <3>2, <3>3, LFQueueAssumption DEF Indices
  <2>3. /\ After(next_read_index_) + k - 1 = After(next_read_index_) + (k - 1)
        /\ next_read_index_ + (k + 1) - 1 = next_read_index_ + k
    BY <1>2, <2>1, LFQueueAssumption DEF Indices
  <2>4. Contents'[k] = store_[(next_read_index_ + k) % N][1]
    BY <1>6, <2>2, <2>3
  <2>5. Contents[k + 1] = store_[(next_read_index_ + k) % N][1]
    BY <1>5, <2>1, <2>3
  <2> QED BY <2>4, <2>5
<1>9. Contents' = [k \in 1 .. size - 1 |-> Contents'[k]]
  BY <1>3, <1>6
<1> HIDE DEF Contents
<1>10. Contents # <<>> /\ Tail(Contents) = [k \in 1 .. size - 1 |-> Contents[k + 1]]
  <2>1. Contents # <<>>
    BY ONLY <1>3, <1>5, Len(<<>>) = 0
  <2>2. Len(Contents) - 1 = size - 1
    BY ONLY <1>5
  <2> QED BY ONLY <1>5, <2>1, <2>2, TailOf
<1>11. Contents' = Tail(Contents)
  BY <1>3, <1>8, <1>9, <1>10
<1> QED BY <1>7, <1>10, <1>11 DEF FIFO!Take

(* A step that moves neither index and no published slot changes nothing   *)
(* the queue shows.                                                        *)
LEMMA OtherStepsStutter ==
  ASSUME LFInv,
         UNCHANGED <<next_write_index_, next_read_index_, received>>,
         store_' \in [Indices -> Items \X Items],
         \A i \in Indices : Published(i) => store_'[i] = store_[i]
  PROVE  UNCHANGED FIFO!fifoVars
<1>1. size' = size /\ size \in 0 .. N - 1
  BY SizeBounds DEF LFInv, size
<1>2. ASSUME NEW k \in 1 .. size
      PROVE  store_'[(next_read_index_ + k - 1) % N][1]
               = store_[(next_read_index_ + k - 1) % N][1]
  <2>1. k - 1 \in 0 .. N - 1 /\ next_read_index_ \in Indices
        /\ next_write_index_ \in Indices
        /\ next_read_index_ + k - 1 = next_read_index_ + (k - 1)
    BY <1>1, LFQueueAssumption DEF LFInv, LFTypeOK, Indices
  <2>2. /\ (next_read_index_ + k - 1) % N \in Indices
        /\ (next_read_index_ + k - 1) % N =
              IF next_read_index_ + (k - 1) < N
              THEN next_read_index_ + (k - 1) ELSE next_read_index_ + (k - 1) - N
    BY <2>1, SlotValue
  <2>3. (next_read_index_ + k - 1) % N =
           IF next_read_index_ + (k - 1) < N
           THEN next_read_index_ + (k - 1) ELSE next_read_index_ + (k - 1) - N
    BY <2>2
  <2> DEFINE j == (next_read_index_ + k - 1) % N
  <2>4. j \in Indices
    BY <2>2
  <2>5. j = IF next_read_index_ + (k - 1) < N
            THEN next_read_index_ + (k - 1) ELSE next_read_index_ + (k - 1) - N
    BY <2>3
  <2> HIDE DEF j
  <2>6. Published(j)
    <3>1. CASE next_write_index_ >= next_read_index_
      <4>1. k <= next_write_index_ - next_read_index_
        BY <2>1, <3>1 DEF size, Indices
      <4> QED BY <2>1, <2>5, <3>1, <4>1, LFQueueAssumption DEF Published, Indices
    <3>2. CASE ~ (next_write_index_ >= next_read_index_)
      <4>1. k <= N - next_read_index_ + next_write_index_
        BY <2>1, <3>2 DEF size, Indices
      <4> QED BY <2>1, <2>4, <2>5, <3>2, <4>1, LFQueueAssumption DEF Published, Indices
    <3> QED BY <3>1, <3>2
  <2>7. store_'[j][1] = store_[j][1]
    BY <2>4, <2>6
  <2> QED BY <2>7 DEF j
<1>3. Contents' = Contents
  <2>1. Contents' = [k \in 1 .. size |-> store_'[(next_read_index_ + k - 1) % N][1]]
    BY <1>1 DEF Contents
  <2> HIDE DEF size
  <2> QED BY <1>2, <2>1 DEF Contents
<1> QED BY <1>3 DEF FIFO!fifoVars

(* Every step of the ring is a step of the queue or leaves it alone.       *)
LEMMA RingStep ==
  ASSUME LFInv, [LFNext]_lfVars
  PROVE  [FIFO!Put \/ FIFO!Take]_FIFO!fifoVars
<1> USE DEF LFInv
<1>1. CASE updateWriteIndex
  BY <1>1, PublishPuts
<1>2. CASE updateReadIndex
  BY <1>2, ReleaseTakes
<1>3. ASSUME UNCHANGED <<ringVars, received>>
      PROVE  UNCHANGED FIFO!fifoVars
  BY <1>3, OtherStepsStutter DEF ringVars, LFTypeOK
<1>4. CASE FillFirst \/ FillSecond
  <2>1. /\ UNCHANGED <<next_write_index_, next_read_index_, received>>
        /\ \/ store_' = [store_ EXCEPT ![next_write_index_][1] = writer.item]
           \/ store_' = [store_ EXCEPT ![next_write_index_][2] = writer.item]
    BY <1>4 DEF FillFirst, FillSecond
  <2>2. store_' \in [Indices -> Items \X Items]
        /\ \A i \in Indices : i # next_write_index_ => store_'[i] = store_[i]
    BY <2>1 DEF LFTypeOK
  <2>3. ~ Published(next_write_index_)
    BY SlotsApart
  <2> QED BY <2>1, <2>2, <2>3, OtherStepsStutter
<1>5. CASE \/ \E v \in Values : getNextToWriteTo(v)
           \/ AssertWrite \/ getNextToRead \/ ReadFirst \/ ReadSecond \/ AssertRead
           \/ UNCHANGED lfVars
  BY <1>3, <1>5 DEF getNextToWriteTo, AssertWrite, getNextToRead, ReadFirst, ReadSecond,
    AssertRead, lfVars, ringVars
<1> QED BY <1>1, <1>2, <1>4, <1>5 DEF LFNext, Writer, Reader

(* The ring of N slots implements a FIFO queue of N - 1 items, for every N *)
(* and every interleaving of the two threads.                              *)
THEOREM RingImplementsFIFO == LFSpec => ImplementsFIFO
<1>1. LFInit => FIFO!FIFOInit
  <2> SUFFICES ASSUME LFInit PROVE Contents = <<>> /\ received \notin Values
    BY DEF FIFO!FIFOInit
  <2>1. size = 0
    BY LFQueueAssumption DEF LFInit, size
  <2>2. Contents = <<>>
    <3> HIDE DEF size
    <3> QED BY <2>1 DEF Contents
  <2> QED BY <2>2, LFQueueAssumption DEF LFInit
<1>2. LFInv /\ [LFNext]_lfVars => [FIFO!Put \/ FIFO!Take]_FIFO!fifoVars
  BY RingStep
<1> QED BY <1>1, <1>2, LFInvariant, PTL DEF LFSpec, ImplementsFIFO, FIFO!FIFOSpec

=============================================================================
