-------------------------- MODULE HalStreamProofs ---------------------------
(***************************************************************************)
(* Proofs about module HalStream, for rings of any depth: the indices stay *)
(* in the ring, reader and writer never meet in a slot, and the two        *)
(* implement the bounded queue of module StreamFifo.                       *)
(***************************************************************************)
EXTENDS HalStream, SequenceTheorems, TLAPS

USE DepthAssumption DEF DepthAssumption

(* What the slots at in and out hold while a call is on its way; the checks that
   let the call begin stay true until it ends. *)
Claims ==
    /\ writer.pc # "idle" => Writable
    /\ reader.pc # "idle" => Readable
    /\ writer.pc \in {"sample", "publish"} => data[in].pins = writer.buf
    /\ writer.pc = "publish" => data[in].s = this_sample
    /\ reader.pc \in {"sample", "publish"} => reader.buf = data[out].pins
    /\ reader.pc = "publish" => reader.s = data[out].s

IInv == StreamTypeOK /\ Claims

-----------------------------------------------------------------------------
(* Advance() moves within the ring and keeps different slots different. *)
LEMMA AdvanceInRing == \A n \in Slot : Advance(n) \in Slot
BY DEF Slot, Advance

LEMMA AdvanceInjective == \A m, n \in Slot : Advance(m) = Advance(n) => m = n
BY DEF Slot, Advance

(* The counters of failed calls wrap around. *)
LEMMA IncrementInRange == \A n \in 0 .. ULongMax : Increment(n) \in 0 .. ULongMax
BY BoundsAssumption DEF BoundsAssumption, Increment

(* A created stream satisfies the invariant. *)
LEMMA InitIInv == Init => IInv
BY BoundsAssumption DEF Init, IInv, StreamTypeOK, Claims, Slot, Record, BoundsAssumption

(* Every step of hal_stream_write() keeps the invariant. *)
LEMMA WriteIInv == IInv /\ Write => IInv'
<1> SUFFICES ASSUME IInv, Write PROVE IInv'
  OBVIOUS
<1> USE DEF IInv, StreamTypeOK
<1>1. CASE WriteFull
  BY <1>1, IncrementInRange DEF WriteFull, Claims, Writable, Readable
<1>2. CASE WriteBegin
  BY <1>2 DEF WriteBegin, Claims, Writable, Readable
<1>3. CASE WritePins
  <2>1. data' \in [Slot -> Record]
    BY <1>3 DEF WritePins, Record
  <2>2. writer' \in [pc : {"idle", "pins", "sample", "publish"}, buf : Value]
    BY <1>3 DEF WritePins
  <2>3. reader.pc # "idle" => data'[out] = data[out]
    BY <1>3 DEF WritePins, Claims, Readable
  <2>4. data'[in].pins = writer.buf
    BY <1>3 DEF WritePins, Record
  <2> QED
    BY <1>3, <2>1, <2>2, <2>3, <2>4 DEF WritePins, Claims, Writable, Readable
<1>4. CASE WriteSample
  <2>1. data' \in [Slot -> Record]
    BY <1>4 DEF WriteSample, Record
  <2>2. writer' \in [pc : {"idle", "pins", "sample", "publish"}, buf : Value]
    BY <1>4 DEF WriteSample
  <2>3. reader.pc # "idle" => data'[out] = data[out]
    BY <1>4 DEF WriteSample, Claims, Readable
  <2>4. data'[in].pins = writer.buf /\ data'[in].s = this_sample'
    BY <1>4 DEF WriteSample, Record, Claims
  <2> QED
    BY <1>4, <2>1, <2>2, <2>3, <2>4 DEF WriteSample, Claims, Writable, Readable
<1>5. CASE WritePublish
  <2>1. writer' \in [pc : {"idle", "pins", "sample", "publish"}, buf : Value]
    BY <1>5 DEF WritePublish
  <2>2. Advance(in) # out
    BY <1>5 DEF WritePublish, Claims, Writable
  <2> QED
    BY <1>5, <2>1, <2>2, AdvanceInRing DEF WritePublish, Claims, Readable
<1> QED
  BY <1>1, <1>2, <1>3, <1>4, <1>5 DEF Write

(* Every step of hal_stream_read() keeps the invariant. *)
LEMMA ReadIInv == IInv /\ Read => IInv'
<1> SUFFICES ASSUME IInv, Read PROVE IInv'
  OBVIOUS
<1> USE DEF IInv, StreamTypeOK
<1>1. CASE ReadEmpty
  BY <1>1, IncrementInRange DEF ReadEmpty, Claims, Writable, Readable
<1>2. CASE ReadBegin
  BY <1>2 DEF ReadBegin, Claims, Writable, Readable
<1>3. CASE ReadPins
  BY <1>3 DEF ReadPins, Claims, Writable, Readable, Record
<1>4. CASE ReadSample
  BY <1>4 DEF ReadSample, Claims, Writable, Readable, Record
<1>5. CASE ReadPublish
  <2>1. reader' \in [pc : {"idle", "pins", "sample", "publish"}, buf : Value, s : Nat]
    BY <1>5 DEF ReadPublish
  <2>2. Advance(in) # Advance(out)
    BY <1>5, AdvanceInjective DEF ReadPublish, Claims, Readable
  <2> QED
    BY <1>5, <2>1, <2>2, AdvanceInRing DEF ReadPublish, Claims, Writable, Record
<1> QED
  BY <1>1, <1>2, <1>3, <1>4, <1>5 DEF Read

(* The invariant is inductive. *)
LEMMA NextIInv == IInv /\ [Next]_vars => IInv'
<1>1. IInv /\ UNCHANGED vars => IInv'
  BY DEF IInv, StreamTypeOK, Claims, vars, Writable, Readable
<1> QED
  BY <1>1, WriteIInv, ReadIInv DEF Next

(* The invariant holds in every reachable state. *)
LEMMA IInvHolds == Spec => []IInv
BY InitIInv, NextIInv, PTL DEF Spec

(* The indices of the ring never leave it, for every depth. *)
THEOREM StreamTypeCorrect == Spec => []StreamTypeOK
BY IInvHolds, PTL DEF IInv

(* hal_stream_write() and hal_stream_read() never work on the same slot at the same
   time, for every depth and every interleaving of one writer and one reader. *)
THEOREM NoTornRecordHolds == Spec => []NoTornRecord
<1>1. IInv => NoTornRecord
  BY DEF IInv, Claims, NoTornRecord, Readable
<1> QED
  BY <1>1, IInvHolds, PTL

-----------------------------------------------------------------------------
(* The queue of the waiting records is a sequence shorter than the ring; it is
   stored in slots of the ring, none of which is the one at in. *)
LEMMA QueueType ==
    ASSUME StreamTypeOK
    PROVE  /\ Waiting \in 0 .. Depth - 1
           /\ \A k \in 1 .. Waiting : Nth(k) \in Slot /\ Nth(k) # in
           /\ Queue \in Seq(Record)
           /\ Len(Queue) = Waiting
           /\ Waiting # 0 => Nth(1) = out
           /\ Writable => Waiting < Depth - 1
           /\ Readable => Waiting # 0
<1>1. Waiting \in 0 .. Depth - 1
  BY DEF StreamTypeOK, Slot, Waiting
<1>2. \A k \in 1 .. Waiting : Nth(k) \in Slot /\ Nth(k) # in
  BY DEF StreamTypeOK, Slot, Waiting, Nth
<1>3. Queue \in [1 .. Waiting -> Record]
  BY <1>2 DEF StreamTypeOK, Queue
<1>4. Queue \in Seq(Record) /\ Len(Queue) = Waiting
  BY <1>1, <1>3
<1>5. Waiting # 0 => Nth(1) = out
  BY DEF StreamTypeOK, Slot, Nth
<1>6. (Writable => Waiting < Depth - 1) /\ (Readable => Waiting # 0)
  BY DEF StreamTypeOK, Slot, Waiting, Writable, Readable, Advance
<1> QED
  BY <1>1, <1>2, <1>4, <1>5, <1>6

(* A step that moves neither index and changes no slot but the one at in leaves the
   queue as it is. *)
LEMMA QueueKept ==
    ASSUME StreamTypeOK, UNCHANGED <<in, out>>,
           \A i \in Slot : i # in => data'[i] = data[i]
    PROVE  Queue' = Queue
<1>1. Waiting' = Waiting /\ \A k \in 1 .. Waiting : Nth(k)' = Nth(k)
  BY DEF Waiting, Nth
<1>2. \A k \in 1 .. Waiting : data'[Nth(k)'] = data[Nth(k)]
  BY <1>1, QueueType
<1> QED
  BY <1>1, <1>2 DEF Queue

(* The store to in at the end of hal_stream_write() appends the record at in. *)
LEMMA QueueAppend ==
    ASSUME StreamTypeOK, Writable, in' = Advance(in), UNCHANGED <<out, data>>
    PROVE  Queue' = Append(Queue, data[in])
<1>1. Waiting' = Waiting + 1
  BY DEF StreamTypeOK, Slot, Waiting, Writable, Advance
<1>2. Nth(Waiting + 1) = in
  BY DEF StreamTypeOK, Slot, Waiting, Nth, Writable, Advance
<1>3. \A k \in 1 .. Waiting + 1 : Nth(k)' = Nth(k)
  BY DEF Nth
<1>4. Queue' = [k \in 1 .. Waiting + 1 |-> data[Nth(k)]]
  BY <1>1, <1>3 DEF Queue
<1>5. Append(Queue, data[in]) =
          [k \in 1 .. Waiting + 1 |-> IF k = Waiting + 1 THEN data[in] ELSE Queue[k]]
  BY QueueType
<1>6. ASSUME NEW k \in 1 .. Waiting + 1
      PROVE  data[Nth(k)] = IF k = Waiting + 1 THEN data[in] ELSE Queue[k]
  BY <1>2, QueueType DEF Queue
<1> QED
  BY <1>4, <1>5, <1>6

(* A sequence is the function that lists its elements. *)
LEMMA SequenceIsFunction ==
    ASSUME NEW S, NEW s \in Seq(S)
    PROVE  s = [k \in 1 .. Len(s) |-> s[k]]
OBVIOUS

(* The store to out at the end of hal_stream_read() takes the record at out. *)
LEMMA QueueTail ==
    ASSUME StreamTypeOK, Readable, out' = Advance(out), UNCHANGED <<in, data>>
    PROVE  /\ Queue # <<>>
           /\ Head(Queue) = data[out]
           /\ Queue' = Tail(Queue)
<1>1. Waiting \in Nat \ {0} /\ Waiting' = Waiting - 1
  BY DEF StreamTypeOK, Slot, Waiting, Readable, Advance
<1>2. \A k \in 1 .. Waiting - 1 : Nth(k)' = Nth(k + 1)
  BY DEF StreamTypeOK, Slot, Nth, Advance, Waiting
<1>3. Queue \in Seq(Record) /\ Len(Queue) = Waiting /\ Nth(1) = out
  BY <1>1, QueueType
<1>4. Head(Queue) = data[out] /\ Queue # <<>>
  BY <1>1, <1>3 DEF Queue
<1>5. Tail(Queue) = [k \in 1 .. Waiting - 1 |-> Queue[k + 1]]
  <2>1. /\ Tail(Queue) \in Seq(Record) /\ Len(Tail(Queue)) = Waiting - 1
        /\ \A k \in 1 .. Waiting - 1 : Tail(Queue)[k] = Queue[k + 1]
    BY <1>1, <1>3, <1>4, HeadTailProperties
  <2>2. Tail(Queue) = [k \in 1 .. Waiting - 1 |-> Tail(Queue)[k]]
    BY <2>1, SequenceIsFunction
  <2> QED
    BY <2>1, <2>2
<1>6. Queue' = [k \in 1 .. Waiting - 1 |-> data[Nth(k + 1)]]
  BY <1>1, <1>2 DEF Queue
<1>7. ASSUME NEW k \in 1 .. Waiting - 1 PROVE Queue[k + 1] = data[Nth(k + 1)]
  BY <1>1 DEF Queue
<1> QED
  BY <1>4, <1>5, <1>6, <1>7

(* A created stream is an empty queue. *)
LEMMA FifoInitial == Init => Fifo!FifoInit
<1> SUFFICES ASSUME Init PROVE Fifo!FifoInit
  OBVIOUS
<1>1. Queue = <<>>
  BY DEF Init, Queue, Waiting
<1> QED
  BY <1>1 DEF Init, Fifo!FifoInit, Fifo!Record

(* Every step of the code is a step of the queue or leaves it alone: a record is put
   when hal_stream_write() stores in, and taken when hal_stream_read() stores out. *)
LEMMA FifoStep ==
    IInv /\ [Next]_vars => [Fifo!FifoNext]_<<Queue,
        IF writer.pc = "publish" THEN this_sample - 1 ELSE this_sample, received>>
<1> DEFINE number == IF writer.pc = "publish" THEN this_sample - 1 ELSE this_sample
<1> SUFFICES ASSUME IInv, [Next]_vars
             PROVE  Fifo!FifoNext \/ UNCHANGED <<Queue, number, received>>
  OBVIOUS
<1> USE DEF IInv
<1>1. CASE WritePublish
  <2>1. Queue' = Append(Queue, data[in])
    BY <1>1, QueueAppend DEF WritePublish, Claims
  <2>2. data[in] = [pins |-> writer.buf, s |-> this_sample] /\ writer.buf \in Value
    BY <1>1 DEF WritePublish, Claims, StreamTypeOK, Record
  <2>3. number' = number + 1 /\ number' = this_sample
    BY <1>1 DEF WritePublish, StreamTypeOK
  <2>4. Len(Queue) < Depth - 1
    BY <1>1, QueueType DEF WritePublish, Claims
  <2>5. received' = received
    BY <1>1 DEF WritePublish
  <2>6. Fifo!Put
    BY <2>1, <2>2, <2>3, <2>4, <2>5 DEF Fifo!Put
  <2> QED
    BY <2>6 DEF Fifo!FifoNext
<1>2. CASE ReadPublish
  <2>1. Queue # <<>> /\ Head(Queue) = data[out] /\ Queue' = Tail(Queue)
    BY <1>2, QueueTail DEF ReadPublish, Claims
  <2>2. received' = data[out]
    BY <1>2 DEF ReadPublish, Claims, StreamTypeOK, Record
  <2>3. number' = number
    BY <1>2 DEF ReadPublish
  <2>4. Fifo!Get
    BY <2>1, <2>2, <2>3 DEF Fifo!Get
  <2> QED
    BY <2>4 DEF Fifo!FifoNext
<1>3. CASE WriteFull \/ WriteBegin \/ ReadEmpty \/ ReadBegin \/ ReadPins \/ ReadSample
           \/ UNCHANGED vars
  <2>1. UNCHANGED <<in, out, data, received, number>>
    BY <1>3 DEF WriteFull, WriteBegin, ReadEmpty, ReadBegin, ReadPins, ReadSample, vars
  <2> QED
    BY <2>1, QueueKept
<1>4. CASE WritePins \/ WriteSample
  <2>1. UNCHANGED <<in, out, received>> /\ \A i \in Slot : i # in => data'[i] = data[i]
    BY <1>4 DEF WritePins, WriteSample, StreamTypeOK
  <2>2. number' = number
    BY <1>4 DEF WritePins, WriteSample, StreamTypeOK
  <2> QED
    BY <2>1, <2>2, QueueKept
<1> QED
  BY <1>1, <1>2, <1>3, <1>4 DEF Next, Write, Read

(* hal_stream_write() and hal_stream_read() implement a bounded queue of numbered
   records, for every depth: no record is lost, repeated, torn or out of order. *)
THEOREM StreamImplementsFifo == Spec => ImplementsFifo
BY FifoInitial, FifoStep, IInvHolds, PTL DEF Spec, ImplementsFifo, Fifo!FifoSpec
=============================================================================
