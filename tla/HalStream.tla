----------------------------- MODULE HalStream ------------------------------
(***************************************************************************)
(* hal_stream_write() and hal_stream_read() of hal_lib.c: a ring of Depth  *)
(* records in shared memory, without a lock, between one writer and one    *)
(* reader, one of them a realtime thread and the other a user process.     *)
(* The steps of the two interleave at every access to shared memory.  A    *)
(* record is copied in two parts, its pins and its sample number.  Loads   *)
(* are taken in program order (x86, or the fences of rtapi_atomic.h), and  *)
(* the release stores of the indices keep the copies before them.          *)
(***************************************************************************)
EXTENDS Naturals, Sequences

CONSTANTS
    Depth,      \* fifo->depth
    Value,      \* what the pins of one record may hold
    MaxSample,  \* bound on the records written
    ULongMax    \* ULONG_MAX, where the counters of failed calls wrap around

ASSUME DepthAssumption == Depth \in Nat \ {0}
ASSUME ValueAssumption == Value # {}
ASSUME BoundsAssumption == MaxSample \in Nat /\ ULongMax \in Nat

Slot == 0 .. Depth - 1
Record == [pins : Value, s : Nat]

VARIABLES
    in, out,                        \* fifo->in, fifo->out
    data,                           \* fifo->data
    this_sample,                    \* fifo->this_sample
    num_overruns, num_underruns,
    writer,                         \* the step of hal_stream_write() and its buf
    reader,                         \* the step of hal_stream_read() and its buf
    received                        \* the record the last hal_stream_read() returned

vars == <<in, out, data, this_sample, num_overruns, num_underruns, writer, reader, received>>

Increment(n) == IF n = ULongMax THEN 0 ELSE n + 1

\* Mutant: one slot too many.
AdvancePast(n) == IF n + 1 > Depth THEN 0 ELSE n + 1

\* hal_stream_advance()
Advance(n) == IF n + 1 >= Depth THEN 0 ELSE n + 1

\* Mutant: the stream is never taken to be full.
WritableLast == TRUE

Writable == Advance(in) # out

\* hal_stream_depth()
StreamDepth == IF in >= out THEN in - out ELSE in + Depth - 1 - out

\* Mutant: the reader asks for the depth.
ReadableDepth == StreamDepth # 0

Readable == in # out

-----------------------------------------------------------------------------
(* hal_stream_write() *)

WriteFull ==
    /\ writer.pc = "idle" /\ ~Writable
    /\ num_overruns' = Increment(num_overruns)
    /\ UNCHANGED <<in, out, data, this_sample, num_underruns, writer, reader, received>>

WriteBegin ==
    /\ writer.pc = "idle" /\ Writable
    /\ this_sample < MaxSample
    /\ \E v \in Value : writer' = [pc |-> "pins", buf |-> v]
    /\ UNCHANGED <<in, out, data, this_sample, num_overruns, num_underruns, reader, received>>

WritePins ==
    /\ writer.pc = "pins"
    /\ data' = [data EXCEPT ![in].pins = writer.buf]
    /\ writer' = [writer EXCEPT !.pc = "sample"]
    /\ UNCHANGED <<in, out, this_sample, num_overruns, num_underruns, reader, received>>

\* Mutant: the number is taken before it is incremented.
WriteSampleOld ==
    /\ writer.pc = "sample"
    /\ this_sample' = this_sample + 1
    /\ data' = [data EXCEPT ![in].s = this_sample]
    /\ writer' = [writer EXCEPT !.pc = "publish"]
    /\ UNCHANGED <<in, out, num_overruns, num_underruns, reader, received>>

WriteSample ==
    /\ writer.pc = "sample"
    /\ this_sample' = this_sample + 1
    /\ data' = [data EXCEPT ![in].s = this_sample + 1]
    /\ writer' = [writer EXCEPT !.pc = "publish"]
    /\ UNCHANGED <<in, out, num_overruns, num_underruns, reader, received>>

WritePublish ==
    /\ writer.pc = "publish"
    /\ in' = Advance(in)
    /\ writer' = [writer EXCEPT !.pc = "idle"]
    /\ UNCHANGED <<out, data, this_sample, num_overruns, num_underruns, reader, received>>

-----------------------------------------------------------------------------
(* hal_stream_read() *)

ReadEmpty ==
    /\ reader.pc = "idle" /\ ~Readable
    /\ num_underruns' = Increment(num_underruns)
    /\ UNCHANGED <<in, out, data, this_sample, num_overruns, writer, reader, received>>

ReadBegin ==
    /\ reader.pc = "idle" /\ Readable
    /\ reader' = [reader EXCEPT !.pc = "pins"]
    /\ UNCHANGED <<in, out, data, this_sample, num_overruns, num_underruns, writer, received>>

ReadPins ==
    /\ reader.pc = "pins"
    /\ reader' = [pc |-> "sample", buf |-> data[out].pins, s |-> reader.s]
    /\ UNCHANGED <<in, out, data, this_sample, num_overruns, num_underruns, writer, received>>

ReadSample ==
    /\ reader.pc = "sample"
    /\ reader' = [pc |-> "publish", buf |-> reader.buf, s |-> data[out].s]
    /\ UNCHANGED <<in, out, data, this_sample, num_overruns, num_underruns, writer, received>>

ReadPublish ==
    /\ reader.pc = "publish"
    /\ out' = Advance(out)
    /\ reader' = [reader EXCEPT !.pc = "idle"]
    /\ received' = [pins |-> reader.buf, s |-> reader.s]
    /\ UNCHANGED <<in, data, this_sample, num_overruns, num_underruns, writer>>

-----------------------------------------------------------------------------
\* hal_stream_create(), before the first call of either side.
Init ==
    /\ in = 0 /\ out = 0
    /\ this_sample = 0 /\ num_overruns = 0 /\ num_underruns = 0
    /\ \E v \in Value :
          /\ data = [i \in Slot |-> [pins |-> v, s |-> 0]]
          /\ writer = [pc |-> "idle", buf |-> v]
          /\ reader = [pc |-> "idle", buf |-> v, s |-> 0]
          /\ received = [pins |-> v, s |-> 0]

Write == WriteFull \/ WriteBegin \/ WritePins \/ WriteSample \/ WritePublish
Read == ReadEmpty \/ ReadBegin \/ ReadPins \/ ReadSample \/ ReadPublish
Next == Write \/ Read

Spec == Init /\ [][Next]_vars

\* A call that has begun ends, and the reader is called again and again.
FairSpec ==
    /\ Spec
    /\ WF_vars(WritePins \/ WriteSample \/ WritePublish)
    /\ WF_vars(ReadBegin \/ ReadPins \/ ReadSample \/ ReadPublish)

-----------------------------------------------------------------------------
(* The indices of hal_stream_advance() stay inside the ring, and the records and
   buffers keep their types. *)
StreamTypeOK ==
    /\ in \in Slot /\ out \in Slot
    /\ data \in [Slot -> Record]
    /\ this_sample \in Nat /\ num_overruns \in 0 .. ULongMax /\ num_underruns \in 0 .. ULongMax
    /\ writer \in [pc : {"idle", "pins", "sample", "publish"}, buf : Value]
    /\ reader \in [pc : {"idle", "pins", "sample", "publish"}, buf : Value, s : Nat]
    /\ received \in Record

(* The writer never fills the slot that the reader copies from: hal_stream_write()
   and hal_stream_read() need no lock for one writer and one reader. *)
NoTornRecord == ~(writer.pc # "idle" /\ reader.pc # "idle" /\ in = out)

\* The records between out and in, the oldest first.
Waiting == IF in >= out THEN in - out ELSE in + Depth - out
Nth(k) == IF out + k <= Depth THEN out + k - 1 ELSE out + k - 1 - Depth
Queue == [k \in 1 .. Waiting |-> data[Nth(k)]]

Fifo == INSTANCE StreamFifo WITH
            queue <- Queue,
            number <- IF writer.pc = "publish" THEN this_sample - 1 ELSE this_sample

(* hal_stream_write() and hal_stream_read() together implement a bounded queue of
   numbered records: none is lost, read twice, torn or read out of order. *)
ImplementsFifo == Fifo!FifoSpec

(* Every record hal_stream_write() numbers is received in the end, the one in the
   last slot of the ring and the last one ever written included. *)
Delivered == \A n \in 1 .. MaxSample : (this_sample = n) ~> (received.s = n)

(* docs/man/man3/hal_stream.3hal of hal_stream_depth(): "Returns the number of
   samples waiting to be read." *)
DepthCounts == StreamDepth = Waiting
=============================================================================
