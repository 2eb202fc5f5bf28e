------------------------------ MODULE HalPort -------------------------------
(***************************************************************************)
(* HAL ports (hal_lib.c): a ring of Size bytes in shared memory, without a *)
(* lock, between the component that owns the OUT pin and the one that owns *)
(* the IN pin.  A call loads both positions once, copies up to the end of  *)
(* the ring, copies the rest from or to its beginning, and stores its own  *)
(* position; the steps of the two sides interleave.  A call that is        *)
(* refused (no port, no bytes asked for, too few there) changes nothing    *)
(* and is no step of the model.                                            *)
(*                                                                         *)
(* A byte is told by its number in the stream, 0 before anything has been  *)
(* written.  The loads have acquire and the stores release semantics, so   *)
(* the copies stay between them.                                           *)
(***************************************************************************)
EXTENDS Naturals, Sequences

CONSTANTS
    Size,      \* port_shm->size
    Counts,    \* numbers of bytes the two components write, read or peek at
    MaxByte    \* bound: bytes written

ASSUME PortAssumption ==
    /\ Size \in Nat \ {0} /\ MaxByte \in Nat
    /\ Counts \subseteq Nat \ {0}

VARIABLES
    port,     \* *port_shm: read, write and buff
    writer,   \* hal_port_write(): its step and its local variables
    reader,   \* the reader's call, its step and its local variables
    sent,     \* history: number of the last byte a write that returned wrote
    got,      \* history: what the last read or peek that succeeded delivered
    topped    \* history: a write has filled the port exactly, with read at 0

vars == <<port, writer, reader, sent, got, topped>>

Position == 0 .. Size - 1

-----------------------------------------------------------------------------
(* How much there is to read and to write, and how a copy is cut in two.   *)

hal_port_bytes_readable(read, write) ==
    IF read <= write THEN write - read ELSE Size - read + write

\* Mutant: no byte is kept free between the two positions.
BytesWritableAll(read, write) ==
    IF write < read THEN read - write ELSE Size - write + read

hal_port_bytes_writable(read, write) ==
    IF write < read THEN read - write - 1 ELSE Size - write + read - 1

Cut(end, beg, final) == [end |-> end, beg |-> beg, final |-> final]

\* Mutant: the read that ends at the end of the ring does not wrap around.
ComputeCopyFlat(read, write, count) ==
    IF read <= write \/ count <= Size - read
    THEN Cut(count, 0, read + count)
    ELSE Cut(Size - read, count - (Size - read), count - (Size - read))

\* hal_port_compute_copy(), given that count bytes can be read
hal_port_compute_copy(read, write, count) ==
    IF read <= write \/ count < Size - read
    THEN Cut(count, 0, read + count)
    ELSE Cut(Size - read, count - (Size - read), count - (Size - read))

\* The same computation in hal_port_write(), given that count bytes can be written
WriteCut(read, write, count) ==
    LET end == IF read = 0 THEN hal_port_bytes_writable(read, write) ELSE Size - write
    IN  IF write < read \/ count < end
        THEN Cut(count, 0, write + count)
        ELSE Cut(end, count - end, count - end)

-----------------------------------------------------------------------------
(* hal_port_write() *)

WriteBegin(n) ==
    /\ writer.pc = "idle"
    /\ sent + n <= MaxByte
    /\ n <= hal_port_bytes_writable(port.read, port.write)
    /\ writer' = [pc |-> "end", count |-> n, cut |-> WriteCut(port.read, port.write, n)]
    /\ topped' = (topped \/ (port.read = 0 /\ n = hal_port_bytes_writable(0, port.write)))
    /\ UNCHANGED <<port, reader, sent, got>>

WriteEnd ==
    /\ writer.pc = "end"
    /\ port' = [port EXCEPT !.buff = [i \in Position |->
                  IF i \in port.write .. port.write + writer.cut.end - 1
                  THEN sent + 1 + i - port.write ELSE @[i]]]
    /\ writer' = [writer EXCEPT !.pc = "beg"]
    /\ UNCHANGED <<reader, sent, got, topped>>

\* Mutant: the second copy starts from the beginning of src again.
WriteBegAgain ==
    /\ writer.pc = "beg"
    /\ port' = [port EXCEPT !.buff = [i \in Position |->
                  IF i < writer.cut.beg THEN sent + 1 + i ELSE @[i]]]
    /\ writer' = [writer EXCEPT !.pc = "store"]
    /\ UNCHANGED <<reader, sent, got, topped>>

WriteBeg ==
    /\ writer.pc = "beg"
    /\ port' = [port EXCEPT !.buff = [i \in Position |->
                  IF i < writer.cut.beg THEN sent + 1 + writer.cut.end + i ELSE @[i]]]
    /\ writer' = [writer EXCEPT !.pc = "store"]
    /\ UNCHANGED <<reader, sent, got, topped>>

WriteStore ==
    /\ writer.pc = "store"
    /\ port' = [port EXCEPT !.write = writer.cut.final]
    /\ writer' = [writer EXCEPT !.pc = "idle"]
    /\ sent' = sent + writer.count
    /\ UNCHANGED <<reader, got, topped>>

-----------------------------------------------------------------------------
(* hal_port_read(), hal_port_peek(), hal_port_peek_commit() and            *)
(* hal_port_clear(), the calls of the reader.                              *)

\* Mutant: a read needs one byte more than it takes.
MayReadShort(n) == n < hal_port_bytes_readable(port.read, port.write)

MayRead(n) == n <= hal_port_bytes_readable(port.read, port.write)

Copying(op, n) ==
    [pc |-> IF op = "commit" THEN "store" ELSE "end", op |-> op,
     cut |-> hal_port_compute_copy(port.read, port.write, n), dest |-> <<>>]

ReadBegin(op, n) ==
    /\ reader.pc = "idle"
    /\ MayRead(n)
    /\ reader' = Copying(op, n)
    /\ UNCHANGED <<port, writer, sent, got, topped>>

ClearBegin ==
    /\ reader.pc = "idle"
    /\ reader' = [reader EXCEPT !.pc = "store", !.op = "clear",
                                !.cut = Cut(0, 0, port.write), !.dest = <<>>]
    /\ UNCHANGED <<port, writer, sent, got, topped>>

ReadEnd ==
    /\ reader.pc = "end"
    /\ reader' = [reader EXCEPT !.pc = "beg",
                    !.dest = [k \in 1 .. reader.cut.end |-> port.buff[port.read + k - 1]]]
    /\ UNCHANGED <<port, writer, sent, got, topped>>

\* The copy from the beginning of the ring, after which a peek returns.
ReadBeg ==
    /\ reader.pc = "beg"
    /\ LET dest == reader.dest \o [k \in 1 .. reader.cut.beg |-> port.buff[k - 1]]
       IN  IF reader.op = "peek"
           THEN got' = dest /\ reader' = [reader EXCEPT !.pc = "idle", !.dest = <<>>]
           ELSE UNCHANGED got /\ reader' = [reader EXCEPT !.pc = "store", !.dest = dest]
    /\ UNCHANGED <<port, writer, sent, topped>>

ReadStore ==
    /\ reader.pc = "store"
    /\ port' = [port EXCEPT !.read = reader.cut.final]
    /\ reader' = [reader EXCEPT !.pc = "idle", !.dest = <<>>]
    /\ got' = IF reader.op = "read" THEN reader.dest ELSE got
    /\ UNCHANGED <<writer, sent, topped>>

-----------------------------------------------------------------------------
\* hal_port_alloc()
Init ==
    /\ port = [read |-> 0, write |-> 0, buff |-> [i \in Position |-> 0]]
    /\ writer = [pc |-> "idle", count |-> 0, cut |-> Cut(0, 0, 0)]
    /\ reader = [pc |-> "idle", op |-> "read", cut |-> Cut(0, 0, 0), dest |-> <<>>]
    /\ sent = 0
    /\ got = <<>>
    /\ topped = FALSE

Next ==
    \/ \E n \in Counts : WriteBegin(n) \/ \E op \in {"read", "peek", "commit"} : ReadBegin(op, n)
    \/ WriteEnd \/ WriteBeg \/ WriteStore
    \/ ClearBegin \/ ReadEnd \/ ReadBeg \/ ReadStore

Spec == Init /\ [][Next]_vars

(* A call that has begun ends, and a reader that waits for some number of  *)
(* bytes (hal_port_wait_readable) reads them once they are there.          *)
FairSpec ==
    /\ Spec
    /\ WF_vars(WriteEnd \/ WriteBeg \/ WriteStore)
    /\ WF_vars(ReadEnd \/ ReadBeg \/ ReadStore)
    /\ SF_vars(\E n \in Counts : ReadBegin("read", n))

-----------------------------------------------------------------------------
(* Properties *)

Readable == hal_port_bytes_readable(port.read, port.write)

\* The positions stay in the ring, also those a call is about to store.
PortTypeOK ==
    /\ port \in [read : Position, write : Position, buff : [Position -> Nat]]
    /\ writer.pc \in {"idle", "end", "beg", "store"}
    /\ reader.pc \in {"idle", "end", "beg", "store"}
    /\ reader.op \in {"read", "peek", "commit", "clear"}
    /\ writer.cut.final \in Position /\ reader.cut.final \in Position
    /\ sent \in 0 .. MaxByte

\* The bytes of the ring a copy of the writer fills, and those the reader takes.
Filled ==
    IF writer.pc \in {"end", "beg"}
    THEN (port.write .. port.write + writer.cut.end - 1) \cup (0 .. writer.cut.beg - 1)
    ELSE {}

Taken ==
    IF reader.pc \in {"end", "beg"}
    THEN (port.read .. port.read + reader.cut.end - 1) \cup (0 .. reader.cut.beg - 1)
    ELSE {}

(* hal.h: "Both sides can read or write respectivly at any time without    *)
(* interfering with the other": hal_port_write() never fills a byte that   *)
(* hal_port_read() or hal_port_peek() copies, nor one outside the ring.    *)
(* Excepted (topped): a write that begins with read = 0 and fills the port *)
(* exactly stores a wrong position (hal_lib.c:3734-3737, WrittenStays);    *)
(* nothing is said from that call on.                                      *)
SidesApart ==
    /\ PortTypeOK
    /\ topped \/ (Filled \cap Taken = {} /\ Filled \cup Taken \subseteq Position)

\* The bytes from read to write, around the end of the ring.
Queue == [k \in 1 .. Readable |-> port.buff[(port.read + k - 1) % Size]]

Fifo == INSTANCE PortFifo WITH queue <- Queue

(* The calls of hal_lib.c implement a byte stream: what is written is read *)
(* once, in order, and goes in and out as a whole, up to the first write   *)
(* that begins with read = 0 and fills the port exactly (topped).          *)
ImplementsPort == Fifo!FifoInit /\ [][topped' \/ Fifo!FifoNext]_<<Queue, sent, got>>

InPort(n) == \E k \in 1 .. Readable : Queue[k] = n

(* With a reader that waits for bytes (hal_port_wait_readable) and reads   *)
(* them, every byte that comes into the port leaves it, be the writer as   *)
(* busy as it likes; by ImplementsPort it leaves by a read, a commit or a  *)
(* clear.  The exception is the exact fill of ImplementsPort (topped).     *)
EachByteLeaves == \A n \in 1 .. MaxByte : InPort(n) ~> (topped \/ ~ InPort(n))

(* hal.h of hal_port_write(): "true: count bytes were written".  A write   *)
(* that has returned true leaves at least its own bytes to be read, as     *)
(* long as the reader has taken nothing meanwhile.                         *)
WrittenStays ==
    [][(writer.pc = "store" /\ writer'.pc = "idle" /\ port'.read = port.read)
         => hal_port_bytes_readable(port'.read, port'.write) >= writer.count]_vars
=============================================================================
