------------------------------ MODULE PortFifo ------------------------------
(***************************************************************************)
(* What a HAL port promises (hal.h): a one way byte stream between one     *)
(* writer and one reader, each of whom may call at any time.  A call takes *)
(* effect at once and as a whole.                                          *)
(***************************************************************************)
EXTENDS Naturals, Sequences

CONSTANTS Size, Counts

VARIABLES
    queue,  \* the bytes in the port, each told by its number in the stream
    sent,   \* number of the last byte written
    got     \* what the last read or peek that succeeded delivered

First(n) == SubSeq(queue, 1, n)
Dropped(n) == SubSeq(queue, n + 1, Len(queue))

FifoInit == queue = <<>> /\ sent = 0 /\ got = <<>>

Put(n) ==
    /\ Len(queue) + n < Size
    /\ queue' = queue \o [k \in 1 .. n |-> sent + k]
    /\ sent' = sent + n
    /\ UNCHANGED got

Get(n) ==
    /\ n <= Len(queue)
    /\ got' = First(n)
    /\ queue' = Dropped(n)
    /\ UNCHANGED sent

Peek(n) ==
    /\ n <= Len(queue)
    /\ got' = First(n)
    /\ UNCHANGED <<queue, sent>>

\* Skipping what was peeked at, or clearing what was in the port.
Skip(n) ==
    /\ n <= Len(queue)
    /\ queue' = Dropped(n)
    /\ UNCHANGED <<sent, got>>

FifoNext ==
    \/ \E n \in Counts : Put(n) \/ Get(n) \/ Peek(n)
    \/ \E n \in 1 .. Len(queue) : Skip(n)

FifoSpec == FifoInit /\ [][FifoNext]_<<queue, sent, got>>
=============================================================================
