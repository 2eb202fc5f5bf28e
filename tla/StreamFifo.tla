----------------------------- MODULE StreamFifo -----------------------------
(***************************************************************************)
(* What a HAL stream promises (docs/man/man3/hal_stream.3hal): a bounded   *)
(* queue of records between one writer and one reader.  The records are    *)
(* numbered, and every record is read once, whole and in order.            *)
(***************************************************************************)
EXTENDS Naturals, Sequences

CONSTANTS Depth, Value

VARIABLES queue, number, received

Record == [pins : Value, s : Nat]

FifoInit ==
    /\ queue = <<>>
    /\ number = 0
    /\ received \in Record

Put ==
    /\ Len(queue) < Depth - 1
    /\ number' = number + 1
    /\ \E v \in Value : queue' = Append(queue, [pins |-> v, s |-> number'])
    /\ UNCHANGED received

Get ==
    /\ queue # <<>>
    /\ received' = Head(queue)
    /\ queue' = Tail(queue)
    /\ UNCHANGED number

FifoNext == Put \/ Get

FifoSpec == FifoInit /\ [][FifoNext]_<<queue, number, received>>
=============================================================================
