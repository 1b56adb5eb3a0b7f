---------------------------- MODULE XspiTransfer ----------------------------
(***************************************************************************)
(* finalTransfer of xspi.cpp: one exchange of ByteCount bytes with a flash *)
(* through the transmit and receive FIFOs of the AXI quad SPI core, which  *)
(* hold less than a page.  For every byte shifted out one is shifted in.   *)
(* Several transfers follow each other without a FIFO reset, as in         *)
(* isFlashReady and what follows it.                                       *)
(*                                                                         *)
(* A byte is <<transfer, index>>; the flash answers a byte with itself.    *)
(* External: the core's FIFOs and shift register, and the flash.           *)
(***************************************************************************)
EXTENDS Integers, Sequences

CONSTANTS
    FifoSize,
    ByteCounts,    \* lengths of a transfer
    MaxTransfers   \* bound

VARIABLES
    pc,            \* "idle", "fill", "wait", "drain", "refill", "failed"
    transfer,      \* transfers begun
    length,        \* ByteCount as passed
    sent,          \* bytes written into the FIFO: ByteCount - RemainingBytes
    RecvBuffer,    \* bytes read back
    tx, shift, rx, \* the core: FIFOs and shift register
    inhibit,
    select,        \* whether the flash is selected
    wire,          \* what the flash got in this selection
    ahead          \* a refill has begun with a byte in the shift register

core == <<tx, shift, rx, wire>>
vars == <<pc, transfer, length, sent, RecvBuffer, inhibit, select, core, ahead>>

Init ==
    /\ pc = "idle" /\ transfer = 0 /\ length = 0 /\ sent = 0
    /\ RecvBuffer = <<>>
    /\ tx = <<>> /\ shift = <<>> /\ rx = <<>> /\ wire = <<>>
    /\ inhibit = TRUE /\ select = FALSE /\ ahead = FALSE

RemainingBytes == length - sent
ByteCount == length - Len(RecvBuffer)

-----------------------------------------------------------------------------
Start(n) ==
    /\ pc = "idle" /\ transfer < MaxTransfers
    /\ pc' = "fill" /\ transfer' = transfer + 1
    /\ length' = n /\ sent' = 0 /\ RecvBuffer' = <<>>
    /\ UNCHANGED <<inhibit, select, core, ahead>>

\* One byte into the FIFO while it is not full.
FillByte ==
    /\ pc \in {"fill", "refill"} /\ Len(tx) < FifoSize /\ RemainingBytes > 0
    /\ tx' = Append(tx, <<transfer, sent + 1>>)
    /\ sent' = sent + 1
    /\ UNCHANGED <<pc, transfer, length, RecvBuffer, inhibit, select, shift,
                   rx, wire, ahead>>

FifoFilled == Len(tx) = FifoSize \/ RemainingBytes = 0

\* The flash is selected; selecting it begins a command.
Go ==
    /\ pc = "fill" /\ FifoFilled
    /\ select' = TRUE
    /\ wire' = IF select THEN wire ELSE <<>>
    /\ inhibit' = FALSE /\ pc' = "wait"
    /\ UNCHANGED <<transfer, length, sent, RecvBuffer, tx, shift, rx, ahead>>

GoOn ==
    /\ pc = "refill" /\ FifoFilled
    /\ inhibit' = FALSE /\ pc' = "wait"
    /\ UNCHANGED <<transfer, length, sent, RecvBuffer, select, core, ahead>>

\* The transmit FIFO is empty; a byte may still be in the shift register.
TxEmpty ==
    /\ pc = "wait" /\ tx = <<>>
    /\ inhibit' = TRUE /\ pc' = "drain"
    /\ UNCHANGED <<transfer, length, sent, RecvBuffer, select, core, ahead>>

DrainByte ==
    /\ pc = "drain" /\ rx # <<>>
    /\ RecvBuffer' = Append(RecvBuffer, Head(rx)) /\ rx' = Tail(rx)
    /\ UNCHANGED <<pc, transfer, length, sent, inhibit, select, tx, shift, wire,
                   ahead>>

\* Mutant: the transfer is over when all bytes have been sent.
MoreSent == RemainingBytes > 0

\* while(ByteCount > 0)
More == ByteCount > 0

\* The receive FIFO is empty: refill, look again, or end the transfer.
Drained ==
    /\ pc = "drain" /\ rx = <<>>
    /\ \/ /\ RemainingBytes > 0
          /\ pc' = "refill" /\ ahead' = (ahead \/ shift # <<>>)
          /\ UNCHANGED <<inhibit, select>>
       \/ /\ RemainingBytes = 0 /\ More
          /\ pc' = "wait" /\ UNCHANGED <<inhibit, select, ahead>>
       \/ /\ RemainingBytes = 0 /\ ~More
          /\ pc' = "idle" /\ inhibit' = TRUE /\ select' = FALSE
          /\ UNCHANGED ahead
    /\ UNCHANGED <<transfer, length, sent, RecvBuffer, core>>

\* A register access fails or the core reports an error: the run is given up.
Error ==
    /\ pc \in {"fill", "drain", "refill"}
    /\ pc' = "failed"
    /\ UNCHANGED <<transfer, length, sent, RecvBuffer, inhibit, select, core, ahead>>

\* The core takes a byte; bytes in the shift register are finished even when
\* it is inhibited.
Shift ==
    /\ ~inhibit /\ shift = <<>> /\ tx # <<>>
    /\ shift' = <<Head(tx)>> /\ tx' = Tail(tx)
    /\ UNCHANGED <<pc, transfer, length, sent, RecvBuffer, inhibit, select, rx,
                   wire, ahead>>

\* A byte that does not fit the receive FIFO is lost.
Shifted ==
    /\ shift # <<>>
    /\ shift' = <<>>
    /\ wire' = IF select THEN Append(wire, shift[1]) ELSE wire
    /\ rx' = IF Len(rx) < FifoSize THEN Append(rx, shift[1]) ELSE rx
    /\ UNCHANGED <<pc, transfer, length, sent, RecvBuffer, inhibit, select, tx, ahead>>

Core == Shift \/ Shifted
Driver == FillByte \/ Go \/ GoOn \/ TxEmpty \/ DrainByte \/ Drained
Next == Core \/ Driver \/ Error \/ \E n \in ByteCounts : Start(n)

Spec == Init /\ [][Next]_vars

\* The tool polls without sleeping; the core shifts while it may.
FairSpec == Spec /\ WF_vars(Driver) /\ WF_vars(Core)

-----------------------------------------------------------------------------
All(t, n) == [i \in 1..n |-> <<t, i>>]

(* A transfer that returns true has given the flash its bytes, each once,  *)
(* in order and in one selection, and has read back the answer to each of  *)
(* them and to no byte of an earlier transfer.  This holds as long as no   *)
(* refill began with a byte in the shift register: reading out a FIFO over *)
(* PCIe has always lasted longer than shifting the last byte.              *)
TransferComplete ==
    pc = "idle" /\ transfer > 0 /\ ~ahead =>
        /\ wire = All(transfer, length)
        /\ RecvBuffer = All(transfer, length)
        /\ tx = <<>> /\ shift = <<>> /\ rx = <<>>

(* A transfer returns: no byte is lost in a full FIFO, in which case the   *)
(* loop would wait for its answer for ever.  The same exception.           *)
TransferReturns == (pc # "idle") ~> (pc \in {"idle", "failed"} \/ ahead)

(* Stronger, and false: a transfer returns whatever the timing.            *)
AlwaysReturns == (pc # "idle") ~> (pc \in {"idle", "failed"})

=============================================================================
