------------------------------ MODULE MCFlash -------------------------------
(***************************************************************************)
(* What configures the FPGA: the flash of the PAC card (NorFlash, NorLock) *)
(* and, on the Xilinx card, xbflash (XspiFlash, XspiTransfer) and partial  *)
(* reconfiguration (HwIcap).  They share no register, so each behaviour    *)
(* exercises one of them while the others rest: `part' names it.           *)
(***************************************************************************)
EXTENDS Integers, Sequences

CONSTANTS t1, t2, NONE

VARIABLES
    part,
    chip, norMem, wel, norBusy, mode4, nor, lock, th, ncalls, life, destroyed,
    bp, tb, srwd, last,
    files, phase, slave_index, todo, selected_sector, mem, ext, busy, runs,
    renewing, pc, transfer, length, sent, RecvBuffer, tx, shift, rx, inhibit, select,
    wire, ahead,
    icapBusy, hwicap_status, axi_gate_frozen, icapPc, img, byte_read, buffer,
    bug, late, calls, fifo, started, received

norVars  == <<chip, norMem, wel, norBusy, mode4, nor, lock, th, ncalls, life,
              destroyed>>
lockVars == <<bp, tb, srwd, last>>
xspiVars == <<files, phase, slave_index, todo, selected_sector, mem, ext, busy,
              runs, renewing>>
txVars   == <<pc, transfer, length, sent, RecvBuffer, tx, shift, rx, inhibit,
              select, wire, ahead>>
icapVars == <<icapBusy, hwicap_status, axi_gate_frozen, icapPc, img, byte_read,
              buffer, bug, late, calls, fifo, started, received>>
vars     == <<part, norVars, lockVars, xspiVars, txVars, icapVars>>

-----------------------------------------------------------------------------
(* Pages of a few bytes; addresses of two values a byte.                   *)

Plain == [page |-> 2, pages |-> 4, sector |-> 2, s3an |-> FALSE, width |-> 0,
          op4 |-> FALSE, noChipErase |-> FALSE]
\* More bytes than three address bytes tell apart.
Big == [Plain EXCEPT !.page = 4, !.sector = 1]
BigOp4 == [Big EXCEPT !.op4 = TRUE, !.noChipErase = TRUE]
S3an == [Plain EXCEPT !.page = 3, !.pages = 2, !.sector = 1, !.s3an = TRUE,
                      !.width = 3]
S3anPow == [S3an EXCEPT !.page = 2]

AllCalls ==
    [k : {"write"}, addr : {0, 1, 9}, len : {1, 3, 6}, d : {0, 1}]
    \cup [k : {"read"}, addr : {0, 1}, len : {5, 10}, d : {0}]
    \cup [k : {"erase"}, addr : {0, 1, 3, 4}, len : {2, 3, 4, 6, 8, 16}, d : {0}]
FewCalls == {[k |-> "write", addr |-> 1, len |-> 2, d |-> 0],
             [k |-> "erase", addr |-> 0, len |-> 4, d |-> 0],
             [k |-> "read", addr |-> 0, len |-> 3, d |-> 0]}

\* Every kind of flash and call; two threads; a flash that may be late.
Nor == INSTANCE NorFlash WITH
    Threads <- {t1}, Chips <- {Plain, Big, BigOp4, S3an, S3anPow},
    Calls <- AllCalls, FifoDepth <- 9, AddrBase <- 2, Faults <- {"data"},
    MaxCalls <- 2, mem <- norMem, busy <- norBusy
NorTwo == INSTANCE NorFlash WITH
    Threads <- {t1, t2}, Chips <- {Plain},
    Calls <- FewCalls, FifoDepth <- 9, AddrBase <- 2, Faults <- {"data"},
    MaxCalls <- 2, mem <- norMem, busy <- norBusy
NorSlow == INSTANCE NorFlash WITH
    Threads <- {t1}, Chips <- {Plain}, Calls <- FewCalls, FifoDepth <- 9,
    AddrBase <- 2, Faults <- {"data", "reg", "busy"}, MaxCalls <- 2,
    mem <- norMem, busy <- norBusy

\* Every range of a flash of 8 units; and on one of 128 units, with a TB bit,
\* ranges that leave a single unit and ranges around the halves and quarters.
Protection == INSTANCE NorLock WITH
    LogSize <- 3, HasTB <- FALSE, Edges <- 0..8
ProtectionTB == INSTANCE NorLock WITH
    LogSize <- 7, HasTB <- TRUE,
    Edges <- {0, 1, 2, 31, 32, 64, 65, 96, 126, 127, 128}

-----------------------------------------------------------------------------
(* Files with lines of two bytes; a half page has four, a page eight, a    *)
(* sub-sector sixteen.                                                     *)

\* An extended address line and n bytes of data from off on.
Segment(ela, off, n) ==
    << [t |-> "ela", addr |-> ela, base |-> 0, len |-> 0] >>
    \o [i \in 1 .. (n + 1) \div 2 |->
          [t |-> "data", addr |-> off + 2 * (i - 1), base |-> ela * 32,
           len |-> IF 2 * i > n THEN 1 ELSE 2]]
End == << [t |-> "eof", addr |-> 0, base |-> 0, len |-> 0] >>
File(ls) == [lines |-> ls, newline |-> TRUE]

Aligned == File(Segment(1, 16, 16) \o Segment(2, 0, 7) \o End)
High == File(Segment(2, 0, 16) \o End)
AtZero == File(Segment(0, 0, 21) \o End)
AtTop == File(Segment(3, 0, 6) \o Segment(3, 16, 6) \o End)
Gap == File(Segment(1, 0, 4) \o Tail(Segment(1, 8, 2)) \o End)
NoEnd == File(Segment(1, 0, 4) \o Segment(2, 0, 4))

\* Every file, for either flash, in one run; and runs again after a failure.
Xspi == INSTANCE XspiFlash WITH
    Files <- {Aligned, High, AtZero, AtTop, Gap, NoEnd}, WRITE_DATA_SIZE <- 4,
    PageSize <- 8, SubSector <- 16, ElaSize <- 32, ExtSize <- 64,
    MAX_NUM_SECTORS <- 2, MaxRuns <- 1, PowerFails <- TRUE
XspiAgain == INSTANCE XspiFlash WITH
    Files <- {High}, WRITE_DATA_SIZE <- 4,
    PageSize <- 8, SubSector <- 16, ElaSize <- 32, ExtSize <- 64,
    MAX_NUM_SECTORS <- 2, MaxRuns <- 3, PowerFails <- TRUE

Transfer == INSTANCE XspiTransfer WITH
    FifoSize <- 2, ByteCounts <- {1, 2, 5}, MaxTransfers <- 3

-----------------------------------------------------------------------------
(* A bit file of ten words, five of them header, and broken ones.          *)

Field(t) == [tag |-> t, len |-> 1, null |-> TRUE]
BitFile == [magic |-> TRUE, start |-> 1, body |-> 5, len |-> 10, mapped |-> 15,
            fields |-> <<Field("a"), Field("b"), Field("c"), Field("d")>>]

Icap == INSTANCE HwIcap WITH
    Users <- {t1}, BufferSize <- 3, FifoSize <- 2, MaxCalls <- 2,
    Images <- {BitFile, [BitFile EXCEPT !.mapped = 10],
               [BitFile EXCEPT !.mapped = 2], [BitFile EXCEPT !.len = 9],
               [BitFile EXCEPT !.fields[2].null = FALSE],
               [BitFile EXCEPT !.magic = FALSE]},
    busy <- icapBusy, pc <- icapPc

-----------------------------------------------------------------------------
Init ==
    /\ part \in {"nor", "nor_two", "nor_slow", "protection", "protection_tb",
                 "xspi", "xspi_again", "transfer", "icap"}
    /\ IF part = "nor" THEN Nor!Init
       ELSE IF part = "nor_slow" THEN NorSlow!Init
       ELSE NorTwo!Init /\ (part # "nor_two" => norMem[0] = {})
    /\ Protection!Init
    /\ IF part = "xspi_again" THEN XspiAgain!Init
       ELSE /\ part # "xspi" => /\ files = [s \in {0, 1} |-> High]
                                /\ ext = [s \in {0, 1} |-> 0]
            /\ Xspi!Init
    /\ Transfer!Init
    /\ Icap!Init

NorNext  == \/ part = "nor" /\ Nor!Next
            \/ part = "nor_two" /\ NorTwo!Next
            \/ part = "nor_slow" /\ NorSlow!Next

Next ==
    /\ UNCHANGED part
    /\ \/ NorNext /\ UNCHANGED <<lockVars, xspiVars, txVars, icapVars>>
       \/ /\ \/ part = "protection" /\ Protection!Next
             \/ part = "protection_tb" /\ ProtectionTB!Next
          /\ UNCHANGED <<norVars, xspiVars, txVars, icapVars>>
       \/ /\ \/ part = "xspi" /\ Xspi!Next
             \/ part = "xspi_again" /\ XspiAgain!Next
          /\ UNCHANGED <<norVars, lockVars, txVars, icapVars>>
       \/ /\ part = "transfer" /\ Transfer!Next
          /\ UNCHANGED <<norVars, lockVars, xspiVars, icapVars>>
       \/ /\ part = "icap" /\ Icap!Next
          /\ UNCHANGED <<norVars, lockVars, xspiVars, txVars>>

\* The fairness of each part, as its own FairSpec states it.
Spec ==
    /\ Init /\ [][Next]_vars
    /\ WF_norVars(part = "nor_slow" /\ NorSlow!Step(t1))
    /\ WF_xspiVars(part = "xspi" /\ Xspi!Tool)
    /\ WF_xspiVars(part = "xspi_again" /\ XspiAgain!Tool)
    /\ WF_txVars(part = "transfer" /\ Transfer!Driver)
    /\ WF_txVars(part = "transfer" /\ Transfer!Core)
    /\ WF_icapVars(part = "icap" /\ Icap!Step(t1))

-----------------------------------------------------------------------------
(* Properties, made of those stated and explained in the module of each    *)
(* part.                                                                   *)

\* Calls of the MTD read, program and erase what they say they did, and leave
\* the flash idle when they succeed; with the exceptions of unaligned erases
\* and of write enables and waits that failed.
MtdCallsRight ==
    /\ part = "nor" => Nor!CallsDoWhatTheySay
    /\ part = "nor_two" => NorTwo!CallsDoWhatTheySay
    /\ part = "nor_slow" => NorSlow!CallsDoWhatTheySay

\* stm_lock protects and stm_unlock opens nothing outside the range given, but
\* for an unlock that is to leave less locked than the BP bits can name.
OnlyRange == [][/\ part = "protection" => Protection!WithinRange
                /\ part = "protection_tb" => ProtectionTB!WithinRange]_lockVars

\* xbflash: the guard protects from partially programmed bitstreams, except
\* while a run after an interrupted one writes it anew.
GuardProtects == /\ part = "xspi" => Xspi!GuardProtects
                 /\ part = "xspi_again" => XspiAgain!GuardProtects

\* xbflash reports success only for flashes that have both files, and leaves
\* the rest of the flash as it was.
FlashedExactly ==
    /\ part = "xspi" => Xspi!SuccessMeansFlashed /\ Xspi!OthersUntouched
    /\ part = "xspi_again" =>
          XspiAgain!SuccessMeansFlashed /\ XspiAgain!OthersUntouched

\* A SPI transfer sends and receives all its bytes and no others, if the tool
\* never refills the FIFO ahead of the core.
TransferComplete == Transfer!TransferComplete

\* HWICAP: a finished download has configured the whole bitstream, the core
\* works only while the gates are frozen, and they are open when no ioctl runs.
DownloadRight ==
    /\ Icap!FinishMeansConfigured
    /\ Icap!ConfiguredFrozen
    /\ Icap!GatesFreed

\* Every call of the MTD, run of xbflash and ioctl ends although the flash or
\* the HWICAP may stay busy for ever, for their waits are bounded.  A SPI
\* transfer ends if the SPI core shifts what it was given, for finalTransfer
\* polls it without a limit, and if no refill ran ahead; a run of xbflash ends
\* if its transfers do.
AllEnd ==
    /\ LET called == part = "nor_slow" /\ th[t1] # NONE IN called ~> ~called
    /\ Xspi!RunEnds /\ Transfer!TransferReturns /\ Icap!IoctlReturns
=============================================================================
