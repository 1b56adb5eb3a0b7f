------------------------------- MODULE HwIcap -------------------------------
(***************************************************************************)
(* The partial reconfiguration driver of the Xilinx card                   *)
(* (drv_pcie_hwicap/pcie.c): an ioctl parses the header of a bit file,     *)
(* freezes the AXI gates around the region, copies the file into the FIFO  *)
(* of the HWICAP core a buffer at a time, waits for the end and frees the  *)
(* gates.  A flag keeps a second ioctl out; no lock does.  The state of    *)
(* the download is read from the device file.                              *)
(*                                                                         *)
(* Lengths are in words.  External: the HWICAP core, which moves words     *)
(* from its FIFO into the configuration once it is started.                *)
(***************************************************************************)
EXTENDS Integers, Sequences, SequencesExt, FiniteSetsExt

CONSTANTS
    Users,
    Images,          \* the files users download
    BufferSize,      \* DMA_HWICAP_BITFILE_BUFFER_SIZE
    FifoSize,
    MaxCalls,        \* bound: ioctls
    NONE

VARIABLES
    busy,            \* lro->busy
    hwicap_status,   \* NONE, "DOWNLOADING", "FINISH" or "ERROR"
    axi_gate_frozen,
    pc, img, byte_read, buffer, \* the ioctls and their local variables
    bug,             \* history: a BUG_ON fired
    late,            \* history: the core was late since the gates were frozen
    calls,
    fifo, started,   \* the core
    received         \* what it configured since it was cleared

drvVars == <<busy, hwicap_status, axi_gate_frozen, pc, img, byte_read, buffer,
             bug, late, calls>>
vars == <<drvVars, fifo, started, received>>

Init ==
    /\ busy = FALSE /\ hwicap_status = NONE /\ axi_gate_frozen = FALSE
    /\ pc = [u \in Users |-> "idle"] /\ img = [u \in Users |-> NONE]
    /\ byte_read = [u \in Users |-> 0] /\ buffer = [u \in Users |-> <<>>]
    /\ bug = FALSE /\ late = FALSE /\ calls = 0
    /\ fifo = <<>> /\ started = FALSE /\ received = <<>>

-----------------------------------------------------------------------------
(* The bit file: a header that starts with a magic and the half word 1 and *)
(* has four named fields, then the length of the bitstream, then that.  A  *)
(* word is named by its place in the user's memory, which has `mapped'.    *)

Fields == <<"a", "b", "c", "d">>

HeaderLength(f) ==
    f.start + FoldLeft(LAMBDA n, x : n + x.len, 0, f.fields)

\* bitstream_parse_header: every field has its letter and ends with a null.
HeaderValid(f) ==
    /\ f.magic
    /\ \A i \in 1..4 : f.fields[i].tag = Fields[i] /\ f.fields[i].null

Complete(f) == HeaderValid(f) /\ HeaderLength(f) + f.body <= f.len

Words(f, from, n) == [i \in 1..n |-> <<f, from + i>>]
Body(f) == Words(f, HeaderLength(f), f.body)

-----------------------------------------------------------------------------
(* The core                                                                *)

HwConfigure ==
    /\ started /\ fifo # <<>>
    /\ received' = Append(received, Head(fifo)) /\ fifo' = Tail(fifo)
    /\ UNCHANGED <<drvVars, started>>

\* The start bit of XHWICAP_CR clears itself.
HwEnd ==
    /\ started /\ fifo = <<>>
    /\ started' = FALSE
    /\ UNCHANGED <<drvVars, fifo, received>>

-----------------------------------------------------------------------------
(* PCIe_Ioctl                                                              *)

Ioctl(u, f) ==
    /\ pc[u] = "idle" /\ calls < MaxCalls
    /\ calls' = calls + 1
    /\ img' = [img EXCEPT ![u] = f]
    /\ pc' = [pc EXCEPT ![u] = "busy"]
    /\ UNCHANGED <<busy, hwicap_status, axi_gate_frozen, byte_read, buffer,
                   bug, late, fifo, started, received>>

Goto(u, l) == pc' = [pc EXCEPT ![u] = l]

\* if (lro->busy) return -EBUSY; ...
CheckBusy(u) ==
    /\ pc[u] = "busy"
    /\ Goto(u, IF busy THEN "idle" ELSE "claim")
    /\ UNCHANGED <<busy, hwicap_status, axi_gate_frozen, img, byte_read, buffer,
                   bug, late, calls, fifo, started, received>>

\* ... lro->busy = true.  An unknown command ends here; for a download the
\* argument may not be readable (bitstream_ioctl).
Claim(u) ==
    /\ pc[u] = "claim"
    /\ busy' = TRUE
    /\ \/ Goto(u, "release") /\ UNCHANGED hwicap_status
       \/ Goto(u, "release") /\ hwicap_status' = "ERROR"
       \/ Goto(u, "freeze") /\ hwicap_status' = "DOWNLOADING"
    /\ UNCHANGED <<axi_gate_frozen, img, byte_read, buffer, bug, late, calls,
                   fifo, started, received>>

\* freezeAXIGate: the thread that meets its BUG_ON is gone.  The core is
\* reset.
Freeze(u) ==
    /\ pc[u] = "freeze"
    /\ IF axi_gate_frozen
       THEN /\ bug' = TRUE /\ Goto(u, "dead")
            /\ UNCHANGED <<axi_gate_frozen, late, fifo, started>>
       ELSE /\ axi_gate_frozen' = TRUE /\ Goto(u, "parse")
            /\ fifo' = <<>> /\ started' = FALSE /\ late' = FALSE
            /\ UNCHANGED bug
    /\ UNCHANGED <<busy, hwicap_status, img, byte_read, buffer, calls, received>>

\* The first buffer is copied and its header parsed, unless there is no
\* memory; the core is cleared.
ParseHeader(u) ==
    LET f == img[u]
    IN  /\ pc[u] = "parse"
        /\ byte_read' = [byte_read EXCEPT ![u] = 0]
        /\ \/ Goto(u, "free") /\ UNCHANGED <<hwicap_status, fifo, started, received>>
           \/ /\ f.mapped < BufferSize \/ ~Complete(f)
              /\ Goto(u, "free") /\ hwicap_status' = "ERROR"
              /\ UNCHANGED <<fifo, started, received>>
           \/ /\ f.mapped >= BufferSize /\ Complete(f)
              /\ Goto(u, "copy") /\ UNCHANGED hwicap_status
              /\ fifo' = <<>> /\ started' = FALSE /\ received' = <<>>
        /\ UNCHANGED <<busy, axi_gate_frozen, img, buffer, bug, late, calls>>

\* As many words as the file has are copied, from the end of the header on.
CopyBuffer(u) ==
    LET f == img[u]
        from == HeaderLength(f) + byte_read[u]
        n == Min({f.len - byte_read[u], BufferSize})
    IN  /\ pc[u] = "copy"
        /\ \/ n = 0 /\ Goto(u, "done") /\ UNCHANGED <<hwicap_status, byte_read, buffer>>
           \/ /\ n > 0 /\ from + n > f.mapped
              /\ Goto(u, "free") /\ hwicap_status' = "ERROR"
              /\ UNCHANGED <<byte_read, buffer>>
           \/ /\ n > 0 /\ from + n <= f.mapped
              /\ buffer' = [buffer EXCEPT ![u] = Words(f, from, n)]
              /\ byte_read' = [byte_read EXCEPT ![u] = @ + n]
              /\ Goto(u, "push") /\ UNCHANGED hwicap_status
        /\ UNCHANGED <<busy, axi_gate_frozen, img, bug, late, calls, fifo,
                       started, received>>

Vacancy == FifoSize - Len(fifo)

\* Mutant: the buffer is not advanced.
RestKept(b, n) == IF n = Len(b) THEN <<>> ELSE SubSeq(b, 1, Len(b) - n)
Rest(b, n) == SubSeq(b, n + 1, Len(b))

\* bitstream_icap_helper and hwicapWrite: as much as the FIFO has room for.
Push(u) ==
    LET n == Min({Vacancy, Len(buffer[u])})
    IN  /\ pc[u] = "push"
        /\ \/ buffer[u] = <<>> /\ Goto(u, "copy")
              /\ UNCHANGED <<hwicap_status, buffer, fifo, started>>
           \/ /\ n = 0 /\ buffer[u] # <<>>
              /\ Goto(u, "free") /\ hwicap_status' = "ERROR"
              /\ UNCHANGED <<buffer, fifo, started>>
           \/ /\ n > 0
              /\ fifo' = fifo \o SubSeq(buffer[u], 1, n) /\ started' = TRUE
              /\ buffer' = [buffer EXCEPT ![u] = Rest(@, n)]
              /\ Goto(u, "poll") /\ UNCHANGED hwicap_status
        /\ UNCHANGED <<busy, axi_gate_frozen, img, byte_read, bug, late, calls,
                       received>>

\* Twenty polls of the start bit.
Poll(u) ==
    /\ pc[u] = "poll"
    /\ \/ ~started /\ Goto(u, "push") /\ UNCHANGED <<hwicap_status, late>>
       \/ /\ started
          /\ Goto(u, "free") /\ hwicap_status' = "ERROR" /\ late' = TRUE
    /\ UNCHANGED <<busy, axi_gate_frozen, img, byte_read, buffer, bug, calls,
                   fifo, started, received>>

\* wait_for_done: the status of a time-out stays as it is.
WaitForDone(u) ==
    /\ pc[u] = "done"
    /\ Goto(u, "free")
    /\ hwicap_status' = "FINISH" \/ UNCHANGED hwicap_status
    /\ UNCHANGED <<busy, axi_gate_frozen, img, byte_read, buffer, bug, late,
                   calls, fifo, started, received>>

\* freeAXIGate, with a BUG_ON of its own.
Free(u) ==
    /\ pc[u] = "free"
    /\ bug' = (bug \/ ~axi_gate_frozen)
    /\ axi_gate_frozen' = FALSE
    /\ Goto(u, IF axi_gate_frozen THEN "release" ELSE "dead")
    /\ UNCHANGED <<busy, hwicap_status, img, byte_read, buffer, late, calls,
                   fifo, started, received>>

Release(u) ==
    /\ pc[u] = "release"
    /\ busy' = FALSE
    /\ Goto(u, "idle")
    /\ UNCHANGED <<hwicap_status, axi_gate_frozen, img, byte_read, buffer, bug,
                   late, calls, fifo, started, received>>

Step(u) ==
    \/ CheckBusy(u) \/ Claim(u) \/ Freeze(u) \/ ParseHeader(u) \/ CopyBuffer(u)
    \/ Push(u) \/ Poll(u) \/ WaitForDone(u) \/ Free(u) \/ Release(u)

Next ==
    \/ HwConfigure \/ HwEnd
    \/ \E u \in Users : Step(u) \/ \E f \in Images : Ioctl(u, f)

Spec == Init /\ [][Next]_vars

\* The thread inside the ioctl runs; nothing is asked of the core.
FairSpec == Spec /\ \A u \in Users : WF_vars(Step(u))

-----------------------------------------------------------------------------
(* ICAP_DOWNLOAD_FINISH is only reported when the whole bitstream of the   *)
(* file is in the FPGA, each word once and in order.                       *)
FinishMeansConfigured ==
    hwicap_status = "FINISH" /\ ~busy =>
        \E f \in Images : /\ HeaderValid(f) /\ f.body <= Len(received)
                          /\ SubSeq(received, 1, f.body) = Body(f)

(* The core has words to configure only while the AXI gates are frozen,    *)
(* unless it was late and goes on after the driver has given up.           *)
ConfiguredFrozen == started /\ fifo # <<>> => axi_gate_frozen \/ late

(* The gates are open again when no ioctl runs.                            *)
GatesFreed == ~busy => ~axi_gate_frozen

(* Every ioctl returns, also when the core is dead.                        *)
IoctlReturns == \A u \in Users : (pc[u] # "idle") ~> (pc[u] = "idle")

(* BUG_ON(lro->axi_gate_frozen) in freezeAXIGate and                       *)
(* BUG_ON(!lro->axi_gate_frozen) in freeAXIGate.                           *)
NoBug == ~bug
=============================================================================
