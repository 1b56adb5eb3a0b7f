------------------------------- MODULE FmePr -------------------------------
(***************************************************************************)
(* Partial reconfiguration of ports through the FME: the ioctl fme_pr with *)
(* the FPGA manager's steps (fpga-mgr.c) and the three operations of the   *)
(* FME's manager, fme_pr_write_init, fme_pr_write and                      *)
(* fme_pr_write_complete (fme-pr.c), against the PR engine in hardware.    *)
(*                                                                         *)
(* The FME's pdata->lock lets one PR run at a time, so the driver is one   *)
(* thread.  A read-modify-write of the control register is two steps.  A   *)
(* poll that times out does so only if the field does not have the awaited *)
(* value.  Words carry the number of the PR they belong to.                *)
(*                                                                         *)
(* The engine (external) latches the region when it sees the start         *)
(* request, moves words from its FIFO into the region, and drops the start *)
(* request when the push is complete and the FIFO is empty.  A reset       *)
(* empties it.  It may be arbitrarily slow, also in dropping the reset     *)
(* acknowledgement, and it never is obliged to answer.                     *)
(***************************************************************************)
EXTENDS Integers, Sequences

CONSTANTS
    Ports,
    Bandwidth,    \* fme->pr_bandwidth: bytes of a word
    Sizes,        \* sizes of the buffers users give
    FifoSize,     \* words the engine takes before it is full
    MaxPr,        \* bound: number of PRs
    MaxDelay,     \* PR_WAIT_TIMEOUT, as the number of waits for credit
    UNKNOWN       \* stands for no request, and for unknown content

ASSUME ConstantsFit ==
    /\ Bandwidth \in Nat \ {0} /\ Sizes \subseteq Nat
    /\ FifoSize \in Nat /\ MaxDelay \in Nat
    /\ UNKNOWN \notin [port : Ports, image : Seq(Nat)]

VARIABLES
    pc, n, port, count, words, credit, delay, \* the call
    ctl,          \* fme_pr_ctl, as last read
    result, status, pr_err,
    mgr,          \* the manager is registered
    mgr_state,    \* mgr->state
    portOn,       \* ports out of reset
    reg,          \* the control register
    eng, into, fifo, err, \* the engine: state, region, data, error bits
    image,        \* what is in the ports
    good          \* history: the last PR of the port succeeded

callVars == <<n, port, words>>
mgrVars  == <<mgr, mgr_state>>
outVars  == <<result, status, pr_err>>
hwVars   == <<eng, into, fifo, image>>
vars == <<pc, callVars, count, credit, delay, ctl, outVars, mgrVars, portOn,
          reg, hwVars, err, good>>

-----------------------------------------------------------------------------
Control == [reset : BOOLEAN, ack : BOOLEAN, region : Ports,
            start : BOOLEAN, complete : BOOLEAN]

\* ALIGN(size, bandwidth): the length of the padded image.
Length(size) == ((size + Bandwidth - 1) \div Bandwidth) * Bandwidth

\* What the ports would hold after PR k of w words.
Image(k, w) == [i \in 1..w |-> k]

\* pr_host_status is PR_HOST_STATUS_IDLE.
HostIdle == eng = "idle" /\ ~reg.start

\* The acknowledgement cannot be written.
WriteCtl(c) == reg' = [c EXCEPT !.ack = reg.ack]

Init ==
    /\ pc = "idle" /\ n = 0 /\ port \in Ports
    /\ count = 0 /\ words = 0 /\ credit = 0 /\ delay = 0
    /\ reg = [reset |-> FALSE, ack |-> FALSE, region |-> port,
              start |-> FALSE, complete |-> FALSE]
    /\ ctl = reg
    /\ result = "none" /\ status = "zero" /\ pr_err = {}
    /\ mgr = FALSE /\ mgr_state = "unknown"
    /\ portOn = [p \in Ports |-> TRUE]
    /\ eng = "idle" /\ into = port /\ fifo = <<>> /\ err = {}
    /\ image = [p \in Ports |-> <<0>>]
    /\ good = [p \in Ports |-> TRUE]

-----------------------------------------------------------------------------
(* The manager comes and goes with the FME's PR feature.                   *)

\* pr_mgmt_init, which takes pdata->lock; a failing one leaves no manager.
MgrRegister ==
    /\ ~mgr /\ pc = "idle"
    /\ mgr' = TRUE /\ mgr_state' = "unknown"
    /\ UNCHANGED <<pc, callVars, count, credit, delay, ctl, outVars, portOn,
                   reg, hwVars, err, good>>

\* pr_mgmt_uinit does not wait for a PR; that holds its own reference.
MgrUnregister ==
    /\ mgr
    /\ mgr' = FALSE
    /\ UNCHANGED <<pc, callVars, count, credit, delay, ctl, outVars,
                   mgr_state, portOn, reg, hwVars, err, good>>

-----------------------------------------------------------------------------
(* The ioctl up to fpga_mgr_buf_load, and after it.                        *)

\* No memory (vzalloc(0) included), an unreadable buffer, or no manager:
\* status goes back to the caller as the caller gave it.
PrRefused(s) ==
    /\ pc = "idle"
    /\ result' = "error" /\ status' = s
    /\ UNCHANGED <<pc, callVars, count, credit, delay, ctl, pr_err, mgrVars,
                   portOn, reg, hwVars, err, good>>

PrBegin(p, size) ==
    /\ pc = "idle" /\ n < MaxPr
    /\ mgr /\ size > 0
    /\ n' = n + 1 /\ port' = p
    /\ count' = Length(size)
    /\ words' = (size + Bandwidth - 1) \div Bandwidth
    /\ pr_err' = {}
    /\ portOn' = [portOn EXCEPT ![p] = FALSE]
    /\ good' = [good EXCEPT ![p] = FALSE]
    /\ mgr_state' = "write_init"
    /\ pc' = "reset_read"
    /\ UNCHANGED <<credit, delay, ctl, result, status, mgr, reg, hwVars, err>>

\* fpga_mgr_buf_load is left with ret and the manager's state.
Leave(ret, state) ==
    /\ result' = ret
    /\ mgr_state' = state
    /\ pc' = "end"

PrEnd ==
    /\ pc = "end"
    /\ portOn' = [portOn EXCEPT ![port] = TRUE]
    /\ good' = [good EXCEPT ![port] = (result = "success")]
    /\ status' = IF pr_err = {} THEN "zero" ELSE "hw"
    /\ pc' = "idle"
    /\ UNCHANGED <<callVars, count, credit, delay, ctl, result, pr_err,
                   mgrVars, reg, hwVars, err>>

-----------------------------------------------------------------------------
(* fme_pr_write_init                                                       *)

ReadCtl(from, to) ==
    /\ pc = from /\ pc' = to
    /\ ctl' = reg
    /\ UNCHANGED <<callVars, count, credit, delay, outVars, mgrVars, portOn,
                   reg, hwVars, err, good>>

ResetWrite ==
    /\ pc = "reset_write" /\ pc' = "reset_wait"
    /\ WriteCtl([ctl EXCEPT !.reset = TRUE])
    /\ UNCHANGED <<callVars, count, credit, delay, ctl, outVars, mgrVars,
                   portOn, hwVars, err, good>>

ResetAcked ==
    /\ pc = "reset_wait" /\ reg.ack
    /\ pc' = "unreset_read"
    /\ UNCHANGED <<callVars, count, credit, delay, ctl, outVars, mgrVars,
                   portOn, reg, hwVars, err, good>>

UnresetWrite ==
    /\ pc = "unreset_write" /\ pc' = "idle_wait"
    /\ WriteCtl([ctl EXCEPT !.reset = FALSE])
    /\ UNCHANGED <<callVars, count, credit, delay, ctl, outVars, mgrVars,
                   portOn, hwVars, err, good>>

\* Mutant: errors of an earlier PR are left in the register.
EngineIdleKeepsErrors ==
    /\ pc = "idle_wait" /\ HostIdle
    /\ mgr_state' = "write"
    /\ pc' = "start_read"
    /\ UNCHANGED <<callVars, count, credit, delay, ctl, outVars, mgr, portOn,
                   reg, hwVars, err, good>>

\* The engine is idle; pr_err_handle clears what an earlier PR left.
EngineIdle ==
    /\ pc = "idle_wait" /\ HostIdle
    /\ err' = {}
    /\ mgr_state' = "write"
    /\ pc' = "start_read"
    /\ UNCHANGED <<callVars, count, credit, delay, ctl, outVars, mgr, portOn,
                   reg, hwVars, good>>

-----------------------------------------------------------------------------
(* fme_pr_write                                                            *)

StartWrite ==
    /\ pc = "start_write" /\ pc' = "credit_read"
    /\ WriteCtl([ctl EXCEPT !.region = port, !.start = TRUE])
    /\ delay' = 0
    /\ UNCHANGED <<callVars, count, credit, ctl, outVars, mgrVars, portOn,
                   hwVars, err, good>>

\* Mutant: the waits are not counted.
CreditReadForever ==
    /\ pc = "credit_read" \/ (pc = "push" /\ count > 0 /\ credit <= 1)
    /\ delay' = delay
    /\ credit' = FifoSize - Len(fifo)
    /\ pc' = "push"
    /\ UNCHANGED <<callVars, count, ctl, outVars, mgrVars, portOn, reg,
                   hwVars, err, good>>

\* The first read of the status register, or one after a wait for credit.
CreditRead ==
    /\ \/ pc = "credit_read" /\ delay' = delay
       \/ /\ pc = "push" /\ count > 0 /\ credit <= 1
          /\ delay <= MaxDelay /\ delay' = delay + 1
    /\ credit' = FifoSize - Len(fifo)
    /\ pc' = "push"
    /\ UNCHANGED <<callVars, count, ctl, outVars, mgrVars, portOn, reg,
                   hwVars, err, good>>

\* delay is not reset between two waits, so it bounds their sum.
CreditTimeout ==
    /\ pc = "push" /\ count > 0 /\ credit <= 1 /\ delay > MaxDelay
    /\ pr_err' = err /\ err' = {}
    /\ Leave(IF err = {} THEN "timeout" ELSE "eio", "write_err")
    /\ UNCHANGED <<callVars, count, credit, delay, ctl, status, mgr, portOn,
                   reg, hwVars, good>>

\* A word for which the engine has no room is lost.
FifoPush(word) == fifo' = IF Len(fifo) < FifoSize THEN Append(fifo, word)
                          ELSE fifo

\* WARN_ON(1) if less than a word is left.
Push ==
    /\ pc = "push" /\ count > 0 /\ credit > 1
    /\ IF count >= Bandwidth
       THEN /\ FifoPush(n)
            /\ count' = count - Bandwidth /\ credit' = credit - 1
            /\ UNCHANGED <<pc, result, mgr_state>>
       ELSE /\ Leave("error", "write_err")
            /\ UNCHANGED <<fifo, count, credit>>
    /\ UNCHANGED <<callVars, delay, ctl, status, pr_err, mgr, portOn, reg,
                   eng, into, image, err, good>>

WriteDone ==
    /\ pc = "push" /\ count = 0
    /\ mgr_state' = "write_complete"
    /\ pc' = "complete_read"
    /\ UNCHANGED <<callVars, count, credit, delay, ctl, outVars, mgr, portOn,
                   reg, hwVars, err, good>>

-----------------------------------------------------------------------------
(* fme_pr_write_complete                                                   *)

CompleteWrite ==
    /\ pc = "complete_write" /\ pc' = "complete_wait"
    /\ WriteCtl([ctl EXCEPT !.complete = TRUE])
    /\ UNCHANGED <<callVars, count, credit, delay, ctl, outVars, mgrVars,
                   portOn, hwVars, err, good>>

\* Mutant: the engine is not waited for.
CompletedUnchecked ==
    /\ pc = "complete_wait"
    /\ pr_err' = err /\ err' = {}
    /\ IF err = {} THEN Leave("success", "operating")
       ELSE Leave("eio", "write_complete_err")
    /\ UNCHANGED <<callVars, count, credit, delay, ctl, status, mgr, portOn,
                   reg, hwVars, good>>

\* The engine has dropped the start request; pr_err_handle reads and clears
\* its errors.
Completed ==
    /\ pc = "complete_wait" /\ ~reg.start
    /\ pr_err' = err /\ err' = {}
    /\ IF err = {} THEN Leave("success", "operating")
       ELSE Leave("eio", "write_complete_err")
    /\ UNCHANGED <<callVars, count, credit, delay, ctl, status, mgr, portOn,
                   reg, hwVars, good>>

\* fpga_wait_register_field gives up.
WaitTimeout ==
    /\ \/ /\ pc = "reset_wait" /\ ~reg.ack
          /\ Leave("timeout", "write_init_err")
       \/ /\ pc = "idle_wait" /\ ~HostIdle
          /\ Leave("timeout", "write_init_err")
       \/ /\ pc = "complete_wait" /\ reg.start
          /\ Leave("timeout", "write_complete_err")
    /\ UNCHANGED <<callVars, count, credit, delay, ctl, status, pr_err, mgr,
                   portOn, reg, hwVars, err, good>>

Driver ==
    \/ ReadCtl("reset_read", "reset_write") \/ ResetWrite \/ ResetAcked
    \/ ReadCtl("unreset_read", "unreset_write") \/ UnresetWrite \/ EngineIdle
    \/ ReadCtl("start_read", "start_write") \/ StartWrite
    \/ CreditRead \/ CreditTimeout \/ Push \/ WriteDone
    \/ ReadCtl("complete_read", "complete_write") \/ CompleteWrite
    \/ Completed \/ WaitTimeout \/ PrEnd

-----------------------------------------------------------------------------
(* The PR engine.                                                          *)

HwReset ==
    /\ reg.reset /\ ~reg.ack
    /\ reg' = [reg EXCEPT !.ack = TRUE, !.start = FALSE, !.complete = FALSE]
    /\ eng' = "idle" /\ fifo' = <<>>
    /\ UNCHANGED <<pc, callVars, count, credit, delay, ctl, outVars, mgrVars,
                   portOn, into, image, err, good>>

HwUnreset ==
    /\ ~reg.reset /\ reg.ack
    /\ reg' = [reg EXCEPT !.ack = FALSE]
    /\ UNCHANGED <<pc, callVars, count, credit, delay, ctl, outVars, mgrVars,
                   portOn, hwVars, err, good>>

HwStart ==
    /\ eng = "idle" /\ reg.start /\ ~reg.reset
    /\ eng' = "load" /\ into' = reg.region
    /\ image' = [image EXCEPT ![reg.region] = <<>>]
    /\ UNCHANGED <<pc, callVars, count, credit, delay, ctl, outVars, mgrVars,
                   portOn, reg, fifo, err, good>>

HwLoad ==
    /\ eng = "load" /\ fifo # <<>>
    /\ image' = [image EXCEPT ![into] = Append(@, Head(fifo))]
    /\ fifo' = Tail(fifo)
    /\ UNCHANGED <<pc, callVars, count, credit, delay, ctl, outVars, mgrVars,
                   portOn, reg, eng, into, err, good>>

\* An error of the bitstream the engine works on.
HwError ==
    /\ eng = "load" /\ image[into] # <<>>
    /\ err' = err \cup {image[into][Len(image[into])]}
    /\ UNCHANGED <<pc, callVars, count, credit, delay, ctl, outVars, mgrVars,
                   portOn, reg, hwVars, good>>

HwFinish ==
    /\ eng = "load" /\ reg.complete /\ fifo = <<>>
    /\ eng' = "idle"
    /\ reg' = [reg EXCEPT !.start = FALSE, !.complete = FALSE]
    /\ UNCHANGED <<pc, callVars, count, credit, delay, ctl, outVars, mgrVars,
                   portOn, into, fifo, image, err, good>>

Engine == HwReset \/ HwUnreset \/ HwStart \/ HwLoad \/ HwError \/ HwFinish

Users ==
    \/ MgrRegister \/ MgrUnregister
    \/ \E p \in Ports, size \in Sizes : PrBegin(p, size)
    \/ \E s \in {"zero", "user"} : PrRefused(s)

Next == Driver \/ Engine \/ Users

Spec == Init /\ [][Next]_vars

\* The kernel runs the thread inside the ioctl; nothing is asked of hardware.
FairSpec == Spec /\ WF_vars(Driver)

-----------------------------------------------------------------------------
InitPcs  == {"reset_read", "reset_write", "reset_wait", "unreset_read",
             "unreset_write", "idle_wait"}
WritePcs == {"start_read", "start_write", "credit_read", "push"}
EndPcs   == {"complete_read", "complete_write", "complete_wait", "end"}

CallType ==
    /\ pc \in {"idle"} \cup InitPcs \cup WritePcs \cup EndPcs
    /\ n \in Nat /\ port \in Ports
    /\ count \in Nat /\ words \in Nat /\ credit \in Int /\ delay \in Nat
    /\ result \in {"none", "success", "timeout", "eio", "error"}
    /\ status \in {"zero", "hw", "user"} /\ pr_err \subseteq Nat

PortType ==
    /\ mgr \in BOOLEAN
    /\ mgr_state \in {"unknown", "write_init", "write_init_err", "write",
                      "write_err", "write_complete", "write_complete_err",
                      "operating"}
    /\ portOn \in [Ports -> BOOLEAN] /\ good \in [Ports -> BOOLEAN]

EngineType ==
    /\ ctl \in Control /\ reg \in Control
    /\ eng \in {"idle", "load"} /\ into \in Ports
    /\ fifo \in Seq(Nat) /\ image \in [Ports -> Seq(Nat)] /\ err \subseteq Nat

\* The type invariant.
TypeOK == CallType /\ PortType /\ EngineType

(* The driver never pushes a word for which the engine has no room: the    *)
(* credit it goes by, which it reads rarely and counts down by itself, is  *)
(* never more than the room there is.                                      *)
CreditSafe == pc = "push" => credit <= FifoSize - Len(fifo)

(* Less than a word is never left: the WARN_ON(1) of fme_pr_write does not *)
(* fire, as fme_pr pads the buffer to whole words.                         *)
WholeWords == pc = "push" /\ count > 0 => count >= Bandwidth

(* The errors a PR returns with -EIO were raised by the image of this PR,  *)
(* not by one that was given up earlier and that the engine went on with.  *)
OwnErrors == pc = "end" => pr_err \subseteq {n}

(* fme_pr_write pushes whole words, each only when the PR engine has room  *)
(* for it, and the errors a PR returns with -EIO are those of its image.   *)
PrSafe == CreditSafe /\ WholeWords /\ OwnErrors

(* A PR implements what PrService promises.  A port that is being loaded,  *)
(* or whose last PR failed, has unknown content; of all others the content *)
(* is what really is in the port.                                          *)
Service == INSTANCE PrService WITH
    content <- [p \in Ports |-> IF good[p] THEN image[p] ELSE UNKNOWN],
    request <- IF pc = "idle" THEN UNKNOWN
               ELSE [port |-> port, image |-> Image(n, words)]
ImplementsService == Service!Spec

(* Every PR comes back, whatever the engine does, since every wait is      *)
(* bounded.                                                                *)
PrReturns == (pc # "idle") ~> (pc = "idle")

(* Comment at fme-pr.c:399, "Re-enable Port after PR finished": a port is  *)
(* out of reset only when the engine is not loading it.                    *)
EnabledAfterPr == \A p \in Ports : portOn[p] => ~(eng = "load" /\ into = p)

(* intel-fpga-mod.h:259, of the status a PR returns: "Otherwise, it is     *)
(* always zero", that is, unless it returns -EIO.                          *)
StatusZero == pc = "idle" /\ result # "eio" => status = "zero"

=============================================================================
