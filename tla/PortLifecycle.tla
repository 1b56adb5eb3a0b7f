--------------------------- MODULE PortLifecycle ---------------------------
(***************************************************************************)
(* The life of the FME and port feature devices of one FPGA card: opening  *)
(* and closing their device files, resetting a port, partial               *)
(* reconfiguration (PR) of a port through the FME, releasing a port for    *)
(* SR-IOV and assigning it back, configuring virtual functions, and        *)
(* removing the whole card (pcie.c, feature-dev.[ch], afu.c, fme-main.c,   *)
(* fme-pr.c).                                                              *)
(*                                                                         *)
(* An actor is an open file ("handle") with the thread that works on it;   *)
(* besides there are the sysfs writer of a port, the SR-IOV configuration  *)
(* and the removal of the PCI device.  Three kinds of mutexes order them:  *)
(* the FME's pdata->lock (flock), drvdata->lock (dlock) and each port's    *)
(* pdata->lock (plock).  A section under plock is one step unless it keeps *)
(* the port in reset across the step (then it is two).                     *)
(*                                                                         *)
(* A call that returns an error before it changed anything is no step.     *)
(***************************************************************************)
EXTENDS Integers, FiniteSets

CONSTANTS
    Ports,        \* the ports of the card
    Handles,      \* files that may be opened
    Procs,        \* user processes
    Resources,    \* what a user may set up on a port: interrupts, umsg, DMA
    FME,          \* the FPGA management engine, the other feature device
    NONE, SYSFS, REMOVER,
    MayFail,      \* allocations and feature initialisation may fail
    MayRemove,    \* the PCI device may be removed
    MaxLateAssign \* bound: ports assigned after the removal took them

ASSUME PortsAssumption ==
    /\ IsFiniteSet(Ports)
    /\ FME \notin Ports /\ NONE \notin Ports

ASSUME HandlesAssumption ==
    /\ {NONE, SYSFS, REMOVER} \cap Handles = {}
    /\ NONE # SYSFS /\ NONE # REMOVER /\ SYSFS # REMOVER

ASSUME ResourcesAssumption ==
    /\ Resources \subseteq {"irq", "umsg", "dma"}
    /\ MayFail \in BOOLEAN /\ MayRemove \in BOOLEAN
    /\ MaxLateAssign \in Nat

Devs == Ports \cup {FME}

VARIABLES
    open_count, excl_open, unplug, pid_list, \* struct feature_platform_data
    private,      \* pdata->private is set
    cdev,         \* the character device can be looked up
    ctl,          \* per port: disable_count and the port's reset register
    held,         \* per port: what its users have set up
    plock, dlock, flock,
    registered,   \* device_is_registered(port)
    released_port_num, num_vfs,
    access,       \* per port: FME_PORT.afu_access_control
    pc, dev, excl, arg, \* per handle: progress, device, O_EXCL, ioctl's port
    rm, todo, waitPort, \* removal: progress, ports to do, port waited for
    timedout,     \* ports whose users were not gone after 10 ms
    signalled     \* processes that were sent SIGHUP

useVars  == <<open_count, excl_open, unplug, pid_list>>
devVars  == <<private, cdev, registered, held>>
lockVars == <<plock, dlock, flock>>
vfVars   == <<released_port_num, num_vfs, access>>
fileVars == <<pc, dev, excl, arg>>
rmVars   == <<rm, todo, waitPort, timedout, signalled>>
vars == <<useVars, devVars, ctl, lockVars, vfVars, fileVars, rmVars>>

-----------------------------------------------------------------------------
(* Helpers: the operations on one port's control state.                    *)

\* Hardware acknowledges a reset some time after the bit is set.
Control == [disable_count : Nat, sftrst : BOOLEAN, ack : BOOLEAN]

\* __fpga_port_disable: only the first disable sets the reset bit.  The poll
\* for the acknowledgement is commented out in the code.
PortDisable(c) ==
    IF c.disable_count = 0
    THEN [disable_count |-> 1, sftrst |-> TRUE, ack |-> c.ack]
    ELSE [c EXCEPT !.disable_count = @ + 1]

\* Mutant: every enable clears the reset bit.
PortEnableAlways(c) ==
    [disable_count |-> c.disable_count - 1, sftrst |-> FALSE, ack |-> FALSE]

\* __fpga_port_enable: only the last enable clears the reset bit.
PortEnable(c) ==
    IF c.disable_count - 1 = 0
    THEN [disable_count |-> 0, sftrst |-> FALSE, ack |-> FALSE]
    ELSE [c EXCEPT !.disable_count = @ - 1]

PortReset(c) == PortEnable(PortDisable(c))

Files(d) == {h \in Handles : dev[h] = d /\ pc[h] \notin {"closed", "open"}}

PrPcs     == {"pr_find", "pr_disable", "pr_load", "pr_enable", "pr_unlock"}
DetachPcs == {"detach_del", "detach_destroy", "detach_end"}
AttachPcs == {"attach_init", "attach_reset", "attach_end"}
HandlePcs == {"closed", "open", "open_pid", "idle", "reset", "last_release",
              "oops"} \cup PrPcs \cup DetachPcs \cup AttachPcs

Init ==
    /\ open_count = [d \in Devs |-> 0]
    /\ excl_open = [d \in Devs |-> FALSE]
    /\ unplug = [d \in Devs |-> FALSE]
    /\ pid_list = [p \in Ports |-> [q \in Procs |-> 0]]
    /\ private = [d \in Devs |-> TRUE]
    /\ cdev = [d \in Devs |-> TRUE]
    /\ registered = [p \in Ports |-> TRUE]
    /\ held = [p \in Ports |-> {}]
    /\ ctl = [p \in Ports |->
                [disable_count |-> 0, sftrst |-> FALSE, ack |-> FALSE]]
    /\ plock = [p \in Ports |-> NONE]
    /\ dlock = NONE /\ flock = NONE
    /\ released_port_num = 0 /\ num_vfs = 0
    /\ access = [p \in Ports |-> "PF"]
    /\ pc = [h \in Handles |-> "closed"]
    /\ dev = [h \in Handles |-> NONE]
    /\ excl = [h \in Handles |-> FALSE]
    /\ arg = [h \in Handles |-> NONE]
    /\ rm = "none" /\ todo = {} /\ waitPort = NONE
    /\ timedout = {} /\ signalled = {}

-----------------------------------------------------------------------------
(* Opening and closing a device file.                                      *)

\* chrdev_open finds the character device and takes a reference to it; it
\* may run the driver's open long after, even when the cdev is deleted.
OpenFile(h, d, x) ==
    /\ pc[h] = "closed" /\ cdev[d]
    /\ pc' = [pc EXCEPT ![h] = "open"]
    /\ dev' = [dev EXCEPT ![h] = d]
    /\ excl' = [excl EXCEPT ![h] = x]
    /\ UNCHANGED <<useVars, devVars, ctl, lockVars, vfVars, arg, rmVars>>

\* The handle is closed again and forgets what it was opened for.
Closed(h) ==
    /\ pc' = [pc EXCEPT ![h] = "closed"]
    /\ dev' = [dev EXCEPT ![h] = NONE]
    /\ excl' = [excl EXCEPT ![h] = FALSE]
    /\ UNCHANGED arg

\* Nobody is inside a longer section under d's pdata->lock.
PdataUnlocked(d) == IF d = FME THEN flock = NONE ELSE plock[d] = NONE

\* Mutant: a shared use does not look at excl_open.
UseRefusedIfCounted(d, x) == unplug[d] \/ (x /\ open_count[d] # 0)

\* Mutant: unplug is not looked at.
UseRefusedPlugged(d, x) == IF x THEN open_count[d] # 0 ELSE excl_open[d]

\* feature_dev_use_begin and feature_dev_use_excl_begin refuse with -EBUSY.
UseRefused(d, x) == unplug[d] \/ IF x THEN open_count[d] # 0 ELSE excl_open[d]

\* The first part of afu_open and fme_open: start to use the device.
OpenUse(h) ==
    /\ pc[h] = "open" /\ PdataUnlocked(dev[h])
    /\ IF UseRefused(dev[h], excl[h])
       THEN Closed(h) /\ UNCHANGED <<open_count, excl_open>>
       ELSE /\ open_count' = [open_count EXCEPT ![dev[h]] = @ + 1]
            /\ excl_open' = [excl_open EXCEPT ![dev[h]] = @ \/ excl[h]]
            /\ pc' = [pc EXCEPT ![h] =
                          IF dev[h] = FME THEN "idle" ELSE "open_pid"]
            /\ UNCHANGED <<dev, excl, arg>>
    /\ UNCHANGED <<unplug, pid_list, devVars, ctl, lockVars, vfVars, rmVars>>

\* The rest of afu_open: note the process in the port's pid_list.
OpenPid(h, q) ==
    /\ pc[h] = "open_pid" /\ plock[dev[h]] = NONE
    /\ pid_list' = [pid_list EXCEPT ![dev[h]][q] = @ + 1]
    /\ pc' = [pc EXCEPT ![h] = "idle"]
    /\ UNCHANGED <<open_count, excl_open, unplug, devVars, ctl, lockVars,
                   vfVars, dev, excl, arg, rmVars>>

\* __feature_dev_use_end.
UseEnd(d) ==
    /\ open_count' = [open_count EXCEPT ![d] = @ - 1]
    /\ excl_open' = [excl_open EXCEPT ![d] = FALSE]

\* No memory for a new pid_list entry: afu_open gives the use back.
OpenNoMemory(h) ==
    /\ MayFail
    /\ pc[h] = "open_pid" /\ plock[dev[h]] = NONE
    /\ \E q \in Procs : pid_list[dev[h]][q] = 0
    /\ UseEnd(dev[h])
    /\ Closed(h)
    /\ UNCHANGED <<unplug, pid_list, devVars, ctl, lockVars, vfVars, rmVars>>

\* fme_release (the error interrupt it disarms is not modelled).
CloseFme(h) ==
    /\ pc[h] = "idle" /\ dev[h] = FME /\ flock = NONE
    /\ UseEnd(FME)
    /\ Closed(h)
    /\ UNCHANGED <<unplug, pid_list, devVars, ctl, lockVars, vfVars, rmVars>>

\* afu_release forgets one use of the closing process q, if q is listed.
ForgetPid(p, q) ==
    pid_list' = [pid_list EXCEPT ![p][q] = IF @ > 0 THEN @ - 1 ELSE 0]

\* afu_release by process q when other files of the port remain open.
CloseNotLast(h, q) ==
    /\ pc[h] = "idle" /\ dev[h] \in Ports /\ plock[dev[h]] = NONE
    /\ open_count[dev[h]] # 1
    /\ UseEnd(dev[h]) /\ ForgetPid(dev[h], q)
    /\ Closed(h)
    /\ UNCHANGED <<unplug, devVars, ctl, lockVars, vfVars, rmVars>>

\* afu_release of the last file, up to the disable of __fpga_port_reset: the
\* interrupts are disarmed and the umsg halted.  Without an AFU (private is
\* NULL) the umsg code dereferences NULL with the lock held.
CloseLast(h, q) ==
    /\ pc[h] = "idle" /\ dev[h] \in Ports /\ plock[dev[h]] = NONE
    /\ open_count[dev[h]] = 1
    /\ UseEnd(dev[h]) /\ ForgetPid(dev[h], q)
    /\ plock' = [plock EXCEPT ![dev[h]] = h]
    /\ IF private[dev[h]]
       THEN /\ held' = [held EXCEPT ![dev[h]] = @ \ {"irq", "umsg"}]
            /\ ctl' = [ctl EXCEPT ![dev[h]] = PortDisable(@)]
            /\ pc' = [pc EXCEPT ![h] = "last_release"]
       ELSE /\ held' = [held EXCEPT ![dev[h]] = @ \ {"irq"}]
            /\ pc' = [pc EXCEPT ![h] = "oops"]
            /\ UNCHANGED ctl
    /\ UNCHANGED <<unplug, private, cdev, registered, dlock, flock, vfVars,
                   dev, excl, arg, rmVars>>

\* The end of it: the port leaves reset and the DMA regions are destroyed.
CloseLastEnd(h) ==
    /\ pc[h] = "last_release"
    /\ ctl' = [ctl EXCEPT ![dev[h]] = PortEnable(@)]
    /\ held' = [held EXCEPT ![dev[h]] = @ \ {"dma"}]
    /\ plock' = [plock EXCEPT ![dev[h]] = NONE]
    /\ Closed(h)
    /\ UNCHANGED <<useVars, private, cdev, registered, dlock, flock, vfVars,
                   rmVars>>

-----------------------------------------------------------------------------
(* Work on an open port.                                                   *)

\* An ioctl that arms an interrupt, sets up umsg or maps DMA memory; under
\* pdata->lock, and only after private was dereferenced.
SetUp(h, r) ==
    /\ pc[h] = "idle" /\ dev[h] \in Ports /\ plock[dev[h]] = NONE
    /\ private[dev[h]]
    /\ r \notin held[dev[h]]
    /\ held' = [held EXCEPT ![dev[h]] = @ \cup {r}]
    /\ UNCHANGED <<useVars, private, cdev, registered, ctl, lockVars, vfVars,
                   fileVars, rmVars>>

\* FPGA_PORT_RESET: fpga_port_reset takes the lock and disables the port ...
ResetBegin(h) ==
    /\ pc[h] = "idle" /\ dev[h] \in Ports /\ plock[dev[h]] = NONE
    /\ plock' = [plock EXCEPT ![dev[h]] = h]
    /\ ctl' = [ctl EXCEPT ![dev[h]] = PortDisable(@)]
    /\ pc' = [pc EXCEPT ![h] = "reset"]
    /\ UNCHANGED <<useVars, devVars, dlock, flock, vfVars, dev, excl, arg,
                   rmVars>>

\* ... then enables it and drops the lock.
ResetEnd(h) ==
    /\ pc[h] = "reset"
    /\ ctl' = [ctl EXCEPT ![dev[h]] = PortEnable(@)]
    /\ plock' = [plock EXCEPT ![dev[h]] = NONE]
    /\ pc' = [pc EXCEPT ![h] = "idle"]
    /\ UNCHANGED <<useVars, devVars, dlock, flock, vfVars, dev, excl, arg,
                   rmVars>>

\* A write to errors/clear of a bound port: port_err_clear halts the port
\* under the lock (unless it is in AP6) ...
ErrClearBegin(p) ==
    /\ private[p] /\ cdev[p] /\ plock[p] = NONE
    /\ plock' = [plock EXCEPT ![p] = SYSFS]
    /\ ctl' = [ctl EXCEPT ![p] = PortDisable(@)]
    /\ UNCHANGED <<useVars, devVars, dlock, flock, vfVars, fileVars, rmVars>>

\* ... and enables it when the error registers are cleared.
ErrClearEnd(p) ==
    /\ plock[p] = SYSFS
    /\ plock' = [plock EXCEPT ![p] = NONE]
    /\ ctl' = [ctl EXCEPT ![p] = PortEnable(@)]
    /\ UNCHANGED <<useVars, devVars, dlock, flock, vfVars, fileVars, rmVars>>

\* The hardware has drained the port and acknowledges the reset.
HwResetAck(p) ==
    /\ ctl[p].sftrst /\ ~ctl[p].ack
    /\ ctl' = [ctl EXCEPT ![p].ack = TRUE]
    /\ UNCHANGED <<useVars, devVars, lockVars, vfVars, fileVars, rmVars>>

-----------------------------------------------------------------------------
(* Partial reconfiguration: fme_pr, under the FME's lock.                  *)

\* A handle goes from one point of its ioctl to the next.
Goto(h, from, to) ==
    /\ pc[h] = from
    /\ pc' = [pc EXCEPT ![h] = to]
    /\ UNCHANGED <<dev, excl>>

PrBegin(h, p) ==
    /\ dev[h] = FME /\ flock = NONE /\ private[FME]
    /\ Goto(h, "idle", "pr_find")
    /\ flock' = h
    /\ arg' = [arg EXCEPT ![h] = p]
    /\ UNCHANGED <<useVars, devVars, ctl, plock, dlock, vfVars, rmVars>>

\* fpga_for_each_port looks the port up under drvdata->lock; a released port
\* is found too.
PrFindPort(h) ==
    /\ dlock = NONE
    /\ Goto(h, "pr_find", "pr_disable")
    /\ UNCHANGED <<useVars, devVars, ctl, lockVars, vfVars, arg, rmVars>>

PrDisable(h) ==
    /\ Goto(h, "pr_disable", "pr_load")
    /\ plock[arg[h]] = NONE
    /\ ctl' = [ctl EXCEPT ![arg[h]] = PortDisable(@)]
    /\ UNCHANGED <<useVars, devVars, lockVars, vfVars, arg, rmVars>>

\* fpga_mgr_buf_load writes the bitstream and returns, done or failed.
PrLoad(h) ==
    /\ Goto(h, "pr_load", "pr_enable")
    /\ UNCHANGED <<useVars, devVars, ctl, lockVars, vfVars, arg, rmVars>>

PrEnable(h) ==
    /\ Goto(h, "pr_enable", "pr_unlock")
    /\ plock[arg[h]] = NONE
    /\ ctl' = [ctl EXCEPT ![arg[h]] = PortEnable(@)]
    /\ UNCHANGED <<useVars, devVars, lockVars, vfVars, arg, rmVars>>

PrEnd(h) ==
    /\ Goto(h, "pr_unlock", "idle")
    /\ flock' = NONE
    /\ arg' = [arg EXCEPT ![h] = NONE]
    /\ UNCHANGED <<useVars, devVars, ctl, plock, dlock, vfVars, rmVars>>

-----------------------------------------------------------------------------
(* FPGA_FME_PORT_RELEASE: detach_port_dev, under drvdata->lock.            *)

DetachBegin(h, p) ==
    /\ dev[h] = FME /\ dlock = NONE /\ rm # "gone"
    /\ registered[p]
    /\ plock[p] = NONE /\ ~UseRefused(p, TRUE)
    /\ Goto(h, "idle", "detach_del")
    /\ dlock' = h
    /\ arg' = [arg EXCEPT ![h] = p]
    /\ open_count' = [open_count EXCEPT ![p] = @ + 1]
    /\ excl_open' = [excl_open EXCEPT ![p] = TRUE]
    /\ UNCHANGED <<unplug, pid_list, devVars, ctl, plock, flock, vfVars,
                   rmVars>>

\* platform_device_del runs afu_remove: the sysfs files and the character
\* device go first (a running store is waited for) ...
DetachDel(h) ==
    /\ Goto(h, "detach_del", "detach_destroy")
    /\ plock[arg[h]] # SYSFS
    /\ cdev' = [cdev EXCEPT ![arg[h]] = FALSE]
    /\ UNCHANGED <<useVars, private, registered, held, ctl, lockVars, vfVars,
                   arg, rmVars>>

\* ... then afu_dev_destroy frees the AFU.
DetachDestroy(h) ==
    /\ Goto(h, "detach_destroy", "detach_end")
    /\ plock[arg[h]] = NONE
    /\ private' = [private EXCEPT ![arg[h]] = FALSE]
    /\ held' = [held EXCEPT ![arg[h]] = @ \ {"dma"}]
    /\ UNCHANGED <<useVars, cdev, registered, ctl, lockVars, vfVars, arg,
                   rmVars>>

DetachEnd(h) ==
    /\ Goto(h, "detach_end", "idle")
    /\ registered' = [registered EXCEPT ![arg[h]] = FALSE]
    /\ released_port_num' = released_port_num + 1
    /\ dlock' = NONE
    /\ arg' = [arg EXCEPT ![h] = NONE]
    /\ UNCHANGED <<useVars, private, cdev, held, ctl, plock, flock, num_vfs,
                   access, rmVars>>

-----------------------------------------------------------------------------
(* FPGA_FME_PORT_ASSIGN: attach_port_dev, under drvdata->lock.             *)

\* platform_device_add fails once the parent device is gone.
AttachBegin(h, p) ==
    /\ dev[h] = FME /\ dlock = NONE /\ rm \notin {"destroy", "gone"}
    /\ access[p] # "VF" /\ ~registered[p]
    /\ released_port_num > -MaxLateAssign
    /\ Goto(h, "idle", "attach_init")
    /\ dlock' = h
    /\ arg' = [arg EXCEPT ![h] = p]
    /\ UNCHANGED <<useVars, devVars, ctl, plock, flock, vfVars, rmVars>>

\* platform_device_add runs afu_probe: afu_dev_init sets the AFU up ...
AttachInit(h) ==
    /\ Goto(h, "attach_init", "attach_reset")
    /\ plock[arg[h]] = NONE
    /\ private' = [private EXCEPT ![arg[h]] = TRUE]
    /\ UNCHANGED <<useVars, cdev, registered, held, ctl, lockVars, vfVars,
                   arg, rmVars>>

\* ... port_hdr_init resets the port, the other features are initialised and
\* the character device is added.
AttachReset(h) ==
    /\ Goto(h, "attach_reset", "attach_end")
    /\ plock[arg[h]] = NONE
    /\ ctl' = [ctl EXCEPT ![arg[h]] = PortReset(@)]
    /\ cdev' = [cdev EXCEPT ![arg[h]] = TRUE]
    /\ registered' = [registered EXCEPT ![arg[h]] = TRUE]
    /\ UNCHANGED <<useVars, private, held, lockVars, vfVars, arg, rmVars>>

\* Mutant: the failed probe leaves the port disabled.
AttachProbeFailsDisabled(h) ==
    /\ MayFail
    /\ Goto(h, "attach_reset", "attach_end")
    /\ plock[arg[h]] = NONE
    /\ ctl' = [ctl EXCEPT ![arg[h]] = PortDisable(@)]
    /\ private' = [private EXCEPT ![arg[h]] = FALSE]
    /\ registered' = [registered EXCEPT ![arg[h]] = TRUE]
    /\ UNCHANGED <<useVars, cdev, held, lockVars, vfVars, arg, rmVars>>

\* A feature cannot be initialised: afu_probe undoes what it did, and the
\* device is registered without a driver.
AttachProbeFails(h) ==
    /\ MayFail
    /\ Goto(h, "attach_reset", "attach_end")
    /\ plock[arg[h]] = NONE
    /\ ctl' = [ctl EXCEPT ![arg[h]] = PortReset(@)]
    /\ private' = [private EXCEPT ![arg[h]] = FALSE]
    /\ registered' = [registered EXCEPT ![arg[h]] = TRUE]
    /\ UNCHANGED <<useVars, cdev, held, lockVars, vfVars, arg, rmVars>>

\* Mutant: the port is not counted back.
AttachEndUncounted(h) ==
    /\ Goto(h, "attach_end", "idle")
    /\ plock[arg[h]] = NONE
    /\ UseEnd(arg[h])
    /\ dlock' = NONE
    /\ arg' = [arg EXCEPT ![h] = NONE]
    /\ UNCHANGED <<unplug, pid_list, devVars, ctl, plock, flock, vfVars,
                   rmVars>>

AttachEnd(h) ==
    /\ Goto(h, "attach_end", "idle")
    /\ plock[arg[h]] = NONE
    /\ UseEnd(arg[h])
    /\ released_port_num' = released_port_num - 1
    /\ dlock' = NONE
    /\ arg' = [arg EXCEPT ![h] = NONE]
    /\ UNCHANGED <<unplug, pid_list, devVars, ctl, plock, flock, num_vfs,
                   access, rmVars>>

-----------------------------------------------------------------------------
(* cci_pci_sriov_configure, under drvdata->lock.                           *)

Unregistered == {p \in Ports : ~registered[p]}

\* n > 0: the first n released ports of the list are given to VFs.  The PCI
\* core asks for it only when no VF is enabled.  Which ports come first in
\* the list is left open.
SriovEnable(n) ==
    /\ dlock = NONE /\ rm = "none" /\ num_vfs = 0
    /\ released_port_num >= n
    /\ \E S \in SUBSET Unregistered :
          /\ Cardinality(S) = n
          /\ access' = [p \in Ports |-> IF p \in S THEN "VF" ELSE access[p]]
    /\ num_vfs' = n
    /\ UNCHANGED <<useVars, devVars, ctl, lockVars, released_port_num,
                   fileVars, rmVars>>

\* n = 0, and pci_enable_sriov failing: all released ports go to the PF.
PortsToPF ==
    access' = [p \in Ports |-> IF registered[p] THEN access[p] ELSE "PF"]

SriovEnableFails(n) ==
    /\ dlock = NONE /\ rm = "none" /\ num_vfs = 0
    /\ released_port_num >= n
    /\ PortsToPF
    /\ UNCHANGED <<useVars, devVars, ctl, lockVars, released_port_num,
                   num_vfs, fileVars, rmVars>>

SriovDisable ==
    /\ dlock = NONE /\ rm = "none" /\ num_vfs # 0
    /\ PortsToPF
    /\ num_vfs' = 0
    /\ UNCHANGED <<useVars, devVars, ctl, lockVars, released_port_num,
                   fileVars, rmVars>>

-----------------------------------------------------------------------------
(* cci_pci_remove.                                                         *)

RmBegin ==
    /\ MayRemove /\ rm = "none" /\ dlock = NONE
    /\ dlock' = REMOVER
    /\ todo' = Ports
    /\ rm' = "unplug"
    /\ UNCHANGED <<useVars, devVars, ctl, plock, flock, vfVars, fileVars,
                   waitPort, timedout, signalled>>

\* Signal the processes of the next port and refuse further opens.
RmUnplug(p) ==
    /\ rm = "unplug" /\ p \in todo /\ plock[p] = NONE
    /\ signalled' = signalled \cup {q \in Procs : pid_list[p][q] > 0}
    /\ unplug' = [unplug EXCEPT ![p] = TRUE]
    /\ rm' = "wait" /\ waitPort' = p
    /\ UNCHANGED <<open_count, excl_open, pid_list, devVars, ctl, lockVars,
                   vfVars, fileVars, todo, timedout>>

\* Mutant: the lock is not dropped after the last port.
RmNextKeepsLock ==
    /\ todo' = todo \ {waitPort}
    /\ rm' = IF todo' = {} THEN "sriov" ELSE "unplug"
    /\ waitPort' = NONE
    /\ UNCHANGED <<useVars, devVars, ctl, lockVars, vfVars, fileVars, signalled>>

\* After the wait the next port follows, or the lock is dropped.
RmNext ==
    /\ todo' = todo \ {waitPort}
    /\ rm' = IF todo' = {} THEN "sriov" ELSE "unplug"
    /\ dlock' = IF todo' = {} THEN NONE ELSE dlock
    /\ waitPort' = NONE
    /\ UNCHANGED <<useVars, devVars, ctl, plock, flock, vfVars, fileVars,
                   signalled>>

\* Mutant: the poll takes one remaining user for none.
RmDrainedButOne ==
    /\ rm = "wait"
    /\ plock[waitPort] = NONE /\ open_count[waitPort] <= 1
    /\ RmNext
    /\ UNCHANGED timedout

\* A poll finds that the port has no user.
RmDrained ==
    /\ rm = "wait"
    /\ plock[waitPort] = NONE /\ open_count[waitPort] = 0
    /\ RmNext
    /\ UNCHANGED timedout

\* 10 ms are over: the error is logged and the removal goes on.
RmTimeout ==
    /\ rm = "wait"
    /\ RmNext
    /\ timedout' = timedout \cup {waitPort}

\* cci_pci_sriov_configure(pcidev, 0).
RmSriov ==
    /\ rm = "sriov" /\ dlock = NONE
    /\ PortsToPF
    /\ num_vfs' = 0
    /\ rm' = "fme"
    /\ UNCHANGED <<useVars, devVars, ctl, lockVars, released_port_num,
                   fileVars, todo, waitPort, timedout, signalled>>

\* remove_all_devs unregisters the FME: fme_remove deletes the character
\* device and, when no PR holds the lock, fme_dev_destroy frees the FME.
RmFme ==
    /\ rm = "fme" /\ flock = NONE
    /\ cdev' = [cdev EXCEPT ![FME] = FALSE]
    /\ private' = [private EXCEPT ![FME] = FALSE]
    /\ rm' = "ports"
    /\ UNCHANGED <<useVars, registered, held, ctl, lockVars, vfVars, fileVars,
                   todo, waitPort, timedout, signalled>>

\* It unregisters each port that is registered: afu_remove.
RmPort(p) ==
    /\ rm = "ports" /\ registered[p] /\ plock[p] = NONE
    /\ cdev' = [cdev EXCEPT ![p] = FALSE]
    /\ private' = [private EXCEPT ![p] = FALSE]
    /\ held' = [held EXCEPT ![p] = @ \ {"dma"}]
    /\ registered' = [registered EXCEPT ![p] = FALSE]
    /\ UNCHANGED <<useVars, ctl, lockVars, vfVars, fileVars, rmVars>>

\* device_for_each_child has come to the end of the children ...
RmLastChild ==
    /\ rm = "ports" /\ \A p \in Ports : ~registered[p]
    /\ rm' = "parent"
    /\ UNCHANGED <<useVars, devVars, ctl, lockVars, vfVars, fileVars, todo,
                   waitPort, timedout, signalled>>

\* ... and the parent device is unregistered.
RmParent ==
    /\ rm = "parent"
    /\ rm' = "destroy"
    /\ UNCHANGED <<useVars, devVars, ctl, lockVars, vfVars, fileVars, todo,
                   waitPort, timedout, signalled>>

\* destroy_drvdata, with cci_pci_remove_port_devs under drvdata->lock.
RmDestroy ==
    /\ rm = "destroy" /\ dlock = NONE
    /\ rm' = "gone"
    /\ UNCHANGED <<useVars, devVars, ctl, lockVars, vfVars, fileVars, todo,
                   waitPort, timedout, signalled>>

\* Release or assign through an FME file that is still open: drvdata is
\* NULL now.
ConfigAfterRemove(h) ==
    /\ dev[h] = FME /\ rm = "gone"
    /\ Goto(h, "idle", "oops")
    /\ UNCHANGED <<useVars, devVars, ctl, lockVars, vfVars, arg, rmVars>>

-----------------------------------------------------------------------------
OpenClose(h) ==
    \/ \E d \in Devs, x \in BOOLEAN : OpenFile(h, d, x)
    \/ OpenUse(h)
    \/ \E q \in Procs : OpenPid(h, q)
    \/ OpenNoMemory(h)
    \/ CloseFme(h)
    \/ \E q \in Procs : CloseNotLast(h, q) \/ CloseLast(h, q)
    \/ CloseLastEnd(h)

PortWork(h) ==
    \/ \E r \in Resources : SetUp(h, r)
    \/ ResetBegin(h) \/ ResetEnd(h)

Reconfigure(h) ==
    \/ \E p \in Ports : PrBegin(h, p)
    \/ PrFindPort(h) \/ PrDisable(h) \/ PrLoad(h) \/ PrEnable(h) \/ PrEnd(h)

ConfigPort(h) ==
    \/ \E p \in Ports : DetachBegin(h, p) \/ AttachBegin(h, p)
    \/ DetachDel(h) \/ DetachDestroy(h) \/ DetachEnd(h)
    \/ AttachInit(h) \/ AttachReset(h) \/ AttachProbeFails(h) \/ AttachEnd(h)
    \/ ConfigAfterRemove(h)

Sriov ==
    \/ \E n \in 1..Cardinality(Ports) : SriovEnable(n) \/ SriovEnableFails(n)
    \/ SriovDisable

Remove ==
    \/ RmBegin \/ RmDrained \/ RmTimeout \/ RmSriov \/ RmFme
    \/ \E p \in Ports : RmUnplug(p) \/ RmPort(p)
    \/ RmLastChild \/ RmParent \/ RmDestroy

Next ==
    \/ \E h \in Handles :
          OpenClose(h) \/ PortWork(h) \/ Reconfigure(h) \/ ConfigPort(h)
    \/ \E p \in Ports : ErrClearBegin(p) \/ ErrClearEnd(p) \/ HwResetAck(p)
    \/ Sriov
    \/ Remove

Spec == Init /\ [][Next]_vars

\* A call that has begun goes on: a thread in the kernel is scheduled, and
\* its mutexes are handed over to it some time (strong fairness, as others
\* may take them in between).  Nothing makes a user begin a call.
CallStep(h) ==
    \/ OpenUse(h) \/ (\E q \in Procs : OpenPid(h, q)) \/ CloseLastEnd(h)
    \/ ResetEnd(h)
    \/ PrFindPort(h) \/ PrDisable(h) \/ PrLoad(h) \/ PrEnable(h) \/ PrEnd(h)
    \/ DetachDel(h) \/ DetachDestroy(h) \/ DetachEnd(h)
    \/ AttachInit(h) \/ AttachReset(h) \/ AttachEnd(h)

\* So does a removal that has begun.
RemoveStep ==
    \/ RmDrained \/ RmTimeout \/ RmSriov \/ RmFme
    \/ \E p \in Ports : RmUnplug(p) \/ RmPort(p)
    \/ RmLastChild \/ RmParent \/ RmDestroy

FairSpec ==
    /\ Spec
    /\ \A h \in Handles : SF_vars(CallStep(h))
    /\ \A p \in Ports : WF_vars(ErrClearEnd(p))
    /\ SF_vars(RemoveStep)

-----------------------------------------------------------------------------
(* Properties.                                                             *)

\* The type invariant.  open_count may be driven below zero only when a port
\* is assigned while the card is removed, so it is an integer.
TypeOK ==
    /\ open_count \in [Devs -> Int] /\ excl_open \in [Devs -> BOOLEAN]
    /\ unplug \in [Devs -> BOOLEAN]
    /\ pid_list \in [Ports -> [Procs -> Nat]]
    /\ private \in [Devs -> BOOLEAN] /\ cdev \in [Devs -> BOOLEAN]
    /\ registered \in [Ports -> BOOLEAN]
    /\ held \in [Ports -> SUBSET {"irq", "umsg", "dma"}]
    /\ ctl \in [Ports -> Control]
    /\ plock \in [Ports -> Handles \cup {NONE, SYSFS}]
    /\ dlock \in Handles \cup {NONE, REMOVER}
    /\ flock \in Handles \cup {NONE}
    /\ released_port_num \in Int /\ num_vfs \in Nat
    /\ access \in [Ports -> {"PF", "VF"}]
    /\ pc \in [Handles -> HandlePcs]
    /\ dev \in [Handles -> Devs \cup {NONE}]
    /\ excl \in [Handles -> BOOLEAN]
    /\ arg \in [Handles -> Ports \cup {NONE}]
    /\ rm \in {"none", "unplug", "wait", "sriov", "fme", "ports", "parent",
               "destroy", "gone"}
    /\ todo \subseteq Ports /\ waitPort \in Ports \cup {NONE}
    /\ timedout \subseteq Ports /\ signalled \subseteq Procs

\* A port is in reset as long as a bitstream is loaded into it, whatever its
\* users, the error-clearing sysfs file and an assign do meanwhile
\* (fme_pr: "Disable Port before PR", "Re-enable Port after PR finished").
PrInReset == \A h \in Handles : pc[h] = "pr_load" => ctl[arg[h]].sftrst

\* Who holds p disabled: a PR between its disable and enable, and whoever is
\* inside a reset or an error clear under the port's lock.
PrHolds(p) ==
    \E h \in Handles : pc[h] \in {"pr_load", "pr_enable"} /\ arg[h] = p
ResetHolds(p) ==
    \/ plock[p] = SYSFS
    \/ \E h \in Handles : pc[h] \in {"reset", "last_release"} /\ dev[h] = p

\* disable_count is the number of those who hold the port disabled, and the
\* port is in reset exactly when somebody does: no enable comes without a
\* disable (the WARN_ON of __fpga_port_enable), no disable is leaked.
DisableBalanced ==
    \A p \in Ports :
        /\ ctl[p].disable_count = (IF PrHolds(p) THEN 1 ELSE 0)
                                  + (IF ResetHolds(p) THEN 1 ELSE 0)
        /\ ctl[p].sftrst <=> ctl[p].disable_count > 0

\* A file opened with O_EXCL is the only file of its device, and it keeps a
\* port from being released.
ExclusiveUse ==
    \A h \in Handles : \A g \in Handles \ {h} :
        excl[h] /\ h \in Files(dev[h]) => g \notin Files(dev[h])

\* While nobody removes the card: a port that is released, or on its way
\* there, has no open file, so no user is left on a port that a VF may get.
ReleasedUnused ==
    rm = "none" =>
        \A p \in Ports : ~registered[p] \/ access[p] = "VF" => Files(p) = {}

\* drvdata->released_port_num counts the unregistered ports whenever
\* drvdata->lock is free, and as many of them are given to VFs as VFs are
\* enabled: SR-IOV is never configured from a wrong count.
ReleasedCounted ==
    rm = "none" /\ dlock = NONE =>
        /\ released_port_num = Cardinality(Unregistered)
        /\ num_vfs = Cardinality({p \in Ports : access[p] = "VF"})
        /\ \A p \in Ports : access[p] = "VF" => ~registered[p]

\* Released ports are unused and counted.
ReleasedAccounted == ReleasedUnused /\ ReleasedCounted

\* A file is open only on a device whose private data (AFU or FME) exists,
\* except when a removal stopped waiting for the users of that port.  The
\* FME's users are not waited for, so this is about ports.
FileHasAfu ==
    \A p \in Ports : Files(p) # {} => private[p] \/ p \in timedout

\* Nothing that a user has set up on a port (interrupt, umsg, DMA region)
\* outlives the port's last file, except when a removal stopped waiting for
\* the users of that port.
NothingOutlivesLastClose ==
    \A p \in Ports : Files(p) = {} => held[p] = {} \/ p \in timedout

\* Every call returns, also while the card is removed: the three kinds of
\* locks are taken in an order (FME, drvdata, port) in which nobody waits for
\* ever, and each is released.  A removal that stopped waiting for the users
\* of a port is excepted: the last close of such a port fails with its lock
\* held.  Once the card is gone, a call through a file that is still open may
\* find no driver data.
CallReturns ==
    \A h \in Handles :
        pc[h] \notin {"closed", "idle"}
            ~> pc[h] \in {"closed", "idle"} \/ timedout # {} \/ rm = "gone"

\* A removal whose ports are free in time comes to its end, whatever is done
\* with the FME meanwhile.
RemoveReturns == rm # "none" ~> rm = "gone" \/ timedout # {}

\* Every call and every removal returns.
AllReturn == CallReturns /\ RemoveReturns

\* What the comment in cci_pci_remove_port_devs says, and its WARN_ON: when
\* the driver data is destroyed "the port should be unregistered first".
UnregisteredFirst == rm = "gone" => \A p \in Ports : ~registered[p]

\* What the comment in __fpga_port_disable says: "Driver polls
\* port_soft_reset_ack to determine if reset done by HW", so that a PR starts
\* on a port whose outstanding requests are drained.
ResetAcknowledged == \A h \in Handles : pc[h] = "pr_load" => ctl[arg[h]].ack
=============================================================================
