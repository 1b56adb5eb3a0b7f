-------------------------- MODULE PortInvariants --------------------------
(***************************************************************************)
(* The inductive invariants of PortLifecycle: IInv, about the reset of a   *)
(* port, and UInv, about who may use a port.  IInv's proof is in           *)
(* PortLifecycleProofs, UInv's in PortUseProofs and PortReleaseProofs.     *)
(***************************************************************************)
EXTENDS PortLifecycle

(* What the points a handle may be at say about its device, its ioctl's    *)
(* port and the locks it holds.                                            *)
Shape ==
    /\ \A h \in Handles :
          /\ pc[h] \in PrPcs <=> flock = h
          /\ pc[h] \in PrPcs \cup DetachPcs \cup AttachPcs => arg[h] \in Ports
          /\ pc[h] # "closed" => dev[h] \in Devs
          /\ pc[h] = "open_pid" => dev[h] \in Ports
          /\ pc[h] \in {"reset", "last_release"} =>
                dev[h] \in Ports /\ plock[dev[h]] = h
    /\ rm = "wait" => waitPort \in Ports

IInv == TypeOK /\ Shape /\ DisableBalanced

-----------------------------------------------------------------------------
(* The files that open_count[d] counts: not the one whose last close has   *)
(* given its use back and still resets the port.                           *)
Counted(d) ==
    {h \in Files(d) : pc[h] # "last_release" /\ (pc[h] = "oops" => d = FME)}

(* The release holds a use of the port, from the begin of                  *)
(* detach_port_dev to the end of attach_port_dev.                          *)
Released(p) ==
    \/ ~registered[p]
    \/ \E h \in Handles :
          pc[h] \in DetachPcs \cup {"attach_end"} /\ arg[h] = p

(* The removal has not unregistered a port yet.                            *)
Before == rm \in {"none", "unplug", "wait", "sriov", "fme"}

(* drvdata->lock and the ports' locks are held by those, and only those,   *)
(* who are inside the sections that they protect.                          *)
LockInv ==
    /\ \A h \in Handles :
          /\ pc[h] \in DetachPcs \cup AttachPcs <=> dlock = h
          /\ pc[h] \in PrPcs \cup DetachPcs \cup AttachPcs => dev[h] = FME
          /\ pc[h] = "oops" /\ dev[h] \in Ports => plock[dev[h]] = h
          /\ \A p \in Ports : plock[p] = h =>
                dev[h] = p /\ pc[h] \in {"reset", "last_release", "oops"}
    /\ rm \in {"unplug", "wait"} <=> dlock = REMOVER

(* A port that the removal is done with is unplugged, and its files are    *)
(* gone unless the removal stopped waiting for them.                       *)
RemoveInv ==
    /\ rm = "none" => timedout = {}
    /\ rm \notin {"none", "unplug", "wait"} => todo = {}
    /\ rm = "wait" => waitPort \in todo /\ unplug[waitPort]
    /\ \A p \in timedout : unplug[p]
    /\ rm # "none" =>
          \A p \in Ports \ todo :
              unplug[p] /\ (p \in timedout \/ Files(p) = {})

(* An assign registers an unregistered port; a release and the end of an   *)
(* assign work on a registered one.                                        *)
ProbeInv ==
    \A h \in Handles :
        /\ pc[h] \in {"attach_init", "attach_reset"} => ~registered[arg[h]]
        /\ Before /\ pc[h] = "attach_end" => registered[arg[h]]
        /\ Before /\ pc[h] \in DetachPcs => registered[arg[h]]

(* Those who use a device: its counted files, and the release of a port.   *)
Uses(d) ==
    Cardinality(Counted(d)) + (IF d \in Ports /\ Released(d) THEN 1 ELSE 0)

(* open_count counts them.                                                 *)
CountInv ==
    /\ \A d \in Devs : IsFiniteSet(Counted(d))
    /\ \A d \in Devs : d = FME \/ Before => open_count[d] = Uses(d)

(* excl_open guards an exclusive file, which is the only one.              *)
ExclInv ==
    \A h \in Handles : excl[h] /\ h \in Files(dev[h]) =>
        /\ Files(dev[h]) = {h}
        /\ h \in Counted(dev[h]) /\ ~unplug[dev[h]] => excl_open[dev[h]]

(* ... and guards a released port, which has no file.                      *)
ReleasedInv ==
    \A p \in Ports : Released(p) /\ p \notin timedout =>
        Files(p) = {} /\ (~unplug[p] => excl_open[p])

(* The unregistered ports, and one that is registered again but not        *)
(* counted back yet.                                                       *)
Owed ==
    Cardinality(Unregistered)
    + (IF \E h \in Handles : pc[h] = "attach_end" THEN 1 ELSE 0)

(* released_port_num counts them; VFs get released ports only.             *)
VfInv ==
    rm = "none" =>
        /\ released_port_num = Owed
        /\ num_vfs = Cardinality({p \in Ports : access[p] = "VF"})
        /\ \A p \in Ports : access[p] = "VF" => ~registered[p]
        /\ \A h \in Handles : pc[h] \in AttachPcs => access[arg[h]] # "VF"

(* The part of it that a use or a file can disturb.                        *)
UseInv == RemoveInv /\ CountInv /\ ExclInv /\ ReleasedInv

UInv == LockInv /\ ProbeInv /\ VfInv /\ UseInv

(* A port has its AFU unless it is released (probes do not fail).          *)
AfuThere ==
    /\ \A p \in Ports :
          private[p] \/ ~registered[p]
                     \/ \E h \in Handles : pc[h] = "detach_end" /\ arg[h] = p
    /\ \A h \in Handles : pc[h] = "attach_reset" => private[arg[h]]

(* A last close has only the DMA regions left to destroy while it resets   *)
(* the port.                                                               *)
LastClears ==
    /\ NothingOutlivesLastClose
    /\ \A h \in Handles :
          pc[h] = "last_release" => held[dev[h]] \subseteq {"dma"}

=============================================================================
