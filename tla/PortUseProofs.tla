--------------------------- MODULE PortUseProofs ---------------------------
(***************************************************************************)
(* Who may use a port, for any number of ports, files and processes: the   *)
(* steps that concern no use, those of the removal and those of an open or *)
(* a close keep UInv, the invariant that ties open_count to the open       *)
(* files.                                                                  *)
(*                                                                         *)
(* A step is first shown to be of a kind (Apart, RemoveEffect, OpenEffect) *)
(* that says what it may change, and the invariant follows from that.      *)
(***************************************************************************)
EXTENDS PortInvariants, FiniteSetTheorems, TLAPS

USE ZenonT(30)

-----------------------------------------------------------------------------
(* Kinds of steps.                                                         *)

(* Where a handle is neither opened or closed nor releasing or assigning.  *)
Plain == {"open_pid", "idle", "reset"} \cup PrPcs

(* A step that concerns neither a use nor a release.                       *)
Apart ==
    /\ UNCHANGED <<open_count, excl_open, unplug, private, registered, dlock,
                   dev, excl, rmVars>>
    /\ \A g \in Handles :
          \/ pc'[g] = pc[g] /\ arg'[g] = arg[g]
          \/ /\ pc[g] \in Plain
             /\ pc'[g] \in Plain \/ (pc'[g] = "oops" /\ dev[g] = FME)

(* A step of the removal leaves the files alone; only remove_all_devs      *)
(* takes a port's AFU and unregisters it.                                  *)
RemoveEffect ==
    /\ UNCHANGED <<open_count, excl_open, plock, fileVars>>
    /\ \A d \in Devs : unplug[d] => unplug'[d]
    /\ timedout \subseteq timedout' /\ (Before' => Before) /\ rm' # "none"
    /\ \A p \in Ports :
          \/ private'[p] = private[p] /\ registered'[p] = registered[p]
          \/ registered[p] /\ ~registered'[p] /\ rm = "ports"
    /\ \A p \in Ports : held'[p] \subseteq held[p]
    /\ \A h \in Handles : dlock' = h <=> dlock = h
    /\ rm' \in {"unplug", "wait"} <=> dlock' = REMOVER

(* No file starts to be used and no port is released or assigned; a file   *)
(* that is not counted may go.                                             *)
Still ==
    /\ \A d \in Devs : Files(d)' \subseteq Files(d) /\ Counted(d)' = Counted(d)
    /\ \A d \in Devs : \A h \in Files(d)' : excl'[h] = excl[h]
    /\ \A p \in Ports : (Released(p)' <=> Released(p)) \/ rm = "ports"
    /\ \A d \in Devs : unplug[d] => unplug'[d]
    /\ timedout \subseteq timedout' /\ (Before' => Before)
    /\ UNCHANGED <<open_count, excl_open>>


-----------------------------------------------------------------------------
(* What IInv says of the files ...                                         *)
LEMMA FileTypes ==
    ASSUME IInv
    PROVE  /\ pc \in [Handles -> HandlePcs]
           /\ dev \in [Handles -> Devs \cup {NONE}]
           /\ excl \in [Handles -> BOOLEAN]
           /\ arg \in [Handles -> Ports \cup {NONE}]
BY DEF IInv, TypeOK

(* ... of the devices ...                                                  *)
LEMMA DeviceTypes ==
    ASSUME IInv
    PROVE  /\ open_count \in [Devs -> Int] /\ excl_open \in [Devs -> BOOLEAN]
           /\ unplug \in [Devs -> BOOLEAN] /\ private \in [Devs -> BOOLEAN]
           /\ registered \in [Ports -> BOOLEAN]
           /\ plock \in [Ports -> Handles \cup {NONE, SYSFS}]
           /\ held \in [Ports -> SUBSET {"irq", "umsg", "dma"}]
           /\ todo \subseteq Ports /\ timedout \subseteq Ports
BY DEF IInv, TypeOK

(* ... and of a file's device, its ioctl's port and its lock.              *)
LEMMA FileShape ==
    ASSUME IInv, NEW h \in Handles
    PROVE  /\ pc[h] # "closed" => dev[h] \in Devs
           /\ pc[h] \in {"reset", "last_release"} =>
                 dev[h] \in Ports /\ plock[dev[h]] = h
           /\ pc[h] \in PrPcs \cup DetachPcs \cup AttachPcs => arg[h] \in Ports
BY DEF IInv, Shape

(* Resets, PR, the pid_list, error clearing and the hardware concern       *)
(* neither a use nor a release.                                            *)
LEMMA ApartStep ==
    ASSUME IInv, UInv, NEW h \in Handles,
           \/ PortWork(h) \/ Reconfigure(h) \/ ConfigAfterRemove(h)
           \/ \E q \in Procs : OpenPid(h, q)
    PROVE  Apart /\ UNCHANGED vfVars
<1> /\ pc \in [Handles -> HandlePcs] /\ dev \in [Handles -> Devs \cup {NONE}]
    /\ arg \in [Handles -> Ports \cup {NONE}]
  BY FileTypes
<1> \A g \in Handles :
      pc[g] \in PrPcs \cup DetachPcs \cup AttachPcs => dev[g] = FME
  BY DEF UInv, LockInv
<1> USE DEF Apart, Plain, PrPcs, Goto, useVars, devVars, lockVars, fileVars
<1>1. ASSUME NEW r \in Resources, SetUp(h, r)
      PROVE  Apart /\ UNCHANGED vfVars
  BY <1>1 DEF SetUp
<1>2. CASE ResetBegin(h) \/ ResetEnd(h)
  BY <1>2 DEF ResetBegin, ResetEnd
<1>3. ASSUME NEW p \in Ports, PrBegin(h, p) PROVE Apart /\ UNCHANGED vfVars
  BY <1>3 DEF PrBegin
<1>4. CASE PrFindPort(h) \/ PrLoad(h)
  BY <1>4 DEF PrFindPort, PrLoad
<1>5. CASE PrDisable(h) \/ PrEnable(h)
  BY <1>5 DEF PrDisable, PrEnable
<1>6. CASE PrEnd(h)
  BY <1>6 DEF PrEnd
<1>7. CASE ConfigAfterRemove(h)
  BY <1>7 DEF ConfigAfterRemove
<1>8. ASSUME NEW q \in Procs, OpenPid(h, q) PROVE Apart /\ UNCHANGED vfVars
  BY <1>8 DEF OpenPid
<1> HIDE DEF Apart
<1> QED
  BY <1>1, <1>2, <1>3, <1>4, <1>5, <1>6, <1>7, <1>8 DEF PortWork, Reconfigure

(* So do the error-clearing sysfs file, the hardware and SR-IOV.           *)
LEMMA ApartPort ==
    ASSUME \/ \E p \in Ports :
                 ErrClearBegin(p) \/ ErrClearEnd(p) \/ HwResetAck(p)
           \/ Sriov \/ UNCHANGED vars
    PROVE  Apart /\ UNCHANGED <<held, fileVars>>
BY DEF ErrClearBegin, ErrClearEnd, HwResetAck, Sriov, SriovEnable,
       SriovEnableFails, SriovDisable, Apart, vars, useVars, devVars, lockVars,
       fileVars, rmVars

(* What such a step keeps.                                                 *)
LEMMA ApartKept ==
    ASSUME Apart
    PROVE  /\ Still /\ \A d \in Devs : Files(d)' = Files(d)
           /\ ProbeInv => ProbeInv'
           /\ AfuThere => AfuThere'
<1>1. /\ UNCHANGED <<open_count, excl_open, unplug, private, registered, dev,
                     excl, rmVars>>
      /\ \A g \in Handles :
            /\ pc[g] \in DetachPcs \cup AttachPcs
               \/ pc'[g] \in DetachPcs \cup AttachPcs =>
                  pc'[g] = pc[g] /\ arg'[g] = arg[g]
            /\ pc'[g] \in {"closed", "open"} <=> pc[g] \in {"closed", "open"}
            /\ pc'[g] = "last_release" <=> pc[g] = "last_release"
            /\ dev[g] # FME => (pc'[g] = "oops" <=> pc[g] = "oops")
  BY DEF Apart, Plain, PrPcs, DetachPcs, AttachPcs
<1>2. \A d \in Devs : Files(d)' = Files(d) /\ Counted(d)' = Counted(d)
  BY <1>1 DEF Files, Counted
<1>3. \A p \in Ports : Released(p)' <=> Released(p)
  BY <1>1 DEF Released, DetachPcs, AttachPcs
<1>4. ProbeInv => ProbeInv'
  BY <1>1 DEF ProbeInv, Before, DetachPcs, AttachPcs, rmVars
<1>5. AfuThere => AfuThere'
  BY <1>1, SMT DEF AfuThere, DetachPcs, AttachPcs
<1> QED
  BY <1>1, <1>2, <1>3, <1>4, <1>5 DEF Still, Before, rmVars

(* Each step of cci_pci_remove.                                            *)
LEMMA RemoveStepEffect ==
    ASSUME IInv, UInv, Remove
    PROVE  RemoveEffect
<1> /\ unplug \in [Devs -> BOOLEAN] /\ private \in [Devs -> BOOLEAN]
    /\ registered \in [Ports -> BOOLEAN] /\ todo \subseteq Ports
    /\ timedout \subseteq Ports
    /\ held \in [Ports -> SUBSET {"irq", "umsg", "dma"}]
  BY DeviceTypes
<1> rm \in {"unplug", "wait"} <=> dlock = REMOVER
  BY DEF UInv, LockInv
<1> REMOVER \notin Handles /\ NONE \notin Handles /\ REMOVER # NONE
  BY HandlesAssumption
<1> USE DEF RemoveEffect, Before, useVars, devVars, lockVars, rmVars
<1>1. CASE RmBegin
  BY <1>1 DEF RmBegin
<1>2. ASSUME NEW p \in Ports, RmUnplug(p) PROVE RemoveEffect
  BY <1>2 DEF RmUnplug, Devs
<1>3. CASE RmDrained
  BY <1>3 DEF RmDrained, RmNext
<1>4. CASE RmTimeout
  BY <1>4 DEF RmTimeout, RmNext
<1>5. CASE RmSriov
  BY <1>5 DEF RmSriov
<1>6. CASE RmFme
  <2>1. /\ UNCHANGED <<open_count, excl_open, registered, held, lockVars,
                       fileVars, todo, timedout>>
        /\ rm = "fme" /\ rm' = "ports" /\ FME \notin Ports
        /\ \A d \in Devs : unplug'[d] = unplug[d]
    BY <1>6, PortsAssumption DEF RmFme
  <2>2. private' = [private EXCEPT ![FME] = FALSE]
    BY <1>6 DEF RmFme
  <2>3. ASSUME NEW p \in Ports PROVE private'[p] = private[p]
    BY <2>1, <2>2, <2>3 DEF Devs
  <2> QED
    BY <2>1, <2>3
<1>7. ASSUME NEW p \in Ports, RmPort(p) PROVE RemoveEffect
  <2>1. /\ UNCHANGED <<useVars, lockVars, fileVars, rmVars>>
        /\ rm = "ports" /\ registered[p]
        /\ private' = [private EXCEPT ![p] = FALSE]
        /\ registered' = [registered EXCEPT ![p] = FALSE]
        /\ held' = [held EXCEPT ![p] = @ \ {"dma"}]
    BY <1>7 DEF RmPort
  <2>2. ASSUME NEW r \in Ports
        PROVE  \/ private'[r] = private[r] /\ registered'[r] = registered[r]
               \/ registered[r] /\ ~registered'[r] /\ rm = "ports"
    BY <2>1, <2>2 DEF Devs
  <2>3. ASSUME NEW r \in Ports PROVE held'[r] \subseteq held[r]
    BY <2>1, <2>3
  <2> QED
    BY <2>1, <2>2, <2>3
<1>8. CASE RmLastChild \/ RmParent \/ RmDestroy
  BY <1>8 DEF RmLastChild, RmParent, RmDestroy
<1> HIDE DEF RemoveEffect
<1> QED
  BY <1>1, <1>2, <1>3, <1>4, <1>5, <1>6, <1>7, <1>8 DEF Remove

(* What the removal keeps.                                                 *)
LEMMA RemoveEffectKept ==
    ASSUME IInv, RemoveEffect
    PROVE  /\ Still /\ \A d \in Devs : Files(d)' = Files(d)
           /\ LockInv => LockInv'
           /\ ProbeInv => ProbeInv'
           /\ ProbeInv /\ AfuThere => AfuThere'
           /\ VfInv'
<1>0. \A h \in Handles :
        pc[h] \in DetachPcs \cup AttachPcs => arg[h] \in Ports
  BY FileShape
<1>1. UNCHANGED <<open_count, excl_open, plock, pc, dev, excl, arg>>
  BY DEF RemoveEffect, fileVars
<1>2. \A d \in Devs : Files(d)' = Files(d) /\ Counted(d)' = Counted(d)
  BY <1>1 DEF Files, Counted
<1>3. \A p \in Ports : (Released(p)' <=> Released(p)) \/ rm = "ports"
  BY <1>1 DEF RemoveEffect, Released
<1>4. LockInv => LockInv'
  BY <1>1, SMT DEF RemoveEffect, LockInv
<1>5. ProbeInv => ProbeInv'
  <2>1. /\ \A p \in Ports : registered'[p] => registered[p]
        /\ Before' => \A p \in Ports : registered'[p] = registered[p]
    BY DEF RemoveEffect, Before
  <2> QED
    BY <1>0, <1>1, <2>1 DEF ProbeInv, RemoveEffect, DetachPcs, AttachPcs
<1>6. ProbeInv /\ AfuThere => AfuThere'
  BY <1>0, <1>1, SMT DEF RemoveEffect, ProbeInv, AfuThere, AttachPcs
<1>7. VfInv'
  BY DEF RemoveEffect, VfInv
<1> QED
  BY <1>1, <1>2, <1>3, <1>4, <1>5, <1>6, <1>7 DEF RemoveEffect, Still

-----------------------------------------------------------------------------
(* Uses and files.                                                         *)

(* Steps other than the removal's keep RemoveInv if an unplugged port gets *)
(* no new file.                                                            *)
LEMMA RemoveFrame ==
    ASSUME RemoveInv, UNCHANGED <<unplug, rmVars>>,
           \A p \in Ports : unplug[p] => Files(p)' \subseteq Files(p)
    PROVE  RemoveInv'
BY DEF RemoveInv, rmVars

(* When nobody is inside a section under a device's lock, open_count       *)
(* counts all its files.                                                   *)
LEMMA CountedAll ==
    ASSUME IInv, UInv, NEW d \in Devs, PdataUnlocked(d)
    PROVE  Counted(d) = Files(d)
<1>1. d \in Ports => plock[d] = NONE
  BY PortsAssumption DEF PdataUnlocked
<1>2. \A h \in Handles : dev[h] = d /\ d \in Ports =>
        pc[h] # "last_release" /\ pc[h] # "oops"
  BY <1>1, FileShape, HandlesAssumption, SMT DEF UInv, LockInv
<1>3. \A h \in Handles : pc[h] = "last_release" => dev[h] \in Ports
  BY FileShape
<1> QED
  BY <1>2, <1>3, PortsAssumption DEF Counted, Files, Devs

(* A port that is not unplugged is not unregistered by the removal yet.    *)
LEMMA PluggedIsBefore ==
    ASSUME IInv, RemoveInv, NEW p \in Ports, ~unplug[p]
    PROVE  Before /\ p \notin timedout
BY DEF RemoveInv, Before, IInv, TypeOK

(* open_count = 0, as feature_dev_use_excl_begin and the removal see it    *)
(* under the lock, means that there is no file and no release.             *)
LEMMA NoUseNoFile ==
    ASSUME IInv, UInv, NEW d \in Devs, PdataUnlocked(d), d = FME \/ Before,
           open_count[d] = 0
    PROVE  Files(d) = {} /\ (d \in Ports => ~Released(d))
<1> CountInv
  BY DEF UInv, UseInv
<1>1. IsFiniteSet(Counted(d)) /\ Cardinality(Counted(d)) \in Nat
  BY FS_CardinalityType DEF CountInv
<1>2. Cardinality(Counted(d)) = 0 /\ (d \in Ports => ~Released(d))
  BY <1>1, SMT DEF CountInv, Uses
<1>3. Counted(d) = {}
  BY <1>1, <1>2, FS_EmptySet
<1> QED
  BY <1>2, <1>3, CountedAll

(* So the removal goes on to the next port only when the files of this one *)
(* are gone, or after its timeout.                                         *)
LEMMA RemoveKept ==
    ASSUME IInv, UInv, Remove, \A d \in Devs : Files(d)' = Files(d)
    PROVE  RemoveInv'
<1> RemoveInv
  BY DEF UInv, UseInv
<1> unplug \in [Devs -> BOOLEAN] /\ todo \subseteq Ports
  BY DeviceTypes
<1>1. \A p \in Ports : Files(p)' = Files(p)
  BY DEF Devs
<1>2. CASE RmBegin
  BY <1>1, <1>2 DEF RmBegin, RemoveInv, useVars
<1>3. ASSUME NEW p \in Ports, RmUnplug(p) PROVE RemoveInv'
  BY <1>1, <1>3, SMT DEF RmUnplug, RemoveInv, Devs
<1>4. CASE RmDrained
  <2>1. /\ waitPort \in Ports /\ Before /\ PdataUnlocked(waitPort)
        /\ open_count[waitPort] = 0
    BY <1>4, PortsAssumption DEF RmDrained, Before, PdataUnlocked, IInv, Shape
  <2>2. Files(waitPort) = {}
    BY <2>1, NoUseNoFile DEF Devs
  <2> QED
    BY <1>1, <1>4, <2>2 DEF RmDrained, RmNext, RemoveInv, useVars
<1>5. CASE RmTimeout
  BY <1>1, <1>5 DEF RmTimeout, RmNext, RemoveInv, useVars
<1>6. CASE \/ RmSriov \/ RmFme \/ (\E p \in Ports : RmPort(p)) \/ RmLastChild
           \/ RmParent \/ RmDestroy
  <2>1. /\ UNCHANGED <<todo, timedout, unplug>>
        /\ rm' \notin {"none", "unplug", "wait"}
        /\ rm \notin {"none", "unplug", "wait"}
    BY <1>6 DEF RmSriov, RmFme, RmPort, RmLastChild, RmParent, RmDestroy,
                useVars, rmVars
  <2> QED
    BY <1>1, <2>1 DEF RemoveInv
<1> QED
  BY <1>2, <1>3, <1>4, <1>5, <1>6 DEF Remove

(* A step that changes the uses of one device and counts them.             *)
LEMMA CountMoved ==
    ASSUME CountInv, NEW d \in Devs, IsFiniteSet(Counted(d)'),
           (d = FME \/ Before') /\ open_count[d] = Uses(d) =>
               open_count'[d] = Uses(d)',
           \A e \in Devs \ {d} :
               open_count'[e] = open_count[e] /\ Counted(e)' = Counted(e),
           \A p \in Ports \ {d} : Released(p)' <=> Released(p),
           Before' => Before
    PROVE  CountInv'
<1>1. \A e \in Devs : IsFiniteSet(Counted(e)')
  BY DEF CountInv
<1>2. \A e \in Devs \ {d} : Uses(e)' = Uses(e)
  BY DEF Uses
<1>3. ASSUME NEW e \in Devs, e = FME \/ Before'
      PROVE  open_count'[e] = Uses(e)'
  BY <1>2, <1>3 DEF CountInv
<1> QED
  BY <1>1, <1>3 DEF CountInv

(* A step that opens no file keeps excl_open over an exclusive one.        *)
LEMMA ExclFrame ==
    ASSUME IInv', ExclInv,
           \A d \in Devs : /\ Files(d)' \subseteq Files(d)
                           /\ Counted(d)' \subseteq Counted(d)
                           /\ unplug[d] => unplug'[d],
           \A d \in Devs : \A h \in Files(d)' : excl'[h] = excl[h],
           \A d \in Devs : \/ excl_open'[d] = excl_open[d] \/ excl_open'[d]
                           \/ unplug[d]
                           \/ \A h \in Counted(d)' : ~excl[h]
    PROVE  ExclInv'
<1> SUFFICES ASSUME NEW h \in Handles, NEW d \in Devs, d = dev'[h], excl'[h],
                    h \in Files(d)'
             PROVE  /\ Files(d)' = {h}
                    /\ h \in Counted(d)' /\ ~unplug'[d] => excl_open'[d]
  BY DEF ExclInv, Files, IInv, Shape
<1>1. h \in Files(d) /\ excl[h]
  OBVIOUS
<1>2. dev[h] = d
  BY <1>1 DEF Files
<1>3. Files(d) = {h} /\ (h \in Counted(d) /\ ~unplug[d] => excl_open[d])
  BY <1>1, <1>2 DEF ExclInv
<1> QED
  BY <1>1, <1>3

(* What a step keeps in which no use starts or ends.                       *)
LEMMA StillKept ==
    ASSUME IInv', UseInv, Still, RemoveInv'
    PROVE  UseInv'
<1> RemoveInv /\ CountInv /\ ExclInv /\ ReleasedInv
  BY DEF UseInv
<1>1. CountInv'
  <2>1. \A d \in Devs : d = FME \/ Before' => Uses(d)' = Uses(d)
    BY PortsAssumption DEF Still, Before, Uses
  <2> QED
    BY <2>1 DEF CountInv, Still
<1>2. ExclInv'
  BY ExclFrame DEF Still
<1>3. ReleasedInv'
  BY DEF ReleasedInv, Still, RemoveInv, Devs
<1> QED
  BY <1>1, <1>2, <1>3 DEF UseInv

(* ... and which is no step of the removal.                                *)
LEMMA QuietKept ==
    ASSUME IInv', UseInv, Still, UNCHANGED <<unplug, rmVars>>
    PROVE  UseInv'
<1>1. RemoveInv'
  BY RemoveFrame DEF UseInv, Still, Devs
<1> QED
  BY <1>1, StillKept

-----------------------------------------------------------------------------
(* Opening and closing.                                                    *)

(* What all steps of an open or a close have in common.                    *)
OpenEffect(h) ==
    /\ UNCHANGED <<unplug, private, registered, dlock, vfVars, arg, rmVars>>
    /\ \A g \in Handles \ {h} :
          pc'[g] = pc[g] /\ dev'[g] = dev[g] /\ excl'[g] = excl[g]
    /\ {pc[h], pc'[h]} \subseteq
          {"closed", "open", "open_pid", "idle", "last_release", "oops"}

(* Every step of an open or a close has one of these effects.              *)
LEMMA OpenStepEffect ==
    ASSUME IInv, NEW h \in Handles, OpenClose(h)
    PROVE  OpenEffect(h)
<1> /\ pc \in [Handles -> HandlePcs] /\ dev \in [Handles -> Devs \cup {NONE}]
    /\ excl \in [Handles -> BOOLEAN]
  BY FileTypes
<1> USE DEF OpenEffect, Closed, useVars, devVars, lockVars
<1>1. ASSUME NEW d \in Devs, NEW x \in BOOLEAN, OpenFile(h, d, x)
      PROVE  OpenEffect(h)
  BY <1>1 DEF OpenFile
<1>2. CASE OpenUse(h)
  BY <1>2 DEF OpenUse
<1>3. ASSUME NEW q \in Procs, OpenPid(h, q) PROVE OpenEffect(h)
  BY <1>3 DEF OpenPid
<1>4. CASE OpenNoMemory(h) \/ CloseFme(h) \/ CloseLastEnd(h)
  BY <1>4 DEF OpenNoMemory, CloseFme, CloseLastEnd
<1>5. ASSUME NEW q \in Procs, CloseNotLast(h, q) PROVE OpenEffect(h)
  BY <1>5 DEF CloseNotLast
<1>6. ASSUME NEW q \in Procs, CloseLast(h, q) PROVE OpenEffect(h)
  BY <1>6 DEF CloseLast
<1> HIDE DEF OpenEffect
<1> QED
  BY <1>1, <1>2, <1>3, <1>4, <1>5, <1>6 DEF OpenClose

(* Opening and closing takes and releases the port's lock as it should and *)
(* leaves releases, VFs and the AFU alone.                                 *)
LEMMA OpenKeeps ==
    ASSUME IInv, UInv, NEW h \in Handles, OpenClose(h)
    PROVE  /\ LockInv' /\ ProbeInv' /\ VfInv'
           /\ AfuThere => AfuThere'
           /\ \A p \in Ports : Released(p)' <=> Released(p)
<1> /\ pc \in [Handles -> HandlePcs]
    /\ plock \in [Ports -> Handles \cup {NONE, SYSFS}]
  BY FileTypes, DeviceTypes
<1> LockInv
  BY DEF UInv
<1>1. OpenEffect(h)
  BY OpenStepEffect
<1>2. /\ UNCHANGED <<unplug, private, registered, dlock, arg, rm,
                     released_port_num, num_vfs, access>>
      /\ \A g \in Handles :
            /\ pc'[g] = pc[g] /\ dev'[g] = dev[g]
            \/ /\ g = h /\ pc[g] \notin PrPcs \cup DetachPcs \cup AttachPcs
               /\ pc'[g] \notin PrPcs \cup DetachPcs \cup AttachPcs
  BY <1>1, SMT DEF OpenEffect, PrPcs, DetachPcs, AttachPcs, vfVars, rmVars
<1>3. LockInv'
  <2>1. ASSUME UNCHANGED plock, pc[h] \notin {"reset", "last_release", "oops"},
               pc'[h] # "oops"
        PROVE  LockInv'
    BY <1>2, <2>1, SMT DEF LockInv
  <2>2. ASSUME NEW q \in Procs, CloseLast(h, q) PROVE LockInv'
    <3>1. /\ dev' = dev /\ dev[h] \in Ports /\ plock[dev[h]] = NONE
          /\ plock' = [plock EXCEPT ![dev[h]] = h]
          /\ pc'[h] \in {"last_release", "oops"} /\ pc[h] = "idle"
      BY <2>2 DEF CloseLast
    <3> QED
      BY <1>2, <3>1, HandlesAssumption, SMT DEF LockInv
  <2>3. CASE CloseLastEnd(h)
    <3>1. /\ dev[h] \in Ports /\ plock[dev[h]] = h
          /\ plock' = [plock EXCEPT ![dev[h]] = NONE]
          /\ pc'[h] = "closed" /\ pc[h] = "last_release"
      BY <2>3, FileShape DEF CloseLastEnd, Closed
    <3> QED
      BY <1>2, <3>1, HandlesAssumption, SMT DEF LockInv
  <2>4. \/ /\ UNCHANGED plock /\ pc'[h] # "oops"
           /\ pc[h] \notin {"reset", "last_release", "oops"}
        \/ (\E q \in Procs : CloseLast(h, q)) \/ CloseLastEnd(h)
    BY DEF OpenClose, OpenFile, OpenUse, OpenPid, OpenNoMemory, CloseFme,
           CloseNotLast, Closed, lockVars
  <2> QED
    BY <2>1, <2>2, <2>3, <2>4
<1>4. ProbeInv'
  BY <1>2 DEF UInv, ProbeInv, Before, DetachPcs, AttachPcs
<1>5. VfInv'
  BY <1>2 DEF UInv, VfInv, Owed, Unregistered, AttachPcs
<1>6. AfuThere => AfuThere'
  BY <1>2, SMT DEF AfuThere, DetachPcs, AttachPcs
<1>7. \A p \in Ports : Released(p)' <=> Released(p)
  BY <1>2 DEF Released, DetachPcs, AttachPcs
<1> QED
  BY <1>3, <1>4, <1>5, <1>6, <1>7

(* chrdev_open, a refused open and the end of a last close: no use starts   *)
(* or ends.                                                                *)
LEMMA QuietOpen ==
    ASSUME NEW h \in Handles, OpenEffect(h),
           UNCHANGED <<open_count, excl_open>>,
           pc[h] \in {"closed", "open", "last_release"},
           pc'[h] \in {"closed", "open"},
           \A p \in Ports : Released(p)' <=> Released(p)
    PROVE  Still
<1>1. \A d \in Devs : Files(d)' \subseteq Files(d)
  BY DEF OpenEffect, Files
<1>2. \A d \in Devs : Counted(d)' = Counted(d)
  BY DEF OpenEffect, Files, Counted
<1>3. \A d \in Devs : \A g \in Files(d)' : excl'[g] = excl[g]
  BY DEF OpenEffect, Files
<1> QED
  BY <1>1, <1>2, <1>3 DEF OpenEffect, Still, Before, rmVars

(* A granted open: feature_dev_use_begin and feature_dev_use_excl_begin    *)
(* let a file in only when it disturbs no exclusive file and no release.   *)
LEMMA OpenGranted ==
    ASSUME IInv, IInv', UInv, NEW h \in Handles, OpenUse(h),
           ~UseRefused(dev[h], excl[h])
    PROVE  UseInv'
<1> RemoveInv /\ CountInv /\ ExclInv /\ ReleasedInv
  BY DEF UInv, UseInv
<1> /\ open_count \in [Devs -> Int] /\ excl_open \in [Devs -> BOOLEAN]
    /\ pc \in [Handles -> HandlePcs]
  BY FileTypes, DeviceTypes
<1>0. PICK d \in Devs : d = dev[h]
  BY FileShape DEF OpenUse
<1>1. /\ UNCHANGED <<unplug, registered, dev, excl, arg, rmVars>>
      /\ pc[h] = "open" /\ pc'[h] \in {"idle", "open_pid"}
      /\ \A g \in Handles \ {h} : pc'[g] = pc[g]
      /\ PdataUnlocked(d) /\ ~unplug[d]
  BY <1>0 DEF OpenUse, UseRefused, devVars
<1>3. /\ open_count' = [open_count EXCEPT ![d] = @ + 1]
      /\ excl_open' = [excl_open EXCEPT ![d] = @ \/ excl[h]]
      /\ IF excl[h] THEN open_count[d] = 0 ELSE ~excl_open[d]
  BY <1>0 DEF OpenUse, UseRefused
<1>4. /\ \A e \in Devs \ {d} : Files(e)' = Files(e) /\ Counted(e)' = Counted(e)
      /\ Files(d)' = Files(d) \cup {h} /\ Counted(d)' = Counted(d) \cup {h}
      /\ h \notin Files(d) /\ h \notin Counted(d)
  BY <1>0, <1>1 DEF Files, Counted
<1>5. \A p \in Ports : Released(p)' <=> Released(p)
  BY <1>1 DEF Released, DetachPcs
<1>6. d = FME \/ Before
  BY <1>1, PluggedIsBefore DEF Devs
<1>7. Counted(d) = Files(d)
  BY <1>1, CountedAll
<1>8. excl[h] => Files(d) = {} /\ (d \in Ports => ~Released(d))
  BY <1>1, <1>3, <1>6, NoUseNoFile
<1>9. \A g \in Files(d) : ~excl[g]
  BY <1>1, <1>3, <1>7, <1>8 DEF ExclInv, Files
<1>10. d \in Ports => ~Released(d)
  BY <1>1, <1>3, <1>8, PluggedIsBefore DEF ReleasedInv
<1>11. RemoveInv'
  <2>1. \A p \in Ports : unplug[p] => Files(p)' \subseteq Files(p)
    BY <1>1, <1>4 DEF Devs
  <2> QED
    BY <1>1, <2>1, RemoveFrame
<1>12. CountInv'
  <2>1. /\ IsFiniteSet(Counted(d)') /\ Cardinality(Counted(d)) \in Nat
        /\ Cardinality(Counted(d)') = Cardinality(Counted(d)) + 1
    BY <1>4, FS_AddElement, FS_CardinalityType, SMT DEF CountInv
  <2>2. /\ open_count'[d] = open_count[d] + 1
        /\ \A e \in Devs \ {d} : open_count'[e] = open_count[e]
    BY <1>3
  <2>3. open_count[d] = Uses(d) => open_count'[d] = Uses(d)'
    BY <2>1, <2>2, <1>5, SMT DEF Uses
  <2>4. Before' => Before
    BY <1>1 DEF Before, rmVars
  <2> QED
    BY <2>1, <2>2, <2>3, <2>4, <1>4, <1>5, CountMoved
<1>13. ExclInv'
  <2> SUFFICES ASSUME NEW g \in Handles, NEW e \in Devs, e = dev[g], excl[g],
                      g \in Files(e)'
               PROVE  /\ Files(e)' = {g}
                      /\ g \in Counted(e)' /\ ~unplug'[e] => excl_open'[e]
    <3>1. \A g \in Handles : g \in Files(dev[g])' => dev[g] \in Devs
      BY <1>1 DEF Files, IInv, Shape
    <3> QED
      BY <1>1, <3>1 DEF ExclInv
  <2>1. CASE g = h
    BY <2>1, <1>0, <1>3, <1>4, <1>8
  <2>2. CASE g # h
    <3>1. g \in Files(e)
      BY <2>2, <1>4, SMT
    <3>2. e # d
      BY <3>1, <1>9
    <3> QED
      BY <3>1, <3>2, <1>1, <1>3, <1>4 DEF ExclInv
  <2> QED
    BY <2>1, <2>2
<1>14. ReleasedInv'
  BY <1>1, <1>3, <1>4, <1>5, <1>10 DEF ReleasedInv, Devs, rmVars
<1> QED
  BY <1>11, <1>12, <1>13, <1>14 DEF UseInv

(* A use is given back, and the file goes or is in its last close.         *)
UseDropped(h, d) ==
    /\ h \in Counted(d) /\ UseEnd(d) /\ UNCHANGED <<unplug, rmVars>>
    /\ \A p \in Ports : Released(p)' <=> Released(p)
    /\ \A e \in Devs \ {d} : Files(e)' = Files(e) /\ Counted(e)' = Counted(e)
    /\ Files(d)' \subseteq Files(d) /\ Counted(d)' = Counted(d) \ {h}
    /\ \A e \in Devs : \A g \in Files(e)' : excl'[g] = excl[g]

(* A use that is given back keeps the invariant.                           *)
LEMMA UseDroppedKept ==
    ASSUME IInv, IInv', UInv, NEW h, NEW d \in Devs, UseDropped(h, d)
    PROVE  UseInv'
<1>0. RemoveInv /\ CountInv /\ ExclInv /\ ReleasedInv
  BY DEF UInv, UseInv
<1>1. /\ \A e \in Devs : /\ Files(e)' \subseteq Files(e)
                         /\ Counted(e)' \subseteq Counted(e)
      /\ \A e \in Devs \ {d} : Counted(e)' = Counted(e)
      /\ Counted(d)' = Counted(d) \ {h} /\ h \in Counted(d)
  BY DEF UseDropped
<1>2. /\ UNCHANGED <<unplug, rmVars>>
      /\ \A p \in Ports : Released(p)' <=> Released(p)
  BY DEF UseDropped
<1>3. /\ open_count'[d] = open_count[d] - 1 /\ open_count[d] \in Int
      /\ \A e \in Devs \ {d} :
            open_count'[e] = open_count[e] /\ excl_open'[e] = excl_open[e]
  <2>1. open_count \in [Devs -> Int] /\ excl_open \in [Devs -> BOOLEAN]
    BY FileTypes, DeviceTypes
  <2> QED
    BY <2>1 DEF UseDropped, UseEnd
<1>4. RemoveInv'
  BY <1>0, <1>1, <1>2, RemoveFrame DEF Devs
<1>5. CountInv'
  <2>1. /\ IsFiniteSet(Counted(d)') /\ Cardinality(Counted(d)) \in Nat
        /\ Cardinality(Counted(d)') = Cardinality(Counted(d)) - 1
    BY <1>0, <1>1, FS_RemoveElement, FS_CardinalityType, SMT DEF CountInv
  <2>2. open_count[d] = Uses(d) => open_count'[d] = Uses(d)'
    BY <2>1, <1>2, <1>3, SMT DEF Uses
  <2>3. Before' => Before
    BY <1>2 DEF Before, rmVars
  <2> QED
    BY <2>1, <2>2, <2>3, <1>0, <1>1, <1>2, <1>3, CountMoved
<1>6. ExclInv'
  <2>1. \A g \in Counted(d)' : ~excl[g]
    BY <1>0, <1>1, SMT DEF ExclInv, Counted, Files
  <2>2. \A e \in Devs : \A g \in Files(e)' : excl'[g] = excl[g]
    BY DEF UseDropped
  <2> QED
    BY <2>1, <2>2, <1>0, <1>1, <1>2, <1>3, ExclFrame
<1>7. ReleasedInv'
  <2>1. \A p \in Ports : Released(p) /\ p = d => unplug[p] \/ p \in timedout
    BY <1>0, <1>1 DEF ReleasedInv, Counted
  <2> QED
    BY <2>1, <1>0, <1>1, <1>2, <1>3 DEF ReleasedInv, Devs, rmVars
<1> QED
  BY <1>4, <1>5, <1>6, <1>7 DEF UseInv

(* fme_release, afu_release and an afu_open that finds no memory.          *)
LEMMA FileGivenBack ==
    ASSUME IInv, IInv', UInv, NEW h \in Handles, NEW d \in Devs, d = dev[h],
           pc[h] \in {"idle", "open_pid"}, UseEnd(d), Closed(h),
           UNCHANGED <<unplug, registered, rmVars>>
    PROVE  UseInv'
<1> /\ pc \in [Handles -> HandlePcs]
    /\ dev \in [Handles -> Devs \cup {NONE}]
    /\ excl \in [Handles -> BOOLEAN]
  BY FileTypes
<1>1. /\ pc' = [pc EXCEPT ![h] = "closed"]
      /\ \A g \in Handles \ {h} : dev'[g] = dev[g] /\ excl'[g] = excl[g]
      /\ arg' = arg
  BY DEF Closed
<1>2. \A p \in Ports : Released(p)' <=> Released(p)
  BY <1>1 DEF Released, DetachPcs
<1>3. /\ \A e \in Devs \ {d} : Files(e)' = Files(e) /\ Counted(e)' = Counted(e)
      /\ Files(d)' = Files(d) \ {h} /\ Counted(d)' = Counted(d) \ {h}
      /\ h \in Counted(d)
  BY <1>1 DEF Files, Counted
<1>4. \A e \in Devs : \A g \in Files(e)' : g \in Handles \ {h}
  BY <1>1 DEF Files
<1>5. UseDropped(h, d)
  BY <1>1, <1>2, <1>3, <1>4 DEF UseDropped
<1> QED
  BY <1>5, UseDroppedKept

(* The three of them.                                                      *)
LEMMA CloseKept ==
    ASSUME IInv, IInv', UInv, NEW h \in Handles,
           \/ OpenNoMemory(h) \/ CloseFme(h)
           \/ \E q \in Procs : CloseNotLast(h, q)
    PROVE  UseInv'
<1>1. /\ pc[h] \in {"idle", "open_pid"} /\ UseEnd(dev[h]) /\ Closed(h)
      /\ UNCHANGED <<unplug, registered, rmVars>>
  BY DEF OpenNoMemory, CloseFme, CloseNotLast, devVars
<1>2. dev[h] \in Devs
  BY <1>1, FileShape
<1> QED
  BY <1>1, <1>2, FileGivenBack

(* The last close gives its use back and goes on with the port's lock.     *)
LEMMA CloseLastKept ==
    ASSUME IInv, IInv', UInv, NEW h \in Handles, NEW q \in Procs,
           CloseLast(h, q)
    PROVE  UseInv'
<1> pc \in [Handles -> HandlePcs]
  BY FileTypes
<1>0. PICK d \in Ports : d = dev[h]
  BY DEF CloseLast
<1>1. /\ pc[h] = "idle" /\ pc'[h] \in {"last_release", "oops"}
      /\ \A g \in Handles \ {h} : pc'[g] = pc[g]
      /\ UseEnd(d) /\ UNCHANGED <<unplug, registered, dev, excl, arg, rmVars>>
  BY <1>0 DEF CloseLast
<1>2. \A p \in Ports : Released(p)' <=> Released(p)
  BY <1>1 DEF Released, DetachPcs
<1>3. /\ \A e \in Devs \ {d} : Files(e)' = Files(e) /\ Counted(e)' = Counted(e)
      /\ Files(d)' = Files(d) /\ Counted(d)' = Counted(d) \ {h}
      /\ h \in Counted(d) /\ d \in Devs
  BY <1>0, <1>1, PortsAssumption DEF Files, Counted, Devs
<1>4. UseDropped(h, d)
  BY <1>1, <1>2, <1>3 DEF UseDropped
<1> QED
  BY <1>3, <1>4, UseDroppedKept

(* Opening and closing keeps the invariant.                                *)
LEMMA OpenCloseKept ==
    ASSUME IInv, IInv', UInv, NEW h \in Handles, OpenClose(h)
    PROVE  UInv'
<1> pc \in [Handles -> HandlePcs]
  BY FileTypes
<1>1. /\ LockInv' /\ ProbeInv' /\ VfInv'
      /\ \A p \in Ports : Released(p)' <=> Released(p)
  BY OpenKeeps
<1>2. OpenEffect(h) /\ UNCHANGED <<unplug, rmVars>>
  BY OpenStepEffect DEF OpenEffect
<1> UseInv
  BY DEF UInv
<1>3. SUFFICES UseInv'
  BY <1>1 DEF UInv
<1>4. ASSUME UNCHANGED <<open_count, excl_open>>,
             pc[h] \in {"closed", "open", "last_release"},
             pc'[h] \in {"closed", "open"}
      PROVE  UseInv'
  BY <1>1, <1>2, <1>4, QuietOpen, QuietKept
<1>5. CASE \E d \in Devs, x \in BOOLEAN : OpenFile(h, d, x)
  BY <1>4, <1>5 DEF OpenFile, useVars
<1>6. CASE OpenUse(h) /\ UseRefused(dev[h], excl[h])
  BY <1>4, <1>6 DEF OpenUse, Closed
<1>7. CASE OpenUse(h) /\ ~UseRefused(dev[h], excl[h])
  BY <1>7, OpenGranted
<1>8. CASE \E q \in Procs : OpenPid(h, q)
  BY <1>2, <1>8, ApartStep, ApartKept, QuietKept DEF UInv
<1>9. CASE \/ OpenNoMemory(h) \/ CloseFme(h)
           \/ \E q \in Procs : CloseNotLast(h, q)
  BY <1>9, CloseKept
<1>10. CASE \E q \in Procs : CloseLast(h, q)
  BY <1>10, CloseLastKept
<1>11. CASE CloseLastEnd(h)
  BY <1>4, <1>11 DEF CloseLastEnd, Closed, useVars
<1> QED
  BY <1>5, <1>6, <1>7, <1>8, <1>9, <1>10, <1>11 DEF OpenClose
=============================================================================
