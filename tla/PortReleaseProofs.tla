------------------------- MODULE PortReleaseProofs -------------------------
(***************************************************************************)
(* Releasing a port and assigning it back, and with them the theorems on   *)
(* who may use a port: UInv is an invariant of every card, and so are the  *)
(* properties that it was made for.                                        *)
(***************************************************************************)
EXTENDS PortUseProofs, PortLifecycleProofs

USE ZenonT(30)

-----------------------------------------------------------------------------
(* detach_port_dev and attach_port_dev.                                    *)

(* The steps of a release and of an assign.                                *)
ConfigMove(from, to) ==
    \/ from = "idle" /\ to = "detach_del"
    \/ from = "detach_del" /\ to = "detach_destroy"
    \/ from = "detach_destroy" /\ to = "detach_end"
    \/ from = "detach_end" /\ to = "idle"
    \/ from = "idle" /\ to = "attach_init"
    \/ from = "attach_init" /\ to = "attach_reset"
    \/ from = "attach_reset" /\ to = "attach_end"
    \/ from = "attach_end" /\ to = "idle"

(* What they have in common: whoever releases or assigns a port is alone,  *)
(* and works on that port only.                                            *)
ConfigEffect(h, p) ==
    /\ ConfigMove(pc[h], pc'[h]) /\ dev[h] = FME
    /\ pc[h] # "idle" => arg[h] = p
    /\ pc'[h] # "idle" => arg'[h] = p
    /\ \A g \in Handles \ {h} :
          /\ pc'[g] = pc[g] /\ arg'[g] = arg[g]
          /\ pc[g] \notin DetachPcs \cup AttachPcs
    /\ dlock # REMOVER /\ dlock' = (IF pc'[h] = "idle" THEN NONE ELSE h)
    /\ UNCHANGED <<plock, dev, excl, unplug, num_vfs, access, rmVars>>

(* What they do to that port.                                              *)
PortEffect(h, p) ==
    /\ \A r \in Ports \ {p} :
          private'[r] = private[r] /\ registered'[r] = registered[r]
    /\ registered'[p] = IF pc[h] = "detach_end" THEN FALSE
                        ELSE pc'[h] = "attach_end" \/ registered[p]
    /\ pc[h] = "attach_init" => private'[p]
    /\ pc[h] \notin {"detach_destroy", "attach_init"} /\ ~MayFail =>
          private'[p] = private[p]
    /\ pc'[h] = "detach_del" => registered[p]
    /\ pc'[h] = "attach_init" => ~registered[p] /\ access[p] # "VF"

(* Every step of a release or an assign has one of these effects.          *)
LEMMA ConfigStepEffect ==
    ASSUME IInv, UInv, NEW h \in Handles, ConfigPort(h), ~ConfigAfterRemove(h)
    PROVE  \E p \in Ports : ConfigEffect(h, p)
<1> /\ pc \in [Handles -> HandlePcs] /\ arg \in [Handles -> Ports \cup {NONE}]
  BY FileTypes
<1>0. NONE \notin Handles /\ REMOVER \notin Handles /\ NONE # REMOVER
  BY HandlesAssumption
<1>1. \A g \in Handles : pc[g] \in DetachPcs \cup AttachPcs =>
        dlock = g /\ dev[g] = FME /\ arg[g] \in Ports
  BY FileShape DEF UInv, LockInv
<1> USE DEF ConfigEffect, ConfigMove, Goto, lockVars, vfVars, useVars
<1>2. ASSUME NEW p \in Ports, DetachBegin(h, p) PROVE ConfigEffect(h, p)
  BY <1>0, <1>1, <1>2 DEF DetachBegin
<1>3. ASSUME NEW p \in Ports, AttachBegin(h, p) PROVE ConfigEffect(h, p)
  BY <1>0, <1>1, <1>3 DEF AttachBegin
<1>4. CASE DetachDel(h) \/ DetachDestroy(h)
  BY <1>0, <1>1, <1>4 DEF DetachDel, DetachDestroy, DetachPcs
<1>5. CASE DetachEnd(h)
  BY <1>0, <1>1, <1>5 DEF DetachEnd, DetachPcs
<1>6. CASE AttachInit(h)
  BY <1>0, <1>1, <1>6 DEF AttachInit, AttachPcs
<1>7. CASE AttachReset(h) \/ AttachProbeFails(h)
  BY <1>0, <1>1, <1>7 DEF AttachReset, AttachProbeFails, AttachPcs
<1>8. CASE AttachEnd(h)
  BY <1>0, <1>1, <1>8 DEF AttachEnd, AttachPcs
<1> HIDE DEF ConfigEffect
<1> QED
  BY <1>2, <1>3, <1>4, <1>5, <1>6, <1>7, <1>8 DEF ConfigPort

(* What it does to the port.                                               *)
LEMMA PortStepEffect ==
    ASSUME IInv, UInv, NEW h \in Handles, ConfigPort(h), NEW p \in Ports,
           ConfigEffect(h, p)
    PROVE  PortEffect(h, p)
<1> /\ private \in [Devs -> BOOLEAN] /\ registered \in [Ports -> BOOLEAN]
    /\ pc \in [Handles -> HandlePcs] /\ Ports \subseteq Devs
    /\ arg \in [Handles -> Ports \cup {NONE}] 
  BY FileTypes, DeviceTypes DEF Devs
<1>1. (pc[h] # "idle" => arg[h] = p) /\ (pc'[h] # "idle" => arg'[h] = p)
  BY DEF ConfigEffect
<1> USE DEF PortEffect, Goto, devVars
<1>2. ASSUME NEW r \in Ports, DetachBegin(h, r) PROVE PortEffect(h, p)
  BY <1>1, <1>2 DEF DetachBegin
<1>3. ASSUME NEW r \in Ports, AttachBegin(h, r) PROVE PortEffect(h, p)
  BY <1>1, <1>3 DEF AttachBegin
<1>4. CASE DetachDel(h) \/ DetachDestroy(h)
  BY <1>1, <1>4 DEF DetachDel, DetachDestroy
<1>5. CASE DetachEnd(h)
  BY <1>1, <1>5 DEF DetachEnd
<1>6. CASE AttachInit(h)
  BY <1>1, <1>6 DEF AttachInit
<1>7. CASE AttachReset(h) \/ AttachProbeFails(h)
  BY <1>1, <1>7 DEF AttachReset, AttachProbeFails
<1>8. CASE AttachEnd(h)
  BY <1>1, <1>8 DEF AttachEnd
<1>9. ~ConfigAfterRemove(h)
  BY DEF ConfigAfterRemove, ConfigEffect, ConfigMove
<1> HIDE DEF PortEffect
<1> QED
  BY <1>2, <1>3, <1>4, <1>5, <1>6, <1>7, <1>8, <1>9 DEF ConfigPort

(* A release or an assign keeps the locks, and the AFU of every other      *)
(* port; it concerns no file.                                              *)
LEMMA ConfigFrame ==
    ASSUME IInv, UInv, NEW h \in Handles, NEW p \in Ports, ConfigEffect(h, p),
           PortEffect(h, p)
    PROVE  /\ LockInv' /\ ProbeInv'
           /\ ~MayFail /\ AfuThere => AfuThere'
           /\ \A d \in Devs : Files(d)' = Files(d) /\ Counted(d)' = Counted(d)
           /\ \A r \in Ports \ {p} : Released(r)' <=> Released(r)
           /\ pc[h] \notin {"idle", "attach_end"} =>
                 (Released(p)' <=> Released(p))
           /\ pc'[h] \in {"attach_init"} => (Released(p)' <=> Released(p))
           /\ pc'[h] = "detach_del" => Released(p)'
           /\ pc[h] = "attach_end" =>
                 Released(p) /\ (Released(p)' <=> ~registered[p])
<1>1. /\ UNCHANGED <<plock, dev, excl, unplug, rm>> /\ dev[h] = FME
      /\ \A g \in Handles \ {h} :
            /\ pc'[g] = pc[g] /\ arg'[g] = arg[g]
            /\ pc[g] \notin DetachPcs \cup AttachPcs
      /\ pc'[h] # "idle" => arg'[h] = p
      /\ pc[h] # "idle" => arg[h] = p
      /\ {pc[h], pc'[h]} \subseteq {"idle"} \cup DetachPcs \cup AttachPcs
      /\ pc'[h] = "idle" \/ pc'[h] \in DetachPcs \cup AttachPcs
  BY DEF ConfigEffect, ConfigMove, DetachPcs, AttachPcs, rmVars
<1>2. LockInv'
  <2>1. \A g \in Handles : pc'[g] \in DetachPcs \cup AttachPcs <=> dlock' = g
    BY <1>1, HandlesAssumption DEF ConfigEffect, DetachPcs, AttachPcs
  <2>2. dlock # REMOVER /\ dlock' # REMOVER
    BY HandlesAssumption DEF ConfigEffect
  <2>3. pc[h] # "reset" /\ pc[h] # "last_release" /\ pc[h] # "oops"
        /\ pc'[h] # "oops"
    BY <1>1 DEF DetachPcs, AttachPcs
  <2>4. \A g \in Handles : pc'[g] \in PrPcs \cup DetachPcs \cup AttachPcs =>
          dev'[g] = FME
    BY <1>1 DEF UInv, LockInv
  <2> QED
    BY <1>1, <2>1, <2>2, <2>3, <2>4, SMT DEF UInv, LockInv
<1>3. ProbeInv'
  <2>1. \A g \in Handles \ {h} : pc'[g] \notin DetachPcs \cup AttachPcs
    BY <1>1
  <2>2. pc'[h] \in {"attach_init", "attach_reset"} => ~registered'[arg'[h]]
    BY <1>1 DEF ConfigEffect, ConfigMove, PortEffect, UInv, ProbeInv
  <2>3. pc'[h] = "attach_end" => registered'[arg'[h]]
    BY <1>1 DEF PortEffect, ConfigEffect, ConfigMove
  <2>4. Before' /\ pc'[h] \in DetachPcs => registered'[arg'[h]]
    BY <1>1 DEF ConfigEffect, ConfigMove, PortEffect, UInv, ProbeInv,
                DetachPcs, Before
  <2> QED
    BY <2>1, <2>2, <2>3, <2>4 DEF ProbeInv, DetachPcs, AttachPcs
<1>4. ASSUME ~MayFail, AfuThere PROVE AfuThere'
  <2>1. \A r \in Ports \ {p} : private'[r] \/ ~registered'[r]
    BY <1>1, <1>4, SMT DEF AfuThere, PortEffect, DetachPcs
  <2>2. private'[p] \/ ~registered'[p] \/ (pc'[h] = "detach_end" /\ arg'[h] = p)
    BY <1>1, <1>4 DEF AfuThere, PortEffect, ConfigEffect, ConfigMove,
                      DetachPcs
  <2>3. \A g \in Handles : pc'[g] = "attach_reset" => private'[arg'[g]]
    BY <1>1, <1>4 DEF PortEffect, ConfigEffect, ConfigMove, AttachPcs
  <2> QED
    BY <2>1, <2>2, <2>3 DEF AfuThere
<1>5. \A d \in Devs : Files(d)' = Files(d) /\ Counted(d)' = Counted(d)
  BY <1>1 DEF Files, Counted, DetachPcs, AttachPcs
<1>6. \A r \in Ports \ {p} : Released(r)' <=> Released(r)
  BY <1>1, SMT DEF Released, PortEffect, DetachPcs, AttachPcs
<1>7. /\ Released(p) <=> \/ ~registered[p]
                         \/ pc[h] \in DetachPcs \cup {"attach_end"}
      /\ Released(p)' <=> \/ ~registered'[p]
                          \/ pc'[h] \in DetachPcs \cup {"attach_end"}
  BY <1>1 DEF Released, DetachPcs, AttachPcs
<1>8. /\ pc[h] \notin {"idle", "attach_end"} => (Released(p)' <=> Released(p))
      /\ pc'[h] = "attach_init" => (Released(p)' <=> Released(p))
      /\ pc'[h] = "detach_del" => Released(p)'
      /\ pc[h] = "attach_end" => Released(p) /\ (Released(p)' <=> ~registered[p])
  BY <1>1, <1>7 DEF ConfigEffect, ConfigMove, PortEffect, DetachPcs, UInv,
                    ProbeInv
<1> QED
  BY <1>2, <1>3, <1>4, <1>5, <1>6, <1>8

(* The begin of a release: feature_dev_use_excl_begin keeps it away from a *)
(* port that anybody uses, and every open away from it.                    *)
LEMMA DetachBeginKept ==
    ASSUME IInv, IInv', UInv, NEW h \in Handles, NEW p \in Ports,
           ConfigEffect(h, p), PortEffect(h, p), DetachBegin(h, p)
    PROVE  UseInv'
<1>0. RemoveInv /\ CountInv /\ ExclInv /\ ReleasedInv
  BY DEF UInv, UseInv
<1>1. /\ \A d \in Devs : Files(d)' = Files(d) /\ Counted(d)' = Counted(d)
      /\ \A r \in Ports \ {p} : Released(r)' <=> Released(r)
      /\ Released(p)' /\ UNCHANGED <<excl, unplug, rmVars>> /\ p \in Devs
  <2>1. pc'[h] = "detach_del"
    BY FileTypes DEF DetachBegin, Goto
  <2> QED
    BY <2>1, ConfigFrame DEF ConfigEffect, Devs
<1>2. /\ open_count[p] = 0 /\ open_count'[p] = 1 /\ excl_open'[p]
      /\ \A e \in Devs \ {p} :
            open_count'[e] = open_count[e] /\ excl_open'[e] = excl_open[e]
  <2>1. open_count \in [Devs -> Int] /\ excl_open \in [Devs -> BOOLEAN]
    BY DeviceTypes
  <2>2. /\ open_count' = [open_count EXCEPT ![p] = @ + 1]
        /\ excl_open' = [excl_open EXCEPT ![p] = TRUE]
        /\ open_count[p] = 0
    BY DEF DetachBegin, UseRefused
  <2> QED
    BY <1>1, <2>1, <2>2, SMT
<1>3. ~unplug[p] /\ PdataUnlocked(p)
  BY PortsAssumption DEF DetachBegin, UseRefused, PdataUnlocked
<1>4. Before /\ p \notin timedout /\ Files(p) = {} /\ ~Released(p)
  BY <1>0, <1>1, <1>2, <1>3, PluggedIsBefore, NoUseNoFile
<1>5. RemoveInv'
  BY <1>0, <1>1, RemoveFrame DEF Devs
<1>6. CountInv'
  <2>1. /\ IsFiniteSet(Counted(p)') /\ Cardinality(Counted(p)') \in Nat
        /\ Counted(p)' = Counted(p)
    BY <1>0, <1>1, FS_CardinalityType DEF CountInv
  <2>2. open_count[p] = Uses(p) => open_count'[p] = Uses(p)'
    BY <2>1, <1>1, <1>2, <1>4, SMT DEF Uses
  <2>3. Before' => Before
    BY <1>4
  <2> QED
    BY <2>1, <2>2, <2>3, <1>0, <1>1, <1>2, CountMoved
<1>7. ExclInv'
  BY <1>0, <1>1, <1>2, ExclFrame
<1>8. ReleasedInv'
  BY <1>0, <1>1, <1>2, <1>4 DEF ReleasedInv, Devs, rmVars
<1> QED
  BY <1>5, <1>6, <1>7, <1>8 DEF UseInv

(* The end of an assign gives the release's use back.                      *)
LEMMA AttachEndKept ==
    ASSUME IInv, IInv', UInv, NEW h \in Handles, NEW p \in Ports,
           ConfigEffect(h, p), PortEffect(h, p), AttachEnd(h)
    PROVE  UseInv'
<1>0. RemoveInv /\ CountInv /\ ExclInv /\ ReleasedInv
  BY DEF UInv, UseInv
<1>a. pc[h] = "attach_end" /\ arg[h] = p
  BY DEF AttachEnd, Goto, ConfigEffect
<1>1. /\ \A d \in Devs : Files(d)' = Files(d) /\ Counted(d)' = Counted(d)
      /\ \A r \in Ports \ {p} : Released(r)' <=> Released(r)
      /\ Released(p) /\ UNCHANGED <<excl, unplug, rmVars>> /\ p \in Devs
      /\ Released(p)' <=> ~registered[p]
  BY <1>a, ConfigFrame DEF ConfigEffect, Devs
<1>2. /\ open_count'[p] = open_count[p] - 1 /\ open_count[p] \in Int
      /\ \A e \in Devs \ {p} :
            open_count'[e] = open_count[e] /\ excl_open'[e] = excl_open[e]
  <2>1. open_count \in [Devs -> Int] /\ excl_open \in [Devs -> BOOLEAN]
    BY DeviceTypes
  <2> QED
    BY <1>a, <1>1, <2>1 DEF AttachEnd, UseEnd
<1>3. Before' => Before /\ ~Released(p)'
  BY <1>a, <1>1 DEF UInv, ProbeInv, Before, rmVars
<1>4. Released(p)' => unplug[p]
  BY <1>0, <1>1, <1>3, PluggedIsBefore DEF Before, rmVars
<1>5. RemoveInv'
  BY <1>0, <1>1, RemoveFrame DEF Devs
<1>6. CountInv'
  <2>1. /\ IsFiniteSet(Counted(p)') /\ Cardinality(Counted(p)') \in Nat
        /\ Counted(p)' = Counted(p)
    BY <1>0, <1>1, FS_CardinalityType DEF CountInv
  <2>2. Before' /\ open_count[p] = Uses(p) => open_count'[p] = Uses(p)'
    BY <2>1, <1>1, <1>2, <1>3, SMT DEF Uses
  <2>3. p # FME
    BY PortsAssumption
  <2> QED
    BY <2>1, <2>2, <2>3, <1>0, <1>1, <1>2, <1>3, CountMoved
<1>7. ExclInv'
  <2>1. \/ unplug[p] \/ \A g \in Counted(p)' : ~excl[g]
    BY <1>0, <1>1, PluggedIsBefore DEF ReleasedInv, Counted
  <2> QED
    BY <2>1, <1>0, <1>1, <1>2, ExclFrame
<1>8. ReleasedInv'
  BY <1>0, <1>1, <1>2, <1>4 DEF ReleasedInv, Devs, rmVars
<1> QED
  BY <1>5, <1>6, <1>7, <1>8 DEF UseInv

(* In between no use starts or ends.                                       *)
LEMMA ConfigUseKept ==
    ASSUME IInv, IInv', UInv, NEW h \in Handles, NEW p \in Ports,
           ConfigEffect(h, p), PortEffect(h, p), ConfigPort(h)
    PROVE  UseInv'
<1> pc \in [Handles -> HandlePcs]
  BY FileTypes
<1>1. ASSUME NEW r \in Ports, DetachBegin(h, r) PROVE UseInv'
  <2>1. pc'[h] = "detach_del" /\ arg'[h] = r
    BY <1>1, FileTypes DEF DetachBegin, Goto
  <2> QED
    BY <1>1, <2>1, DetachBeginKept DEF ConfigEffect
<1>2. CASE AttachEnd(h)
  BY <1>2, AttachEndKept
<1>3. ASSUME ~\E r \in Ports : DetachBegin(h, r), ~AttachEnd(h)
      PROVE  UseInv'
  <2>1. /\ UNCHANGED <<open_count, excl_open>> 
        /\ pc[h] \notin {"idle", "attach_end"} \/ pc'[h] = "attach_init"
    BY <1>3 DEF ConfigPort, AttachBegin, DetachDel, DetachDestroy, DetachEnd,
                AttachInit, AttachReset, AttachProbeFails, ConfigAfterRemove,
                Goto, useVars, ConfigEffect, ConfigMove
  <2>2. /\ \A d \in Devs : Files(d)' = Files(d) /\ Counted(d)' = Counted(d)
        /\ \A r \in Ports : Released(r)' <=> Released(r)
    BY <2>1, ConfigFrame
  <2>3. UNCHANGED <<excl, unplug, rmVars>>
    BY DEF ConfigEffect
  <2>4. Still
    BY <2>1, <2>2, <2>3 DEF Still, Before, rmVars
  <2> QED
    BY <2>3, <2>4, QuietKept DEF UInv
<1> QED
  BY <1>1, <1>2, <1>3

(* released_port_num and the VFs.                                          *)
LEMMA ConfigVfKept ==
    ASSUME IInv, UInv, NEW h \in Handles, NEW p \in Ports,
           ConfigEffect(h, p), PortEffect(h, p), ConfigPort(h)
    PROVE  VfInv'
<1> SUFFICES ASSUME rm' = "none" PROVE VfInv'
  BY DEF VfInv
<1>0. rm = "none" /\ VfInv /\ Before /\ UNCHANGED <<num_vfs, access>>
  BY DEF ConfigEffect, rmVars, UInv, Before
<1>1. /\ \A g \in Handles \ {h} :
            /\ pc'[g] = pc[g] /\ arg'[g] = arg[g]
            /\ pc[g] \notin DetachPcs \cup AttachPcs
      /\ pc'[h] # "idle" => arg'[h] = p
      /\ pc[h] # "idle" => arg[h] = p
      /\ ConfigMove(pc[h], pc'[h])
  BY DEF ConfigEffect
<1>2. \A g \in Handles : pc'[g] \in AttachPcs => access'[arg'[g]] # "VF"
  <2>1. pc'[h] \in AttachPcs => arg'[h] = p /\ access[p] # "VF"
    BY <1>0, <1>1 DEF VfInv, PortEffect, ConfigMove, AttachPcs
  <2> QED
    BY <1>0, <1>1, <2>1
<1>3. \A r \in Ports : access'[r] = "VF" => ~registered'[r]
  <2>1. pc'[h] = "attach_end" => access[p] # "VF"
    BY <1>0, <1>1 DEF VfInv, ConfigMove, AttachPcs
  <2> QED
    BY <1>0, <2>1 DEF VfInv, PortEffect
<1>4. released_port_num' = Owed'
  <2>1. /\ (\E g \in Handles : pc[g] = "attach_end") <=> pc[h] = "attach_end"
        /\ (\E g \in Handles : pc'[g] = "attach_end") <=> pc'[h] = "attach_end"
    BY <1>1 DEF AttachPcs
  <2>2. released_port_num = Owed /\ released_port_num \in Int
    BY <1>0 DEF VfInv, IInv, TypeOK
  <2>3. IsFiniteSet(Unregistered) /\ Cardinality(Unregistered) \in Nat
    <3>1. Unregistered \subseteq Ports /\ IsFiniteSet(Ports)
      BY PortsAssumption DEF Unregistered
    <3> QED
      BY <3>1, FS_Subset, FS_CardinalityType
  <2>4. CASE DetachEnd(h)
    <3>1. /\ pc[h] = "detach_end" /\ pc'[h] = "idle"
          /\ released_port_num' = released_port_num + 1
      BY <2>4, FileTypes DEF DetachEnd, Goto
    <3>2. p \notin Unregistered
      BY <1>0, <1>1, <3>1 DEF Unregistered, UInv, ProbeInv, DetachPcs
    <3>3. Unregistered' = Unregistered \cup {p}
      BY <3>1 DEF Unregistered, PortEffect
    <3>4. Cardinality(Unregistered') = Cardinality(Unregistered) + 1
      BY <2>3, <3>2, <3>3, FS_AddElement
    <3> QED
      BY <2>1, <2>2, <2>3, <3>1, <3>4, SMT DEF Owed
  <2>5. CASE AttachReset(h) \/ AttachProbeFails(h)
    <3>1. /\ pc[h] = "attach_reset" /\ pc'[h] = "attach_end"
          /\ released_port_num' = released_port_num
      BY <2>5, FileTypes DEF AttachReset, AttachProbeFails, Goto, vfVars
    <3>2. p \in Unregistered
      BY <1>0, <1>1, <3>1 DEF Unregistered, UInv, ProbeInv
    <3>3. Unregistered' = Unregistered \ {p}
      BY <3>1 DEF Unregistered, PortEffect
    <3>4. Cardinality(Unregistered') = Cardinality(Unregistered) - 1
      BY <2>3, <3>2, <3>3, FS_RemoveElement
    <3> QED
      BY <2>1, <2>2, <2>3, <3>1, <3>4, SMT DEF Owed
  <2>6. CASE AttachEnd(h)
    <3>1. /\ pc[h] = "attach_end" /\ pc'[h] = "idle"
          /\ released_port_num' = released_port_num - 1
      BY <2>6, FileTypes DEF AttachEnd, Goto
    <3>2. Unregistered' = Unregistered
      BY <3>1 DEF Unregistered, PortEffect
    <3> QED
      BY <2>1, <2>2, <2>3, <3>1, <3>2, SMT DEF Owed
  <2>7. CASE \/ \E r \in Ports : DetachBegin(h, r) \/ AttachBegin(h, r)
             \/ DetachDel(h) \/ DetachDestroy(h) \/ AttachInit(h)
    <3>1. /\ pc[h] \notin {"detach_end", "attach_end"}
          /\ pc'[h] # "attach_end" /\ released_port_num' = released_port_num
      BY <2>7, <1>1 DEF DetachBegin, AttachBegin, DetachDel, DetachDestroy,
                        AttachInit, Goto, vfVars, ConfigMove
    <3>2. Unregistered' = Unregistered
      BY <3>1 DEF Unregistered, PortEffect
    <3> QED
      BY <2>1, <2>2, <3>1, <3>2 DEF Owed
  <2>8. ~ConfigAfterRemove(h)
    BY <1>0 DEF ConfigAfterRemove
  <2> QED
    BY <2>4, <2>5, <2>6, <2>7, <2>8 DEF ConfigPort
<1> QED
  BY <1>0, <1>2, <1>3, <1>4 DEF VfInv

(* Releasing and assigning keeps the invariant.                            *)
LEMMA ConfigKept ==
    ASSUME IInv, IInv', UInv, NEW h \in Handles, ConfigPort(h),
           ~ConfigAfterRemove(h)
    PROVE  UInv' /\ (~MayFail /\ AfuThere => AfuThere')
<1>1. PICK p \in Ports : ConfigEffect(h, p)
  BY ConfigStepEffect
<1>2. PortEffect(h, p)
  BY <1>1, PortStepEffect
<1>3. LockInv' /\ ProbeInv' /\ (~MayFail /\ AfuThere => AfuThere')
  BY <1>1, <1>2, ConfigFrame
<1>4. VfInv'
  BY <1>1, <1>2, ConfigVfKept
<1>5. UseInv'
  BY <1>1, <1>2, ConfigUseKept
<1> QED
  BY <1>3, <1>4, <1>5 DEF UInv

-----------------------------------------------------------------------------
(* The other steps, and the invariant.                                     *)

(* A reset, a PR and a late release or assign hold the locks that they     *)
(* should.                                                                 *)
LEMMA WorkLocks ==
    ASSUME IInv, LockInv, Apart, NEW h \in Handles,
           PortWork(h) \/ Reconfigure(h) \/ ConfigAfterRemove(h)
    PROVE  LockInv'
<1> /\ pc \in [Handles -> HandlePcs]
    /\ plock \in [Ports -> Handles \cup {NONE, SYSFS}]
  BY FileTypes, DeviceTypes
<1>1. /\ UNCHANGED <<dlock, dev, rm>>
      /\ \A g \in Handles :
            pc'[g] \in DetachPcs \cup AttachPcs
                <=> pc[g] \in DetachPcs \cup AttachPcs
      /\ \A g \in Handles :
            pc'[g] = "oops" /\ pc[g] # "oops" => dev[g] = FME
  BY DEF Apart, Plain, PrPcs, DetachPcs, AttachPcs, rmVars
<1>2. CASE ResetBegin(h)
  <2>1. /\ pc[h] = "idle" /\ pc' = [pc EXCEPT ![h] = "reset"]
        /\ plock[dev[h]] = NONE /\ plock' = [plock EXCEPT ![dev[h]] = h]
        /\ dev[h] \in Ports
    BY <1>2 DEF ResetBegin
  <2> QED
    BY <1>1, <2>1, HandlesAssumption, SMT DEF LockInv, PrPcs
<1>3. CASE ResetEnd(h)
  <2>1. /\ pc[h] = "reset" /\ pc' = [pc EXCEPT ![h] = "idle"]
        /\ plock[dev[h]] = h /\ plock' = [plock EXCEPT ![dev[h]] = NONE]
        /\ dev[h] \in Ports
    BY <1>3, FileShape DEF ResetEnd
  <2> QED
    BY <1>1, <2>1, HandlesAssumption, SMT DEF LockInv, PrPcs
<1>4. CASE \/ \E r \in Resources : SetUp(h, r)
           \/ Reconfigure(h) \/ ConfigAfterRemove(h)
  <2>1. /\ UNCHANGED plock /\ \A g \in Handles \ {h} : pc'[g] = pc[g]
        /\ \/ pc'[h] = pc[h]
           \/ pc[h] \in {"idle"} \cup PrPcs /\ dev[h] = FME
    BY <1>4 DEF SetUp, Reconfigure, PrBegin, PrFindPort, PrDisable, PrLoad,
                PrEnable, PrEnd, ConfigAfterRemove, Goto, LockInv, PrPcs,
                fileVars, lockVars
  <2> QED
    BY <1>1, <2>1, PortsAssumption, SMT DEF LockInv, PrPcs
<1> QED
  BY <1>2, <1>3, <1>4 DEF PortWork

(* So do the error-clearing sysfs file, the hardware and SR-IOV.           *)
LEMMA PortLocks ==
    ASSUME IInv, LockInv, Apart, UNCHANGED fileVars,
           \/ \E p \in Ports :
                 ErrClearBegin(p) \/ ErrClearEnd(p) \/ HwResetAck(p)
           \/ Sriov \/ UNCHANGED vars
    PROVE  LockInv'
<1> plock \in [Ports -> Handles \cup {NONE, SYSFS}]
  BY DeviceTypes
<1>1. UNCHANGED <<pc, dev, dlock, rm>>
  BY DEF Apart, fileVars, rmVars
<1>2. \A g \in Handles, p \in Ports : plock'[p] = g <=> plock[p] = g
  BY HandlesAssumption
     DEF ErrClearBegin, ErrClearEnd, HwResetAck, Sriov, SriovEnable,
         SriovEnableFails, SriovDisable, vars, lockVars
<1> QED
  BY <1>1, <1>2, SMT DEF LockInv

(* SR-IOV gives released ports to VFs and takes them back.                 *)
LEMMA SriovKept ==
    ASSUME IInv, UInv, Sriov
    PROVE  VfInv'
<1> DEFINE OnVf == {p \in Ports : access[p] = "VF"}
<1>0. VfInv
  BY DEF UInv
<1>1. /\ UNCHANGED <<rm, registered, released_port_num, pc, arg>>
      /\ rm = "none" /\ dlock = NONE
  BY DEF Sriov, SriovEnable, SriovEnableFails, SriovDisable, devVars, fileVars,
         rmVars
<1>2. \A g \in Handles : pc[g] \notin AttachPcs
  BY <1>1, HandlesAssumption DEF UInv, LockInv
<1>3. SUFFICES /\ num_vfs' = Cardinality(OnVf')
               /\ \A p \in Ports : access'[p] = "VF" => ~registered[p]
  BY <1>0, <1>1, <1>2 DEF VfInv, Owed, Unregistered
<1>4. ASSUME NEW n \in 1..Cardinality(Ports), SriovEnable(n)
      PROVE  /\ num_vfs' = Cardinality(OnVf')
             /\ \A p \in Ports : access'[p] = "VF" => ~registered[p]
  <2>1. PICK S \in SUBSET Unregistered :
          /\ Cardinality(S) = n
          /\ access' = [p \in Ports |-> IF p \in S THEN "VF" ELSE access[p]]
    BY <1>4 DEF SriovEnable
  <2>2. OnVf = {}
    <3>1. Cardinality(OnVf) = 0
      BY <1>0, <1>1, <1>4 DEF SriovEnable, VfInv
    <3>2. OnVf \subseteq Ports
      OBVIOUS
    <3>3. IsFiniteSet(OnVf)
      BY <3>2, PortsAssumption, FS_Subset
    <3> QED
      BY <3>1, <3>3, FS_EmptySet
  <2>3. \A p \in Ports : access'[p] = "VF" <=> p \in S
    BY <2>1, <2>2
  <2>4. OnVf' = S
    BY <2>3 DEF Unregistered
  <2> QED
    BY <1>4, <2>1, <2>3, <2>4 DEF SriovEnable, Unregistered
<1>5. ASSUME PortsToPF, num_vfs' = 0
      PROVE  /\ num_vfs' = Cardinality(OnVf')
             /\ \A p \in Ports : access'[p] = "VF" => ~registered[p]
  <2>1. \A p \in Ports : access'[p] # "VF"
    BY <1>0, <1>1, <1>5 DEF PortsToPF, VfInv
  <2>2. OnVf' = {}
    BY <2>1
  <2> QED
    BY <1>5, <2>1, <2>2, FS_EmptySet
<1> QED
  BY <1>4, <1>5 DEF Sriov, SriovEnableFails, SriovDisable

(* A step that concerns no use keeps the invariant, and leaves the AFUs.   *)
LEMMA ApartUInv ==
    ASSUME IInv, IInv', UInv, Apart, LockInv', VfInv'
    PROVE  UInv' /\ (AfuThere => AfuThere')
<1>1. Still /\ ProbeInv' /\ (AfuThere => AfuThere')
  BY ApartKept DEF UInv
<1>2. UseInv'
  BY <1>1, QuietKept DEF UInv, Apart
<1> QED
  BY <1>1, <1>2 DEF UInv

(* It leaves the VFs alone unless it is SR-IOV's.                          *)
LEMMA ApartVf ==
    ASSUME Apart, UNCHANGED vfVars, VfInv
    PROVE  VfInv'
<1>1. /\ UNCHANGED <<rm, registered, released_port_num, num_vfs, access>>
      /\ \A g \in Handles :
            pc[g] \in AttachPcs \/ pc'[g] \in AttachPcs =>
               pc'[g] = pc[g] /\ arg'[g] = arg[g]
  BY DEF Apart, Plain, PrPcs, AttachPcs, vfVars, rmVars
<1>2. Owed' = Owed
  BY <1>1 DEF Owed, Unregistered, AttachPcs
<1> QED
  BY <1>1, <1>2 DEF VfInv

(* The invariant holds initially.                                          *)
LEMMA InitUInv == Init => UInv
<1> SUFFICES ASSUME Init PROVE UInv
  OBVIOUS
<1>0. IsFiniteSet({}) /\ Cardinality({}) = 0
  BY FS_EmptySet
<1>1. \A h \in Handles : pc[h] = "closed" /\ excl[h] = FALSE
  BY DEF Init
<1>2. /\ \A p \in Ports : registered[p] /\ plock[p] = NONE /\ access[p] = "PF"
      /\ \A d \in Devs : open_count[d] = 0
      /\ dlock = NONE /\ rm = "none" /\ timedout = {}
      /\ released_port_num = 0 /\ num_vfs = 0
  BY DEF Init
<1>3. /\ \A d \in Devs : Files(d) = {} /\ Counted(d) = {}
      /\ \A p \in Ports : ~Released(p)
  BY <1>1, <1>2 DEF Files, Counted, Released, DetachPcs
<1>4. LockInv /\ ProbeInv /\ RemoveInv
  BY <1>1, <1>2, HandlesAssumption
     DEF LockInv, ProbeInv, RemoveInv, PrPcs, DetachPcs, AttachPcs
<1>5. CountInv
  BY <1>0, <1>2, <1>3, SMT DEF CountInv, Uses
<1>6. ExclInv /\ ReleasedInv
  BY <1>1, <1>3 DEF ExclInv, ReleasedInv
<1>7. VfInv
  <2>1. Unregistered = {} /\ {p \in Ports : access[p] = "VF"} = {}
    BY <1>2 DEF Unregistered
  <2>2. \A h \in Handles : pc[h] # "attach_end" /\ pc[h] \notin AttachPcs
    BY <1>1 DEF AttachPcs
  <2> QED
    BY <1>0, <1>2, <2>1, <2>2, SMT DEF VfInv, Owed
<1> QED
  BY <1>4, <1>5, <1>6, <1>7 DEF UInv, UseInv

(* Every step keeps it, and the AFUs where probes do not fail.             *)
LEMMA StepUInv ==
    ASSUME IInv, IInv', UInv, [Next]_vars
    PROVE  UInv' /\ (~MayFail /\ AfuThere => AfuThere')
<1> LockInv /\ VfInv
  BY DEF UInv
<1>1. ASSUME NEW h \in Handles, OpenClose(h)
      PROVE  UInv' /\ (AfuThere => AfuThere')
  BY <1>1, OpenCloseKept, OpenKeeps
<1>2. ASSUME NEW h \in Handles,
             PortWork(h) \/ Reconfigure(h) \/ ConfigAfterRemove(h)
      PROVE  UInv' /\ (AfuThere => AfuThere')
  <2>1. Apart /\ UNCHANGED vfVars
    BY <1>2, ApartStep
  <2>2. LockInv'
    BY <1>2, <2>1, WorkLocks
  <2>3. VfInv'
    BY <2>1, ApartVf
  <2> QED
    BY <2>1, <2>2, <2>3, ApartUInv
<1>3. ASSUME NEW h \in Handles, ConfigPort(h), ~ConfigAfterRemove(h)
      PROVE  UInv' /\ (~MayFail /\ AfuThere => AfuThere')
  BY <1>3, ConfigKept
<1>4. CASE \/ \E p \in Ports :
                 ErrClearBegin(p) \/ ErrClearEnd(p) \/ HwResetAck(p)
           \/ Sriov \/ UNCHANGED vars
  <2>1. Apart /\ UNCHANGED fileVars
    BY <1>4, ApartPort
  <2>2. LockInv'
    BY <1>4, <2>1, PortLocks
  <2>3. VfInv'
    <3>1. Sriov \/ UNCHANGED vfVars
      BY <1>4 DEF ErrClearBegin, ErrClearEnd, HwResetAck, vars
    <3> QED
      BY <2>1, <3>1, SriovKept, ApartVf
  <2> QED
    BY <2>1, <2>2, <2>3, ApartUInv
<1>5. CASE Remove
  <2>1. RemoveEffect
    BY <1>5, RemoveStepEffect
  <2>2. /\ Still /\ LockInv' /\ ProbeInv' /\ VfInv' /\ (AfuThere => AfuThere')
        /\ \A d \in Devs : Files(d)' = Files(d)
    BY <2>1, RemoveEffectKept DEF UInv
  <2>3. UseInv'
    BY <1>5, <2>2, RemoveKept, StillKept DEF UInv
  <2> QED
    BY <2>2, <2>3 DEF UInv
<1> QED
  BY <1>1, <1>2, <1>3, <1>4, <1>5 DEF Next

(* The uses of the devices of a card are always in order: open_count       *)
(* counts the files and the release, excl_open guards an exclusive file    *)
(* and a released port, and the removal goes on only from ports without    *)
(* files or after its timeout.                                             *)
THEOREM UseInvariance == Spec => []UInv
<1>1. IInv /\ IInv' /\ UInv /\ [Next]_vars => UInv'
  BY StepUInv
<1> QED
  BY <1>1, InitUInv, Invariance, PTL DEF Spec

(* O_EXCL: whoever opened a device exclusively is alone on it, whatever    *)
(* else is opened, closed, released or removed at the same time.           *)
THEOREM ExclusiveAlone == Spec => []ExclusiveUse
<1>1. UInv => ExclusiveUse
  BY DEF UInv, UseInv, ExclInv, ExclusiveUse
<1> QED
  BY <1>1, UseInvariance, PTL

(* A released port has no open file, and released_port_num counts the      *)
(* released ports whenever SR-IOV is configured from it.                   *)
THEOREM ReleasedAlwaysAccounted == Spec => []ReleasedAccounted
<1>1. ASSUME IInv, UInv PROVE ReleasedAccounted
  <2> RemoveInv /\ ReleasedInv /\ VfInv /\ LockInv
    BY <1>1 DEF UInv, UseInv
  <2>1. ReleasedUnused
    BY DEF ReleasedUnused, ReleasedInv, Released, RemoveInv, VfInv
  <2>2. ReleasedCounted
    <3> SUFFICES ASSUME rm = "none", dlock = NONE
                 PROVE  released_port_num = Cardinality(Unregistered)
      BY DEF ReleasedCounted, VfInv
    <3>1. \A h \in Handles : pc[h] # "attach_end"
      BY HandlesAssumption DEF LockInv, AttachPcs
    <3>2. Unregistered \subseteq Ports /\ IsFiniteSet(Ports)
      BY PortsAssumption DEF Unregistered
    <3>3. Cardinality(Unregistered) \in Nat
      BY <3>2, FS_Subset, FS_CardinalityType
    <3> QED
      BY <3>1, <3>3, SMT DEF VfInv, Owed
  <2> QED
    BY <2>1, <2>2 DEF ReleasedAccounted
<1>2. IInv /\ UInv => ReleasedAccounted
  BY <1>1
<1> QED
  BY <1>2, Invariance, UseInvariance, PTL

-----------------------------------------------------------------------------
(* What users have set up on a port.                                       *)

(* A step that closes no file and sets nothing up.                         *)
LEMMA HeldFrame ==
    ASSUME IInv, LastClears, timedout \subseteq timedout',
           \A p \in Ports : Files(p) \subseteq Files(p)',
           \A p \in Ports : held'[p] \subseteq held[p],
           \A h \in Handles : pc'[h] = "last_release" =>
               pc[h] = "last_release" /\ dev'[h] = dev[h]
    PROVE  LastClears'
<1>1. NothingOutlivesLastClose'
  BY DEF LastClears, NothingOutlivesLastClose
<1>2. ASSUME NEW h \in Handles, pc'[h] = "last_release"
      PROVE  held'[dev'[h]] \subseteq {"dma"}
  <2>1. pc[h] = "last_release" /\ dev'[h] = dev[h] /\ dev[h] \in Ports
    BY <1>2, FileShape
  <2> QED
    BY <2>1 DEF LastClears
<1> QED
  BY <1>1, <1>2 DEF LastClears

(* Opening a file.                                                         *)
LEMMA HeldOpen ==
    ASSUME IInv, LastClears, NEW h \in Handles,
           \/ \E d \in Devs, x \in BOOLEAN : OpenFile(h, d, x)
           \/ OpenUse(h) \/ \E q \in Procs : OpenPid(h, q)
    PROVE  LastClears'
<1>1. OpenEffect(h) /\ UNCHANGED <<held, timedout>>
  BY OpenStepEffect DEF OpenClose, OpenFile, OpenUse, OpenPid, devVars, rmVars
<1>2. /\ pc'[h] # "last_release"
      /\ \/ pc[h] \in {"closed", "open"}
         \/ dev'[h] = dev[h] /\ pc'[h] = "idle"
  <2>1. pc \in [Handles -> HandlePcs]
    BY FileTypes
  <2>2. CASE \E d \in Devs, x \in BOOLEAN : OpenFile(h, d, x)
    BY <2>1, <2>2 DEF OpenFile
  <2>3. CASE OpenUse(h)
    BY <2>1, <2>3 DEF OpenUse, Closed
  <2>4. CASE \E q \in Procs : OpenPid(h, q)
    BY <2>1, <2>4 DEF OpenPid
  <2> QED
    BY <2>2, <2>3, <2>4
<1>3. \A p \in Ports : Files(p) \subseteq Files(p)'
  BY <1>1, <1>2 DEF Files, OpenEffect
<1>4. \A g \in Handles : pc'[g] = "last_release" =>
        pc[g] = "last_release" /\ dev'[g] = dev[g]
  BY <1>1, <1>2 DEF OpenEffect
<1> QED
  BY <1>1, <1>3, <1>4, HeldFrame

(* A close that is not the port's last leaves a file, so that the last one *)
(* comes later.                                                            *)
LEMMA HeldCloseNotLast ==
    ASSUME IInv, UInv, LastClears, NEW h \in Handles,
           CloseFme(h) \/ \E q \in Procs : CloseNotLast(h, q)
    PROVE  LastClears'
<1> RemoveInv /\ CountInv /\ ReleasedInv
  BY DEF UInv, UseInv
<1>1. /\ pc[h] = "idle" /\ UNCHANGED <<held, timedout>>
      /\ pc' = [pc EXCEPT ![h] = "closed"]
      /\ dev' = [dev EXCEPT ![h] = NONE]
  BY DEF CloseFme, CloseNotLast, Closed, devVars, rmVars
<1>2. /\ pc'[h] = "closed"
      /\ \A g \in Handles \ {h} : pc'[g] = pc[g] /\ dev'[g] = dev[g]
  BY <1>1, FileTypes
<1>3. /\ \A p \in Ports : Files(p)' = Files(p) \ {h}
      /\ \A p \in Ports : h \in Files(p) => p = dev[h]
  BY <1>1, <1>2 DEF Files
<1>4. ASSUME NEW p \in Ports, Files(p) = {h}, p \notin timedout PROVE FALSE
  <2>1. p = dev[h] /\ p \in Devs
    BY <1>3, <1>4 DEF Devs
  <2>2. open_count[p] # 1 /\ PdataUnlocked(p)
    BY <2>1, PortsAssumption DEF CloseFme, CloseNotLast, PdataUnlocked
  <2>3. Counted(p) = {h} /\ Cardinality({h}) = 1
    BY <1>4, <2>1, <2>2, CountedAll, FS_Singleton
  <2>4. ~Released(p)
    BY <1>4 DEF ReleasedInv
  <2>5. Before
    BY <1>4 DEF RemoveInv, Before, IInv, TypeOK
  <2> QED
    BY <2>1, <2>2, <2>3, <2>4, <2>5, SMT DEF CountInv, Uses
<1>5. ASSUME NEW p \in Ports, Files(p)' = {}
      PROVE  held'[p] = {} \/ p \in timedout'
  <2>1. Files(p) = {} \/ Files(p) = {h}
    BY <1>3, <1>5
  <2> QED
    BY <1>1, <1>4, <2>1 DEF LastClears, NothingOutlivesLastClose
<1>6. ASSUME NEW g \in Handles, pc'[g] = "last_release"
      PROVE  held'[dev'[g]] \subseteq {"dma"}
  BY <1>1, <1>2, <1>6 DEF LastClears
<1> QED
  BY <1>5, <1>6 DEF LastClears, NothingOutlivesLastClose

(* The last close of a port with an AFU ends its interrupts and umsg.      *)
LEMMA HeldCloseLast ==
    ASSUME IInv, LastClears, NEW h \in Handles, NEW q \in Procs,
           CloseLast(h, q)
    PROVE  LastClears'
<1> held \in [Ports -> SUBSET {"irq", "umsg", "dma"}]
  BY DeviceTypes
<1>0. PICK p \in Ports : p = dev[h]
  BY DEF CloseLast
<1>1. /\ pc[h] = "idle" /\ pc'[h] \in {"last_release", "oops"}
      /\ \A g \in Handles \ {h} : pc'[g] = pc[g]
      /\ UNCHANGED <<dev, timedout>>
  BY FileTypes DEF CloseLast, rmVars
<1>2. \A r \in Ports \ {p} : held'[r] = held[r]
  BY <1>0 DEF CloseLast
<1>3. /\ held'[p] \subseteq held[p]
      /\ pc'[h] = "last_release" => held'[p] \subseteq {"dma"}
  <2>1. CASE private[p]
    <3>1. held' = [held EXCEPT ![p] = @ \ {"irq", "umsg"}]
      BY <1>0, <2>1 DEF CloseLast
    <3> QED
      BY <3>1, SMT
  <2>2. CASE ~private[p]
    <3>1. held' = [held EXCEPT ![p] = @ \ {"irq"}] /\ pc'[h] = "oops"
      BY <1>0, <2>2, FileTypes DEF CloseLast
    <3> QED
      BY <3>1
  <2> QED
    BY <2>1, <2>2
<1>4. \A r \in Ports : Files(r)' = Files(r)
  BY <1>1 DEF Files
<1>5. ASSUME NEW r \in Ports PROVE held'[r] \subseteq held[r]
  BY <1>2, <1>3, SMT
<1>6. NothingOutlivesLastClose'
  BY <1>1, <1>4, <1>5 DEF LastClears, NothingOutlivesLastClose
<1>7. ASSUME NEW g \in Handles, pc'[g] = "last_release"
      PROVE  held'[dev'[g]] \subseteq {"dma"}
  <2>1. CASE g = h
    BY <1>0, <1>1, <1>3, <1>7, <2>1
  <2>2. CASE g # h
    <3>1. pc[g] = "last_release" /\ dev[g] \in Ports
      BY <1>1, <1>7, <2>2, FileShape
    <3> QED
      BY <1>1, <1>5, <3>1 DEF LastClears
  <2> QED
    BY <2>1, <2>2
<1> QED
  BY <1>6, <1>7 DEF LastClears

(* ... and at its end the DMA regions.                                     *)
LEMMA HeldCloseEnd ==
    ASSUME IInv, LastClears, NEW h \in Handles, CloseLastEnd(h)
    PROVE  LastClears'
<1> held \in [Ports -> SUBSET {"irq", "umsg", "dma"}]
  BY DeviceTypes
<1>0. PICK p \in Ports : p = dev[h]
  BY FileShape DEF CloseLastEnd
<1>1. /\ pc[h] = "last_release" /\ UNCHANGED timedout
      /\ pc' = [pc EXCEPT ![h] = "closed"]
      /\ dev' = [dev EXCEPT ![h] = NONE]
      /\ held' = [held EXCEPT ![p] = @ \ {"dma"}]
  BY <1>0 DEF CloseLastEnd, Closed, rmVars
<1>2. held'[p] = {} /\ \A r \in Ports \ {p} : held'[r] = held[r]
  BY <1>0, <1>1 DEF LastClears
<1>3. /\ pc'[h] = "closed"
      /\ \A g \in Handles \ {h} : pc'[g] = pc[g] /\ dev'[g] = dev[g]
  BY <1>1, FileTypes
<1>4. \A r \in Ports \ {p} : Files(r)' = Files(r)
  BY <1>0, <1>1, <1>3 DEF Files
<1>5. NothingOutlivesLastClose'
  BY <1>1, <1>2, <1>4 DEF LastClears, NothingOutlivesLastClose
<1>6. ASSUME NEW g \in Handles, pc'[g] = "last_release"
      PROVE  held'[dev'[g]] \subseteq {"dma"}
  <2>1. pc[g] = "last_release" /\ dev'[g] = dev[g] /\ dev[g] \in Ports
    BY <1>3, <1>6, FileShape
  <2> QED
    BY <2>1, <1>2 DEF LastClears
<1> QED
  BY <1>5, <1>6 DEF LastClears

(* Only an open file sets something up, and not while the last close works *)
(* on the port.                                                            *)
LEMMA HeldSetUp ==
    ASSUME IInv, LastClears, NEW h \in Handles, NEW r \in Resources,
           SetUp(h, r)
    PROVE  LastClears'
<1>0. PICK p \in Ports : p = dev[h]
  BY DEF SetUp
<1>1. /\ pc[h] = "idle" /\ plock[p] = NONE
      /\ UNCHANGED <<pc, dev, timedout>>
      /\ held' = [held EXCEPT ![p] = @ \cup {r}]
  BY <1>0 DEF SetUp, fileVars, rmVars
<1>2. \A s \in Ports : Files(s)' = Files(s)
  BY <1>1 DEF Files
<1>3. h \in Files(p) /\ \A s \in Ports \ {p} : held'[s] = held[s]
  BY <1>0, <1>1, DeviceTypes DEF Files
<1>4. NothingOutlivesLastClose'
  BY <1>1, <1>2, <1>3 DEF LastClears, NothingOutlivesLastClose
<1>5. ASSUME NEW g \in Handles, pc'[g] = "last_release"
      PROVE  held'[dev'[g]] \subseteq {"dma"}
  <2>1. dev[g] \in Ports /\ dev[g] # p
    BY <1>1, <1>5, FileShape, HandlesAssumption
  <2> QED
    BY <2>1, <1>1, <1>3, <1>5 DEF LastClears
<1> QED
  BY <1>4, <1>5 DEF LastClears

(* Everything else takes away at most.                                     *)
LEMMA HeldKept ==
    ASSUME ~MayFail, IInv, UInv, LastClears, [Next]_vars
    PROVE  LastClears'
<1> held \in [Ports -> SUBSET {"irq", "umsg", "dma"}]
  BY DeviceTypes
<1>1. ASSUME NEW h \in Handles, OpenClose(h) PROVE LastClears'
  <2>1. CASE \/ \E d \in Devs, x \in BOOLEAN : OpenFile(h, d, x)
             \/ OpenUse(h) \/ \E q \in Procs : OpenPid(h, q)
    BY <2>1, HeldOpen
  <2>2. CASE CloseFme(h) \/ \E q \in Procs : CloseNotLast(h, q)
    BY <2>2, HeldCloseNotLast
  <2>3. CASE \E q \in Procs : CloseLast(h, q)
    BY <2>3, HeldCloseLast
  <2>4. CASE CloseLastEnd(h)
    BY <2>4, HeldCloseEnd
  <2>5. ~OpenNoMemory(h)
    BY DEF OpenNoMemory
  <2> QED
    BY <1>1, <2>1, <2>2, <2>3, <2>4, <2>5 DEF OpenClose
<1>2. ASSUME Apart, UNCHANGED held PROVE LastClears'
  <2>1. /\ \A d \in Devs : Files(d)' = Files(d)
        /\ UNCHANGED <<dev, timedout>>
        /\ \A g \in Handles : pc'[g] = "last_release" => pc[g] = "last_release"
    BY <1>2, ApartKept DEF Apart, Plain, PrPcs, rmVars
  <2> QED
    BY <1>2, <2>1, HeldFrame DEF Devs
<1>3. ASSUME NEW h \in Handles,
             \/ ResetBegin(h) \/ ResetEnd(h) \/ Reconfigure(h)
             \/ ConfigAfterRemove(h)
      PROVE  LastClears'
  <2>1. UNCHANGED held
    BY <1>3 DEF ResetBegin, ResetEnd, Reconfigure, PrBegin, PrFindPort,
                PrDisable, PrLoad, PrEnable, PrEnd, ConfigAfterRemove, devVars
  <2> QED
    BY <1>2, <1>3, <2>1, ApartStep DEF PortWork
<1>4. ASSUME NEW h \in Handles, ConfigPort(h), ~ConfigAfterRemove(h)
      PROVE  LastClears'
  <2>1. PICK p \in Ports : ConfigEffect(h, p)
    BY <1>4, ConfigStepEffect
  <2>2. \A r \in Ports : Files(r)' = Files(r)
    BY <1>4, <2>1, PortStepEffect, ConfigFrame DEF Devs
  <2>3. UNCHANGED <<dev, timedout>>
    BY <2>1 DEF ConfigEffect, rmVars
  <2>4. \A g \in Handles : pc'[g] = "last_release" => pc[g] = "last_release"
    BY <2>1 DEF ConfigEffect, ConfigMove
  <2>5. \A r \in Ports : held'[r] \subseteq held[r]
    <3>1. CASE DetachDestroy(h)
      <4>1. held' = [held EXCEPT ![arg[h]] = @ \ {"dma"}]
        BY <3>1 DEF DetachDestroy
      <4> QED
        BY <4>1
    <3>2. DetachDestroy(h) \/ UNCHANGED held
      BY <1>4 DEF ConfigPort, DetachBegin, DetachDel, DetachEnd, AttachBegin,
                  AttachInit, AttachReset, AttachProbeFails, AttachEnd,
                  devVars
    <3> QED
      BY <3>1, <3>2
  <2> QED
    BY <2>2, <2>3, <2>4, <2>5, HeldFrame
<1>5. CASE \/ \E p \in Ports :
                 ErrClearBegin(p) \/ ErrClearEnd(p) \/ HwResetAck(p)
           \/ Sriov \/ UNCHANGED vars
  BY <1>2, <1>5, ApartPort
<1>6. CASE Remove
  <2>1. RemoveEffect
    BY <1>6, RemoveStepEffect
  <2>2. \A p \in Ports : Files(p)' = Files(p)
    BY <2>1, RemoveEffectKept DEF Devs
  <2>3. /\ UNCHANGED <<pc, dev>> /\ timedout \subseteq timedout'
        /\ \A p \in Ports : held'[p] \subseteq held[p]
    BY <2>1 DEF RemoveEffect, fileVars
  <2> QED
    BY <2>2, <2>3, HeldFrame
<1> QED
  BY <1>1, <1>3, <1>4, <1>5, <1>6, HeldSetUp DEF Next, PortWork

(* Where no probe fails, a file is open only on a port that has its AFU,   *)
(* unless a removal stopped waiting for that port.                         *)
THEOREM FilesHaveTheirAfu ==
    ASSUME ~MayFail PROVE Spec => []FileHasAfu
<1>1. Init => AfuThere
  BY DEF Init, AfuThere, Devs
<1>2. UInv /\ AfuThere => FileHasAfu
  BY DEF UInv, UseInv, AfuThere, FileHasAfu, ReleasedInv, Released, DetachPcs
<1>3. IInv /\ IInv' /\ UInv /\ AfuThere /\ [Next]_vars => AfuThere'
  BY StepUInv
<1> QED
  BY <1>1, <1>2, <1>3, Invariance, UseInvariance, PTL DEF Spec

(* Where no allocation and no probe fails, nothing that a user has set up  *)
(* on a port outlives the port's last file, unless a removal stopped       *)
(* waiting for that port.                                                  *)
THEOREM LastCloseCleansPort ==
    ASSUME ~MayFail PROVE Spec => []NothingOutlivesLastClose
<1>1. Init => LastClears
  BY DEF Init, LastClears, NothingOutlivesLastClose
<1>2. LastClears => NothingOutlivesLastClose
  BY DEF LastClears
<1>3. IInv /\ UInv /\ LastClears /\ [Next]_vars => LastClears'
  BY HeldKept
<1> QED
  BY <1>1, <1>2, <1>3, Invariance, UseInvariance, PTL DEF Spec

=============================================================================
