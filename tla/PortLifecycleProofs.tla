------------------------ MODULE PortLifecycleProofs ------------------------
(***************************************************************************)
(* Theorems about PortLifecycle for any number of ports, files, processes  *)
(* and for every value of the flags: type correctness, and that the reset  *)
(* of a port is counted right, so that a port stays in reset while it is   *)
(* reconfigured.                                                           *)
(***************************************************************************)
EXTENDS PortInvariants, FiniteSetTheorems, TLAPS

USE ZenonT(30)

-----------------------------------------------------------------------------
(* __fpga_port_disable counts up and leaves the port in reset.             *)
LEMMA PortDisableLemma ==
    ASSUME NEW c \in Control
    PROVE  /\ PortDisable(c) \in Control
           /\ PortDisable(c).disable_count = c.disable_count + 1
           /\ PortDisable(c).sftrst <=> (c.disable_count = 0 \/ c.sftrst)
BY SMT DEF Control, PortDisable

(* __fpga_port_enable counts down; the last one ends the reset.            *)
LEMMA PortEnableLemma ==
    ASSUME NEW c \in Control, c.disable_count > 0
    PROVE  /\ PortEnable(c) \in Control
           /\ PortEnable(c).disable_count = c.disable_count - 1
           /\ PortEnable(c).sftrst <=> (c.disable_count # 1 /\ c.sftrst)
BY SMT DEF Control, PortEnable

(* __fpga_port_reset leaves the count as it found it; a port that somebody *)
(* else holds disabled stays in reset.                                     *)
LEMMA PortResetLemma ==
    ASSUME NEW c \in Control, c.sftrst <=> c.disable_count > 0
    PROVE  /\ PortReset(c) \in Control
           /\ PortReset(c).disable_count = c.disable_count
           /\ PortReset(c).sftrst <=> c.sftrst
<1>1. /\ PortDisable(c) \in Control
      /\ PortDisable(c).disable_count = c.disable_count + 1
      /\ PortDisable(c).sftrst
  BY PortDisableLemma, SMT DEF Control
<1>2. c.disable_count \in Nat
  BY DEF Control
<1>3. PortDisable(c).disable_count > 0
  BY <1>1, <1>2, SMT
<1>4. /\ PortEnable(PortDisable(c)) \in Control
      /\ PortEnable(PortDisable(c)).disable_count
            = PortDisable(c).disable_count - 1
      /\ PortEnable(PortDisable(c)).sftrst
            <=> (PortDisable(c).disable_count # 1 /\ PortDisable(c).sftrst)
  BY <1>1, <1>3, PortEnableLemma
<1> QED
  BY <1>1, <1>2, <1>4, SMT DEF PortReset

(* Nothing holds a port in the initial state.                              *)
LEMMA InitIInv == Init => IInv
BY PortsAssumption, HandlesAssumption, SMTT(60)
   DEF Init, IInv, TypeOK, Shape, DisableBalanced, PrHolds, ResetHolds, Devs,
       Control, HandlePcs, PrPcs, DetachPcs, AttachPcs

(* An action that leaves the reset state alone, and no handle of which     *)
(* starts or stops holding a port disabled, keeps the balance.             *)
HoldPcs == {"pr_load", "pr_enable", "reset", "last_release"}

(* A step that changes no holder and no counter.                           *)
LEMMA BalancedFrame ==
    ASSUME DisableBalanced, UNCHANGED ctl,
           \A p \in Ports : plock'[p] = SYSFS <=> plock[p] = SYSFS,
           \A g \in Handles : pc[g] \in HoldPcs \/ pc'[g] \in HoldPcs =>
               pc'[g] = pc[g] /\ dev'[g] = dev[g] /\ arg'[g] = arg[g]
    PROVE  DisableBalanced'
<1>1. \A p \in Ports : PrHolds(p)' <=> PrHolds(p)
  BY DEF PrHolds, HoldPcs
<1>2. \A p \in Ports : ResetHolds(p)' <=> ResetHolds(p)
  BY DEF ResetHolds, HoldPcs
<1> QED
  BY <1>1, <1>2 DEF DisableBalanced

(* Who is about to enable a port has disabled it.                          *)
LEMMA HeldIsDisabled ==
    ASSUME TypeOK, DisableBalanced, NEW p \in Ports,
           PrHolds(p) \/ ResetHolds(p)
    PROVE  ctl[p] \in Control /\ ctl[p].disable_count > 0
BY SMT DEF TypeOK, DisableBalanced, Control

(* Replacing one port's control state by another keeps the type.           *)
LEMMA ControlUpdate ==
    ASSUME TypeOK, NEW p \in Ports, NEW c \in Control
    PROVE  [ctl EXCEPT ![p] = c] \in [Ports -> Control]
BY DEF TypeOK

(* The effect of one more, and of one less, holder of a port.              *)
LEMMA BalancedHold ==
    ASSUME TypeOK, DisableBalanced, NEW P \in Ports,
           ctl' = [ctl EXCEPT ![P] = PortDisable(ctl[P])],
           \A p \in Ports \ {P} : PrHolds(p)' <=> PrHolds(p),
           \A p \in Ports \ {P} : ResetHolds(p)' <=> ResetHolds(p),
           \/ ~PrHolds(P) /\ PrHolds(P)' /\ (ResetHolds(P)' <=> ResetHolds(P))
           \/ ~ResetHolds(P) /\ ResetHolds(P)' /\ (PrHolds(P)' <=> PrHolds(P))
    PROVE  DisableBalanced'
<1>1. ctl[P] \in Control /\ ctl[P].disable_count \in Nat
  BY DEF TypeOK, Control
<1>2. /\ ctl'[P].disable_count = ctl[P].disable_count + 1
      /\ ctl'[P].sftrst <=> (ctl[P].disable_count = 0 \/ ctl[P].sftrst)
  BY <1>1, PortDisableLemma DEF TypeOK
<1>3. \A p \in Ports \ {P} : ctl'[p] = ctl[p]
  BY DEF TypeOK
<1> QED
  BY <1>1, <1>2, <1>3, SMT DEF DisableBalanced

(* A reset of a port that is both begun and ended in one step.             *)
LEMMA BalancedReset ==
    ASSUME TypeOK, DisableBalanced, NEW P \in Ports,
           ctl' = [ctl EXCEPT ![P] = PortReset(ctl[P])],
           \A p \in Ports : PrHolds(p)' <=> PrHolds(p),
           \A p \in Ports : ResetHolds(p)' <=> ResetHolds(p)
    PROVE  DisableBalanced'
<1>1. ctl[P] \in Control /\ (ctl[P].sftrst <=> ctl[P].disable_count > 0)
  BY DEF TypeOK, DisableBalanced
<1>2. /\ ctl'[P].disable_count = ctl[P].disable_count
      /\ ctl'[P].sftrst <=> ctl[P].sftrst
  BY <1>1, PortResetLemma, SMT DEF TypeOK
<1>3. \A p \in Ports \ {P} : ctl'[p] = ctl[p]
  BY DEF TypeOK
<1> QED
  BY <1>1, <1>2, <1>3 DEF DisableBalanced

(* One of the holders of a port enables it.                                *)
LEMMA BalancedUnhold ==
    ASSUME TypeOK, DisableBalanced, NEW P \in Ports,
           ctl' = [ctl EXCEPT ![P] = PortEnable(ctl[P])],
           \A p \in Ports \ {P} : PrHolds(p)' <=> PrHolds(p),
           \A p \in Ports \ {P} : ResetHolds(p)' <=> ResetHolds(p),
           \/ PrHolds(P) /\ ~PrHolds(P)' /\ (ResetHolds(P)' <=> ResetHolds(P))
           \/ ResetHolds(P) /\ ~ResetHolds(P)' /\ (PrHolds(P)' <=> PrHolds(P))
    PROVE  DisableBalanced'
<1>1. ctl[P] \in Control /\ ctl[P].disable_count \in Nat
  BY DEF TypeOK, Control
<1>2. ctl[P].disable_count > 0
  BY HeldIsDisabled
<1>3. /\ ctl'[P].disable_count = ctl[P].disable_count - 1
      /\ ctl'[P].sftrst <=> (ctl[P].disable_count # 1 /\ ctl[P].sftrst)
  BY <1>1, <1>2, PortEnableLemma, SMT DEF TypeOK
<1>4. \A p \in Ports \ {P} : ctl'[p] = ctl[p]
  BY DEF TypeOK
<1> QED
  BY <1>1, <1>2, <1>3, <1>4, SMT DEF DisableBalanced


(* Opening and closing files.  Only the last close of a port touches its   *)
(* reset, under the port's lock.                                           *)
LEMMA OpenCloseStep ==
    ASSUME IInv, NEW h \in Handles, OpenClose(h)
    PROVE  IInv'
<1> USE PortsAssumption, HandlesAssumption
<1>0. TypeOK /\ Shape /\ DisableBalanced
  BY DEF IInv
<1> USE <1>0
<1>1. ASSUME NEW d \in Devs, NEW x \in BOOLEAN, OpenFile(h, d, x) PROVE IInv'
  <2>1. TypeOK'
    BY <1>1 DEF OpenFile, TypeOK, Shape, Devs, Control, useVars, devVars,
           lockVars, vfVars, fileVars, rmVars, PrPcs, DetachPcs, AttachPcs,
           HandlePcs
  <2>2. Shape'
    BY <1>1, SMT DEF OpenFile, TypeOK, Shape, Devs, useVars, devVars, lockVars,
           vfVars, fileVars, rmVars, PrPcs, DetachPcs, AttachPcs, HandlePcs
  <2>3. DisableBalanced'
    BY <1>1, BalancedFrame DEF OpenFile, TypeOK, HoldPcs, useVars, devVars,
           lockVars, vfVars, fileVars, rmVars
  <2> QED BY <2>1, <2>2, <2>3 DEF IInv
<1>2. ASSUME OpenUse(h) PROVE IInv'
  <2>1. excl_open' \in [Devs -> BOOLEAN]
    BY <1>2 DEF OpenUse, TypeOK
  <2>2. /\ open_count' \in [Devs -> Int]
        /\ pc' \in [Handles -> HandlePcs]
        /\ dev' \in [Handles -> Devs \cup {NONE}]
        /\ excl' \in [Handles -> BOOLEAN]
        /\ UNCHANGED arg
    <3>1. CASE UseRefused(dev[h], excl[h])
      BY <1>2, <3>1, ZenonT(30) DEF OpenUse, Closed, TypeOK, HandlePcs
    <3>2. CASE ~UseRefused(dev[h], excl[h])
      <4>1. (IF dev[h] = FME THEN "idle" ELSE "open_pid") \in HandlePcs
        BY DEF HandlePcs
      <4> QED BY <1>2, <3>2, <4>1, SMTT(30) DEF OpenUse, TypeOK
    <3> QED BY <3>1, <3>2
  <2>3. TypeOK'
    BY <1>2, <2>1, <2>2 DEF OpenUse, TypeOK, devVars, lockVars, vfVars, rmVars
  <2>4. Shape'
    BY <1>2, SMTT(30) DEF OpenUse, Closed, TypeOK, Shape, Devs, lockVars, rmVars,
       PrPcs, DetachPcs, AttachPcs
  <2>5. DisableBalanced'
    BY <1>2, BalancedFrame, SMT DEF OpenUse, Closed, TypeOK, HoldPcs, lockVars
  <2> QED BY <2>3, <2>4, <2>5 DEF IInv
<1>3. ASSUME NEW q \in Procs, OpenPid(h, q) PROVE IInv'
  <2>1. TypeOK'
    BY <1>3, SMT DEF OpenPid, TypeOK, Shape, Devs, Control, useVars, devVars,
           lockVars, vfVars, fileVars, rmVars, PrPcs, DetachPcs, AttachPcs,
           HandlePcs
  <2>2. Shape'
    BY <1>3, SMT DEF OpenPid, TypeOK, Shape, Devs, useVars, devVars, lockVars,
           vfVars, fileVars, rmVars, PrPcs, DetachPcs, AttachPcs, HandlePcs
  <2>3. DisableBalanced'
    BY <1>3, BalancedFrame DEF OpenPid, TypeOK, HoldPcs, useVars, devVars,
           lockVars, vfVars, fileVars, rmVars
  <2> QED BY <2>1, <2>2, <2>3 DEF IInv
<1>4. ASSUME OpenNoMemory(h) PROVE IInv'
  <2>1. TypeOK'
    BY <1>4, SMT DEF OpenNoMemory, UseEnd, Closed, TypeOK, Shape, Devs,
           Control, useVars, devVars, lockVars, vfVars, fileVars, rmVars,
           PrPcs, DetachPcs, AttachPcs, HandlePcs
  <2>2. Shape'
    BY <1>4, SMT DEF OpenNoMemory, UseEnd, Closed, TypeOK, Shape, Devs,
           useVars, devVars, lockVars, vfVars, fileVars, rmVars, PrPcs,
           DetachPcs, AttachPcs, HandlePcs
  <2>3. DisableBalanced'
    BY <1>4, BalancedFrame DEF OpenNoMemory, UseEnd, Closed, TypeOK, HoldPcs,
           useVars, devVars, lockVars, vfVars, fileVars, rmVars
  <2> QED BY <2>1, <2>2, <2>3 DEF IInv
<1>5. ASSUME CloseFme(h) PROVE IInv'
  <2>1. TypeOK'
    BY <1>5, SMT DEF CloseFme, UseEnd, Closed, TypeOK, Shape, Devs, Control,
           useVars, devVars, lockVars, vfVars, fileVars, rmVars, PrPcs,
           DetachPcs, AttachPcs, HandlePcs
  <2>2. Shape'
    BY <1>5 DEF CloseFme, UseEnd, Closed, TypeOK, Shape, Devs, useVars,
           devVars, lockVars, vfVars, fileVars, rmVars, PrPcs, DetachPcs,
           AttachPcs, HandlePcs
  <2>3. DisableBalanced'
    BY <1>5, BalancedFrame DEF CloseFme, UseEnd, Closed, TypeOK, HoldPcs,
           useVars, devVars, lockVars, vfVars, fileVars, rmVars
  <2> QED BY <2>1, <2>2, <2>3 DEF IInv
<1>6. ASSUME NEW q \in Procs, CloseNotLast(h, q) PROVE IInv'
  <2>1. TypeOK'
    BY <1>6, SMT DEF CloseNotLast, UseEnd, ForgetPid, Closed, TypeOK, Shape,
           Devs, Control, useVars, devVars, lockVars, vfVars, fileVars, rmVars,
           PrPcs, DetachPcs, AttachPcs, HandlePcs
  <2>2. Shape'
    BY <1>6, SMT DEF CloseNotLast, UseEnd, ForgetPid, Closed, TypeOK, Shape,
           Devs, useVars, devVars, lockVars, vfVars, fileVars, rmVars, PrPcs,
           DetachPcs, AttachPcs, HandlePcs
  <2>3. DisableBalanced'
    BY <1>6, BalancedFrame DEF CloseNotLast, UseEnd, ForgetPid, Closed,
           TypeOK, HoldPcs, useVars, devVars, lockVars, vfVars, fileVars,
           rmVars
  <2> QED BY <2>1, <2>2, <2>3 DEF IInv
<1>7. ASSUME NEW q \in Procs, CloseLast(h, q), private[dev[h]] PROVE IInv'
  <2>1. PICK P \in Ports : P = dev[h]
    BY <1>7 DEF CloseLast, UseEnd, ForgetPid, Shape, PrPcs, DetachPcs,
           AttachPcs, HandlePcs
  <2>3. ctl[P] \in Control
    BY <2>1 DEF TypeOK
  <2>4. PortDisable(ctl[P]) \in Control
    BY <2>3, PortDisableLemma
  <2>5. ctl' \in [Ports -> Control]
    BY <1>7, <2>1, <2>4, ControlUpdate, SMT DEF CloseLast, UseEnd, ForgetPid
  <2>6. TypeOK'
    <3>1. pid_list' \in [Ports -> [Procs -> Nat]]
      BY <1>7, SMT DEF CloseLast, ForgetPid, TypeOK
    <3>2. held' \in [Ports -> SUBSET {"irq", "umsg", "dma"}]
      <4>1. held[P] \ {"irq", "umsg"} \in SUBSET {"irq", "umsg", "dma"}
        BY <2>1 DEF TypeOK
      <4>2. held' = [held EXCEPT ![P] = held[P] \ {"irq", "umsg"}]
        BY <1>7, <2>1 DEF CloseLast
      <4> QED BY <2>1, <4>1, <4>2 DEF TypeOK
    <3>3. pc' \in [Handles -> HandlePcs]
      BY <1>7, ZenonT(30) DEF CloseLast, TypeOK, HandlePcs
    <3>4. plock' \in [Ports -> Handles \cup {NONE, SYSFS}]
      BY <1>7 DEF CloseLast, TypeOK
    <3> QED BY <1>7, <3>1, <3>2, <3>3, <3>4, <2>5, SMT
    DEF CloseLast, UseEnd, TypeOK, useVars,
               vfVars, rmVars
  <2>7. Shape'
    BY <1>7, SMT DEF CloseLast, UseEnd, ForgetPid, TypeOK, Shape, Devs,
           useVars, devVars, lockVars, vfVars, fileVars, rmVars, PrPcs,
           DetachPcs, AttachPcs, HandlePcs
  <2>8. DisableBalanced'
    <3>1. \A p \in Ports : PrHolds(p)' <=> PrHolds(p)
      BY <1>7, <2>1, SMT DEF CloseLast, UseEnd, ForgetPid, PrHolds, TypeOK,
             Shape, useVars, devVars, lockVars, vfVars, fileVars, rmVars,
             PrPcs, DetachPcs, AttachPcs, HandlePcs
    <3>2. \A p \in Ports \ {P} : ResetHolds(p)' <=> ResetHolds(p)
      BY <1>7, <2>1, SMT DEF CloseLast, UseEnd, ForgetPid, ResetHolds, TypeOK,
             Shape, useVars, devVars, lockVars, vfVars, fileVars, rmVars,
             PrPcs, DetachPcs, AttachPcs, HandlePcs
    <3>3. ~ResetHolds(P)
      BY <1>7, <2>1 DEF CloseLast, UseEnd, ForgetPid, ResetHolds, TypeOK,
             Shape, useVars, devVars, lockVars, vfVars, fileVars, rmVars,
             PrPcs, DetachPcs, AttachPcs, HandlePcs
    <3>4. ResetHolds(P)'
      BY <1>7, <2>1, SMT DEF CloseLast, UseEnd, ForgetPid, ResetHolds, TypeOK,
             Shape, useVars, devVars, lockVars, vfVars, fileVars, rmVars,
             PrPcs, DetachPcs, AttachPcs, HandlePcs
    <3>5. ctl' = [ctl EXCEPT ![P] = PortDisable(ctl[P])]
      BY <1>7, <2>1 DEF CloseLast, UseEnd, ForgetPid
    <3> QED BY <2>1, <3>1, <3>2, <3>3, <3>4, <3>5, BalancedHold, ZenonT(30)
  <2> QED BY <2>6, <2>7, <2>8 DEF IInv
<1>8. ASSUME NEW q \in Procs, CloseLast(h, q), ~private[dev[h]] PROVE IInv'
  <2>1. TypeOK'
    <3>1. pid_list' \in [Ports -> [Procs -> Nat]]
      BY <1>8, SMT DEF CloseLast, ForgetPid, TypeOK
    <3>2. held' \in [Ports -> SUBSET {"irq", "umsg", "dma"}]
      BY <1>8, SMT DEF CloseLast, TypeOK
    <3>3. pc' \in [Handles -> HandlePcs]
      BY <1>8, ZenonT(30) DEF CloseLast, TypeOK, HandlePcs
    <3>4. plock' \in [Ports -> Handles \cup {NONE, SYSFS}]
      BY <1>8 DEF CloseLast, TypeOK
    <3> QED BY <1>8, <3>1, <3>2, <3>3, <3>4, SMT
    DEF CloseLast, UseEnd, TypeOK, useVars,
               vfVars, rmVars
  <2>2. Shape'
    BY <1>8, SMT DEF CloseLast, UseEnd, ForgetPid, TypeOK, Shape, Devs,
           useVars, devVars, lockVars, vfVars, fileVars, rmVars, PrPcs,
           DetachPcs, AttachPcs, HandlePcs
  <2>3. DisableBalanced'
    BY <1>8, BalancedFrame, SMT DEF CloseLast, UseEnd, ForgetPid, TypeOK,
           HoldPcs, useVars, devVars, lockVars, vfVars, fileVars, rmVars
  <2> QED BY <2>1, <2>2, <2>3 DEF IInv
<1>9. ASSUME CloseLastEnd(h) PROVE IInv'
  <2>1. PICK P \in Ports : P = dev[h]
    BY <1>9 DEF CloseLastEnd, Closed, Shape, PrPcs, DetachPcs, AttachPcs,
           HandlePcs
  <2>2. ResetHolds(P)
    BY <1>9, <2>1 DEF CloseLastEnd, Closed, ResetHolds
  <2>3. ctl[P] \in Control /\ ctl[P].disable_count > 0
    BY <2>1, <2>2, HeldIsDisabled
  <2>4. PortEnable(ctl[P]) \in Control
    BY <2>3, PortEnableLemma
  <2>5. ctl' \in [Ports -> Control]
    BY <1>9, <2>1, <2>4, ControlUpdate DEF CloseLastEnd, Closed
  <2>6. TypeOK'
    BY <1>9, <2>1, <2>5 DEF CloseLastEnd, Closed, TypeOK, Shape, Devs,
           useVars, devVars, lockVars, vfVars, fileVars, rmVars, PrPcs,
           DetachPcs, AttachPcs, HandlePcs
  <2>7. Shape'
    BY <1>9, SMTT(30)
    DEF CloseLastEnd, Closed, TypeOK, Shape, Devs, useVars, devVars,
           lockVars, vfVars, fileVars, rmVars, PrPcs, DetachPcs, AttachPcs,
           HandlePcs
  <2>8. DisableBalanced'
    <3>1. \A p \in Ports : PrHolds(p)' <=> PrHolds(p)
      BY <1>9, <2>1, SMT DEF CloseLastEnd, Closed, PrHolds, TypeOK, Shape,
             useVars, devVars, lockVars, vfVars, fileVars, rmVars, PrPcs,
             DetachPcs, AttachPcs, HandlePcs
    <3>2. \A p \in Ports \ {P} : ResetHolds(p)' <=> ResetHolds(p)
      BY <1>9, <2>1 DEF CloseLastEnd, Closed, ResetHolds, TypeOK, Shape,
             useVars, devVars, lockVars, vfVars, fileVars, rmVars, PrPcs,
             DetachPcs, AttachPcs, HandlePcs
    <3>3. ResetHolds(P)
      BY <1>9, <2>1 DEF CloseLastEnd, Closed, ResetHolds, TypeOK, Shape,
             useVars, devVars, lockVars, vfVars, fileVars, rmVars, PrPcs,
             DetachPcs, AttachPcs, HandlePcs
    <3>4. ~ResetHolds(P)'
      BY <1>9, <2>1, SMT DEF CloseLastEnd, Closed, ResetHolds, TypeOK, Shape,
             useVars, devVars, lockVars, vfVars, fileVars, rmVars, PrPcs,
             DetachPcs, AttachPcs, HandlePcs
    <3>5. ctl' = [ctl EXCEPT ![P] = PortEnable(ctl[P])]
      BY <1>9, <2>1 DEF CloseLastEnd, Closed
    <3> QED BY <2>1, <3>1, <3>2, <3>3, <3>4, <3>5, BalancedUnhold, ZenonT(30)
  <2> QED BY <2>6, <2>7, <2>8 DEF IInv
<1> QED
  BY <1>1, <1>2, <1>3, <1>4, <1>5, <1>6, <1>7, <1>8, <1>9 DEF OpenClose

(* The ioctls on a port.                                                   *)
LEMMA PortWorkStep ==
    ASSUME IInv, NEW h \in Handles, PortWork(h)
    PROVE  IInv'
<1> USE PortsAssumption, HandlesAssumption
<1>0. TypeOK /\ Shape /\ DisableBalanced
  BY DEF IInv
<1> USE <1>0
<1>1. ASSUME NEW r \in Resources, SetUp(h, r) PROVE IInv'
  <2>1. dev[h] \in Ports /\ r \in {"irq", "umsg", "dma"}
    BY <1>1, ResourcesAssumption DEF SetUp
  <2>2. held' \in [Ports -> SUBSET {"irq", "umsg", "dma"}]
    BY <1>1, <2>1 DEF SetUp, TypeOK
  <2>3. TypeOK'
    BY <1>1, <2>2, SMTT(30)
    DEF SetUp, TypeOK, useVars, lockVars, vfVars, fileVars, rmVars
  <2>4. Shape'
    BY <1>1, ZenonT(30) DEF SetUp, Shape, lockVars, fileVars, rmVars
  <2>5. DisableBalanced'
    BY <1>1, BalancedFrame DEF SetUp, lockVars, fileVars
  <2> QED BY <2>3, <2>4, <2>5 DEF IInv
<1>2. ASSUME ResetBegin(h) PROVE IInv'
  <2>1. PICK P \in Ports : P = dev[h]
    BY <1>2 DEF ResetBegin, Shape, PrPcs, DetachPcs, AttachPcs, HandlePcs
  <2>3. ctl[P] \in Control
    BY <2>1 DEF TypeOK
  <2>4. PortDisable(ctl[P]) \in Control
    BY <2>3, PortDisableLemma
  <2>5. ctl' \in [Ports -> Control]
    BY <1>2, <2>1, <2>4, ControlUpdate DEF ResetBegin
  <2>6. TypeOK'
    BY <1>2, <2>1, <2>5 DEF ResetBegin, TypeOK, Shape, Devs, useVars,
           devVars, lockVars, vfVars, fileVars, rmVars, PrPcs, DetachPcs,
           AttachPcs, HandlePcs
  <2>7. Shape'
    BY <1>2, SMTT(30)
    DEF ResetBegin, TypeOK, Shape, Devs, useVars, devVars, lockVars,
           vfVars, fileVars, rmVars, PrPcs, DetachPcs, AttachPcs, HandlePcs
  <2>8. DisableBalanced'
    <3>1. \A p \in Ports : PrHolds(p)' <=> PrHolds(p)
      BY <1>2, <2>1, SMT DEF ResetBegin, PrHolds, TypeOK, Shape, useVars,
             devVars, lockVars, vfVars, fileVars, rmVars, PrPcs, DetachPcs,
             AttachPcs, HandlePcs
    <3>2. \A p \in Ports \ {P} : ResetHolds(p)' <=> ResetHolds(p)
      BY <1>2, <2>1 DEF ResetBegin, ResetHolds, TypeOK, Shape, useVars,
             devVars, lockVars, vfVars, fileVars, rmVars, PrPcs, DetachPcs,
             AttachPcs, HandlePcs
    <3>3. ~ResetHolds(P)
      BY <1>2, <2>1 DEF ResetBegin, ResetHolds, TypeOK, Shape, useVars,
             devVars, lockVars, vfVars, fileVars, rmVars, PrPcs, DetachPcs,
             AttachPcs, HandlePcs
    <3>4. ResetHolds(P)'
      BY <1>2, <2>1, SMT DEF ResetBegin, ResetHolds, TypeOK, Shape, useVars,
             devVars, lockVars, vfVars, fileVars, rmVars, PrPcs, DetachPcs,
             AttachPcs, HandlePcs
    <3>5. ctl' = [ctl EXCEPT ![P] = PortDisable(ctl[P])]
      BY <1>2, <2>1 DEF ResetBegin
    <3> QED BY <2>1, <3>1, <3>2, <3>3, <3>4, <3>5, BalancedHold, ZenonT(30)
  <2> QED BY <2>6, <2>7, <2>8 DEF IInv
<1>3. ASSUME ResetEnd(h) PROVE IInv'
  <2>1. PICK P \in Ports : P = dev[h]
    BY <1>3 DEF ResetEnd, Shape, PrPcs, DetachPcs, AttachPcs, HandlePcs
  <2>2. ResetHolds(P)
    BY <1>3, <2>1 DEF ResetEnd, ResetHolds
  <2>3. ctl[P] \in Control /\ ctl[P].disable_count > 0
    BY <2>1, <2>2, HeldIsDisabled
  <2>4. PortEnable(ctl[P]) \in Control
    BY <2>3, PortEnableLemma
  <2>5. ctl' \in [Ports -> Control]
    BY <1>3, <2>1, <2>4, ControlUpdate DEF ResetEnd
  <2>6. TypeOK'
    BY <1>3, <2>1, <2>5 DEF ResetEnd, TypeOK, Shape, Devs, useVars, devVars,
           lockVars, vfVars, fileVars, rmVars, PrPcs, DetachPcs, AttachPcs,
           HandlePcs
  <2>7. Shape'
    BY <1>3, SMT DEF ResetEnd, TypeOK, Shape, Devs, useVars, devVars, lockVars,
           vfVars, fileVars, rmVars, PrPcs, DetachPcs, AttachPcs, HandlePcs
  <2>8. DisableBalanced'
    <3>1. \A p \in Ports : PrHolds(p)' <=> PrHolds(p)
      BY <1>3, <2>1, SMT DEF ResetEnd, PrHolds, TypeOK, Shape, useVars,
             devVars, lockVars, vfVars, fileVars, rmVars, PrPcs, DetachPcs,
             AttachPcs, HandlePcs
    <3>2. \A p \in Ports \ {P} : ResetHolds(p)' <=> ResetHolds(p)
      BY <1>3, <2>1 DEF ResetEnd, ResetHolds, TypeOK, Shape, useVars,
             devVars, lockVars, vfVars, fileVars, rmVars, PrPcs, DetachPcs,
             AttachPcs, HandlePcs
    <3>3. ResetHolds(P)
      BY <1>3, <2>1 DEF ResetEnd, ResetHolds, TypeOK, Shape, useVars,
             devVars, lockVars, vfVars, fileVars, rmVars, PrPcs, DetachPcs,
             AttachPcs, HandlePcs
    <3>4. ~ResetHolds(P)'
      BY <1>3, <2>1, SMT DEF ResetEnd, ResetHolds, TypeOK, Shape, useVars,
             devVars, lockVars, vfVars, fileVars, rmVars, PrPcs, DetachPcs,
             AttachPcs, HandlePcs
    <3>5. ctl' = [ctl EXCEPT ![P] = PortEnable(ctl[P])]
      BY <1>3, <2>1 DEF ResetEnd
    <3> QED BY <2>1, <3>1, <3>2, <3>3, <3>4, <3>5, BalancedUnhold, ZenonT(30)
  <2> QED BY <2>6, <2>7, <2>8 DEF IInv
<1> QED
  BY <1>1, <1>2, <1>3 DEF PortWork

-----------------------------------------------------------------------------
(* FME files: reconfiguring, releasing and assigning a port.               *)

(* Partial reconfiguration: the FME's lock makes it the only one, so a     *)
(* port is held disabled by at most one PR.                                *)
LEMMA ReconfigureStep ==
    ASSUME IInv, NEW h \in Handles, Reconfigure(h)
    PROVE  IInv'
<1> USE PortsAssumption, HandlesAssumption
<1>0. TypeOK /\ Shape /\ DisableBalanced
  BY DEF IInv
<1> USE <1>0
<1>1. ASSUME NEW p \in Ports, PrBegin(h, p) PROVE IInv'
  <2>1. TypeOK'
    BY <1>1 DEF PrBegin, Goto, TypeOK, Shape, Devs, Control, useVars,
           devVars, lockVars, vfVars, fileVars, rmVars, PrPcs, DetachPcs,
           AttachPcs, HandlePcs
  <2>2. Shape'
    BY <1>1 DEF PrBegin, Goto, TypeOK, Shape, Devs, useVars, devVars,
           lockVars, vfVars, fileVars, rmVars, PrPcs, DetachPcs, AttachPcs,
           HandlePcs
  <2>3. DisableBalanced'
    BY <1>1, BalancedFrame DEF PrBegin, Goto, TypeOK, HoldPcs, useVars,
           devVars, lockVars, vfVars, fileVars, rmVars
  <2> QED BY <2>1, <2>2, <2>3 DEF IInv
<1>2. ASSUME PrFindPort(h) PROVE IInv'
  <2>1. TypeOK'
    BY <1>2 DEF PrFindPort, Goto, TypeOK, Shape, Devs, Control, useVars,
           devVars, lockVars, vfVars, fileVars, rmVars, PrPcs, DetachPcs,
           AttachPcs, HandlePcs
  <2>2. Shape'
    BY <1>2, SMT DEF PrFindPort, Goto, TypeOK, Shape, Devs, useVars, devVars,
           lockVars, vfVars, fileVars, rmVars, PrPcs, DetachPcs, AttachPcs,
           HandlePcs
  <2>3. DisableBalanced'
    BY <1>2, BalancedFrame DEF PrFindPort, Goto, TypeOK, HoldPcs, useVars,
           devVars, lockVars, vfVars, fileVars, rmVars
  <2> QED BY <2>1, <2>2, <2>3 DEF IInv
<1>3. ASSUME PrDisable(h) PROVE IInv'
  <2>1. PICK P \in Ports : P = arg[h]
    BY <1>3 DEF PrDisable, Goto, Shape, PrPcs, DetachPcs, AttachPcs,
           HandlePcs
  <2>3. ctl[P] \in Control
    BY <2>1 DEF TypeOK
  <2>4. PortDisable(ctl[P]) \in Control
    BY <2>3, PortDisableLemma
  <2>5. ctl' \in [Ports -> Control]
    BY <1>3, <2>1, <2>4, ControlUpdate DEF PrDisable, Goto
  <2>6. TypeOK'
    BY <1>3, <2>1, <2>5 DEF PrDisable, Goto, TypeOK, Shape, Devs, useVars,
           devVars, lockVars, vfVars, fileVars, rmVars, PrPcs, DetachPcs,
           AttachPcs, HandlePcs
  <2>7. Shape'
    BY <1>3, SMT DEF PrDisable, Goto, TypeOK, Shape, Devs, useVars, devVars,
           lockVars, vfVars, fileVars, rmVars, PrPcs, DetachPcs, AttachPcs,
           HandlePcs
  <2>8. DisableBalanced'
    <3>1. \A p \in Ports : ResetHolds(p)' <=> ResetHolds(p)
      BY <1>3, <2>1, SMT DEF PrDisable, Goto, ResetHolds, TypeOK, Shape,
             useVars, devVars, lockVars, vfVars, fileVars, rmVars, PrPcs,
             DetachPcs, AttachPcs, HandlePcs
    <3>2. \A p \in Ports \ {P} : PrHolds(p)' <=> PrHolds(p)
      BY <1>3, <2>1 DEF PrDisable, Goto, PrHolds, TypeOK, Shape, useVars,
             devVars, lockVars, vfVars, fileVars, rmVars, PrPcs, DetachPcs,
             AttachPcs, HandlePcs
    <3>3. ~PrHolds(P)
      BY <1>3, <2>1 DEF PrDisable, Goto, PrHolds, TypeOK, Shape, useVars,
             devVars, lockVars, vfVars, fileVars, rmVars, PrPcs, DetachPcs,
             AttachPcs, HandlePcs
    <3>4. PrHolds(P)'
      BY <1>3, <2>1, SMT DEF PrDisable, Goto, PrHolds, TypeOK, Shape, useVars,
             devVars, lockVars, vfVars, fileVars, rmVars, PrPcs, DetachPcs,
             AttachPcs, HandlePcs
    <3>5. ctl' = [ctl EXCEPT ![P] = PortDisable(ctl[P])]
      BY <1>3, <2>1 DEF PrDisable, Goto
    <3> QED BY <2>1, <3>1, <3>2, <3>3, <3>4, <3>5, BalancedHold, ZenonT(30)
  <2> QED BY <2>6, <2>7, <2>8 DEF IInv
<1>4. ASSUME PrLoad(h) PROVE IInv'
  <2>1. TypeOK'
    BY <1>4 DEF PrLoad, Goto, TypeOK, Shape, Devs, Control, useVars, devVars,
           lockVars, vfVars, fileVars, rmVars, PrPcs, DetachPcs, AttachPcs,
           HandlePcs
  <2>2. Shape'
    BY <1>4, SMT DEF PrLoad, Goto, TypeOK, Shape, Devs, useVars, devVars,
           lockVars, vfVars, fileVars, rmVars, PrPcs, DetachPcs, AttachPcs,
           HandlePcs
  <2>3. DisableBalanced'
    BY <1>4, ZenonT(30)
    DEF PrLoad, Goto, TypeOK, DisableBalanced, PrHolds, ResetHolds,
           useVars, devVars, lockVars, vfVars, fileVars, rmVars
  <2> QED BY <2>1, <2>2, <2>3 DEF IInv
<1>5. ASSUME PrEnable(h) PROVE IInv'
  <2>1. PICK P \in Ports : P = arg[h]
    BY <1>5 DEF PrEnable, Goto, Shape, PrPcs, DetachPcs, AttachPcs, HandlePcs
  <2>2. PrHolds(P)
    BY <1>5, <2>1 DEF PrEnable, Goto, PrHolds
  <2>3. ctl[P] \in Control /\ ctl[P].disable_count > 0
    BY <2>1, <2>2, HeldIsDisabled
  <2>4. PortEnable(ctl[P]) \in Control
    BY <2>3, PortEnableLemma
  <2>5. ctl' \in [Ports -> Control]
    BY <1>5, <2>1, <2>4, ControlUpdate DEF PrEnable, Goto
  <2>6. TypeOK'
    BY <1>5, <2>1, <2>5 DEF PrEnable, Goto, TypeOK, Shape, Devs, useVars,
           devVars, lockVars, vfVars, fileVars, rmVars, PrPcs, DetachPcs,
           AttachPcs, HandlePcs
  <2>7. Shape'
    BY <1>5, SMT DEF PrEnable, Goto, TypeOK, Shape, Devs, useVars, devVars,
           lockVars, vfVars, fileVars, rmVars, PrPcs, DetachPcs, AttachPcs,
           HandlePcs
  <2>8. DisableBalanced'
    <3>1. \A p \in Ports : ResetHolds(p)' <=> ResetHolds(p)
      BY <1>5, <2>1, SMT DEF PrEnable, Goto, ResetHolds, TypeOK, Shape,
             useVars, devVars, lockVars, vfVars, fileVars, rmVars, PrPcs,
             DetachPcs, AttachPcs, HandlePcs
    <3>2. \A p \in Ports \ {P} : PrHolds(p)' <=> PrHolds(p)
      BY <1>5, <2>1 DEF PrEnable, Goto, PrHolds, TypeOK, Shape, useVars,
             devVars, lockVars, vfVars, fileVars, rmVars, PrPcs, DetachPcs,
             AttachPcs, HandlePcs
    <3>3. PrHolds(P)
      BY <1>5, <2>1 DEF PrEnable, Goto, PrHolds, TypeOK, Shape, useVars,
             devVars, lockVars, vfVars, fileVars, rmVars, PrPcs, DetachPcs,
             AttachPcs, HandlePcs
    <3>4. ~PrHolds(P)'
      BY <1>5, <2>1, SMT DEF PrEnable, Goto, PrHolds, TypeOK, Shape, useVars,
             devVars, lockVars, vfVars, fileVars, rmVars, PrPcs, DetachPcs,
             AttachPcs, HandlePcs
    <3>5. ctl' = [ctl EXCEPT ![P] = PortEnable(ctl[P])]
      BY <1>5, <2>1 DEF PrEnable, Goto
    <3> QED BY <2>1, <3>1, <3>2, <3>3, <3>4, <3>5, BalancedUnhold, ZenonT(30)
  <2> QED BY <2>6, <2>7, <2>8 DEF IInv
<1>6. ASSUME PrEnd(h) PROVE IInv'
  <2>1. TypeOK'
    BY <1>6 DEF PrEnd, Goto, TypeOK, Shape, Devs, Control, useVars, devVars,
           lockVars, vfVars, fileVars, rmVars, PrPcs, DetachPcs, AttachPcs,
           HandlePcs
  <2>2. Shape'
    BY <1>6, SMT DEF PrEnd, Goto, TypeOK, Shape, Devs, useVars, devVars,
           lockVars, vfVars, fileVars, rmVars, PrPcs, DetachPcs, AttachPcs,
           HandlePcs
  <2>3. DisableBalanced'
    BY <1>6, BalancedFrame DEF PrEnd, Goto, TypeOK, HoldPcs, useVars,
           devVars, lockVars, vfVars, fileVars, rmVars
  <2> QED BY <2>1, <2>2, <2>3 DEF IInv
<1> QED
  BY <1>1, <1>2, <1>3, <1>4, <1>5, <1>6 DEF Reconfigure

(* Releasing and assigning a port; the reset in afu_probe leaves a port    *)
(* that is being reconfigured in reset.                                    *)
LEMMA ConfigPortStep ==
    ASSUME IInv, NEW h \in Handles, ConfigPort(h)
    PROVE  IInv'
<1> USE PortsAssumption, HandlesAssumption
<1>0. TypeOK /\ Shape /\ DisableBalanced
  BY DEF IInv
<1> USE <1>0
<1>1. ASSUME NEW p \in Ports, DetachBegin(h, p) PROVE IInv'
  <2>1. TypeOK'
    BY <1>1, SMT DEF DetachBegin, Goto, TypeOK, Shape, Devs, Control, useVars,
           devVars, lockVars, vfVars, fileVars, rmVars, PrPcs, DetachPcs,
           AttachPcs, HandlePcs
  <2>2. Shape'
    BY <1>1 DEF DetachBegin, Goto, TypeOK, Shape, Devs, useVars, devVars,
           lockVars, vfVars, fileVars, rmVars, PrPcs, DetachPcs, AttachPcs,
           HandlePcs
  <2>3. DisableBalanced'
    BY <1>1, BalancedFrame DEF DetachBegin, Goto, TypeOK, HoldPcs, useVars,
           devVars, lockVars, vfVars, fileVars, rmVars
  <2> QED BY <2>1, <2>2, <2>3 DEF IInv
<1>2. ASSUME DetachDel(h) PROVE IInv'
  <2>1. TypeOK'
    BY <1>2 DEF DetachDel, Goto, TypeOK, Shape, Devs, Control, useVars,
           devVars, lockVars, vfVars, fileVars, rmVars, PrPcs, DetachPcs,
           AttachPcs, HandlePcs
  <2>2. Shape'
    BY <1>2, SMT DEF DetachDel, Goto, TypeOK, Shape, Devs, useVars, devVars,
           lockVars, vfVars, fileVars, rmVars, PrPcs, DetachPcs, AttachPcs,
           HandlePcs
  <2>3. DisableBalanced'
    BY <1>2, BalancedFrame DEF DetachDel, Goto, TypeOK, HoldPcs, useVars,
           devVars, lockVars, vfVars, fileVars, rmVars
  <2> QED BY <2>1, <2>2, <2>3 DEF IInv
<1>3. ASSUME DetachDestroy(h) PROVE IInv'
  <2>1. TypeOK'
    BY <1>3 DEF DetachDestroy, Goto, TypeOK, Shape, Devs, Control, useVars,
           devVars, lockVars, vfVars, fileVars, rmVars, PrPcs, DetachPcs,
           AttachPcs, HandlePcs
  <2>2. Shape'
    BY <1>3, SMT DEF DetachDestroy, Goto, TypeOK, Shape, Devs, useVars,
           devVars, lockVars, vfVars, fileVars, rmVars, PrPcs, DetachPcs,
           AttachPcs, HandlePcs
  <2>3. DisableBalanced'
    BY <1>3, BalancedFrame DEF DetachDestroy, Goto, TypeOK, HoldPcs, useVars,
           devVars, lockVars, vfVars, fileVars, rmVars
  <2> QED BY <2>1, <2>2, <2>3 DEF IInv
<1>4. ASSUME DetachEnd(h) PROVE IInv'
  <2>1. TypeOK'
    BY <1>4, SMT DEF DetachEnd, Goto, TypeOK, Shape, Devs, Control, useVars,
           devVars, lockVars, vfVars, fileVars, rmVars, PrPcs, DetachPcs,
           AttachPcs, HandlePcs
  <2>2. Shape'
    BY <1>4, SMT DEF DetachEnd, Goto, TypeOK, Shape, Devs, useVars, devVars,
           lockVars, vfVars, fileVars, rmVars, PrPcs, DetachPcs, AttachPcs,
           HandlePcs
  <2>3. DisableBalanced'
    BY <1>4, BalancedFrame DEF DetachEnd, Goto, TypeOK, HoldPcs, useVars,
           devVars, lockVars, vfVars, fileVars, rmVars
  <2> QED BY <2>1, <2>2, <2>3 DEF IInv
<1>5. ASSUME NEW p \in Ports, AttachBegin(h, p) PROVE IInv'
  <2>1. TypeOK'
    BY <1>5 DEF AttachBegin, Goto, TypeOK, Shape, Devs, Control, useVars,
           devVars, lockVars, vfVars, fileVars, rmVars, PrPcs, DetachPcs,
           AttachPcs, HandlePcs
  <2>2. Shape'
    BY <1>5 DEF AttachBegin, Goto, TypeOK, Shape, Devs, useVars, devVars,
           lockVars, vfVars, fileVars, rmVars, PrPcs, DetachPcs, AttachPcs,
           HandlePcs
  <2>3. DisableBalanced'
    BY <1>5, BalancedFrame DEF AttachBegin, Goto, TypeOK, HoldPcs, useVars,
           devVars, lockVars, vfVars, fileVars, rmVars
  <2> QED BY <2>1, <2>2, <2>3 DEF IInv
<1>6. ASSUME AttachInit(h) PROVE IInv'
  <2>1. TypeOK'
    BY <1>6 DEF AttachInit, Goto, TypeOK, Shape, Devs, Control, useVars,
           devVars, lockVars, vfVars, fileVars, rmVars, PrPcs, DetachPcs,
           AttachPcs, HandlePcs
  <2>2. Shape'
    BY <1>6, SMT DEF AttachInit, Goto, TypeOK, Shape, Devs, useVars, devVars,
           lockVars, vfVars, fileVars, rmVars, PrPcs, DetachPcs, AttachPcs,
           HandlePcs
  <2>3. DisableBalanced'
    BY <1>6, BalancedFrame DEF AttachInit, Goto, TypeOK, HoldPcs, useVars,
           devVars, lockVars, vfVars, fileVars, rmVars
  <2> QED BY <2>1, <2>2, <2>3 DEF IInv
<1>7. ASSUME AttachReset(h) PROVE IInv'
  <2>1. PICK P \in Ports : P = arg[h]
    BY <1>7 DEF AttachReset, Goto, Shape, PrPcs, DetachPcs, AttachPcs,
           HandlePcs
  <2>3. /\ ctl[P] \in Control
        /\ ctl[P].sftrst <=> ctl[P].disable_count > 0
    BY <2>1 DEF TypeOK, DisableBalanced
  <2>4. PortReset(ctl[P]) \in Control
    BY <2>3, PortResetLemma
  <2>5. ctl' \in [Ports -> Control]
    BY <1>7, <2>1, <2>4, ControlUpdate DEF AttachReset, Goto
  <2>6. TypeOK'
    BY <1>7, <2>1, <2>5 DEF AttachReset, Goto, TypeOK, Shape, Devs, useVars,
           devVars, lockVars, vfVars, fileVars, rmVars, PrPcs, DetachPcs,
           AttachPcs, HandlePcs
  <2>7. Shape'
    BY <1>7, SMT DEF AttachReset, Goto, TypeOK, Shape, Devs, useVars, devVars,
           lockVars, vfVars, fileVars, rmVars, PrPcs, DetachPcs, AttachPcs,
           HandlePcs
  <2>8. DisableBalanced'
    <3>1. \A p \in Ports : PrHolds(p)' <=> PrHolds(p)
      BY <1>7 DEF AttachReset, Goto, PrHolds, TypeOK, useVars, devVars,
             lockVars, vfVars, fileVars, rmVars
    <3>2. \A p \in Ports : ResetHolds(p)' <=> ResetHolds(p)
      BY <1>7 DEF AttachReset, Goto, ResetHolds, TypeOK, useVars, devVars,
             lockVars, vfVars, fileVars, rmVars
    <3>3. ctl' = [ctl EXCEPT ![P] = PortReset(ctl[P])]
      BY <1>7, <2>1 DEF AttachReset, Goto
    <3> QED BY <2>1, <3>1, <3>2, <3>3, BalancedReset, ZenonT(30)
  <2> QED BY <2>6, <2>7, <2>8 DEF IInv
<1>8. ASSUME AttachProbeFails(h) PROVE IInv'
  <2>1. PICK P \in Ports : P = arg[h]
    BY <1>8 DEF AttachProbeFails, Goto, Shape, PrPcs, DetachPcs, AttachPcs,
           HandlePcs
  <2>3. /\ ctl[P] \in Control
        /\ ctl[P].sftrst <=> ctl[P].disable_count > 0
    BY <2>1 DEF TypeOK, DisableBalanced
  <2>4. PortReset(ctl[P]) \in Control
    BY <2>3, PortResetLemma
  <2>5. ctl' \in [Ports -> Control]
    BY <1>8, <2>1, <2>4, ControlUpdate DEF AttachProbeFails, Goto
  <2>6. TypeOK'
    BY <1>8, <2>1, <2>5 DEF AttachProbeFails, Goto, TypeOK, Shape, Devs,
           useVars, devVars, lockVars, vfVars, fileVars, rmVars, PrPcs,
           DetachPcs, AttachPcs, HandlePcs
  <2>7. Shape'
    BY <1>8, SMT DEF AttachProbeFails, Goto, TypeOK, Shape, Devs, useVars,
           devVars, lockVars, vfVars, fileVars, rmVars, PrPcs, DetachPcs,
           AttachPcs, HandlePcs
  <2>8. DisableBalanced'
    <3>1. \A p \in Ports : PrHolds(p)' <=> PrHolds(p)
      BY <1>8 DEF AttachProbeFails, Goto, PrHolds, TypeOK, useVars, devVars,
             lockVars, vfVars, fileVars, rmVars
    <3>2. \A p \in Ports : ResetHolds(p)' <=> ResetHolds(p)
      BY <1>8 DEF AttachProbeFails, Goto, ResetHolds, TypeOK, useVars,
             devVars, lockVars, vfVars, fileVars, rmVars
    <3>3. ctl' = [ctl EXCEPT ![P] = PortReset(ctl[P])]
      BY <1>8, <2>1 DEF AttachProbeFails, Goto
    <3> QED BY <2>1, <3>1, <3>2, <3>3, BalancedReset, ZenonT(30)
  <2> QED BY <2>6, <2>7, <2>8 DEF IInv
<1>9. ASSUME AttachEnd(h) PROVE IInv'
  <2>1. TypeOK'
    BY <1>9, SMTT(30) DEF AttachEnd, Goto, UseEnd, TypeOK, Shape, Devs, Control,
           useVars, devVars, lockVars, vfVars, fileVars, rmVars, PrPcs,
           DetachPcs, AttachPcs, HandlePcs
  <2>2. Shape'
    BY <1>9, SMT DEF AttachEnd, Goto, UseEnd, TypeOK, Shape, Devs, useVars,
           devVars, lockVars, vfVars, fileVars, rmVars, PrPcs, DetachPcs,
           AttachPcs, HandlePcs
  <2>3. DisableBalanced'
    BY <1>9, BalancedFrame DEF AttachEnd, Goto, UseEnd, TypeOK, HoldPcs,
           useVars, devVars, lockVars, vfVars, fileVars, rmVars
  <2> QED BY <2>1, <2>2, <2>3 DEF IInv
<1>10. ASSUME ConfigAfterRemove(h) PROVE IInv'
  <2>1. TypeOK'
    BY <1>10 DEF ConfigAfterRemove, Goto, TypeOK, Shape, Devs, Control,
           useVars, devVars, lockVars, vfVars, fileVars, rmVars, PrPcs,
           DetachPcs, AttachPcs, HandlePcs
  <2>2. Shape'
    BY <1>10 DEF ConfigAfterRemove, Goto, TypeOK, Shape, Devs, useVars,
           devVars, lockVars, vfVars, fileVars, rmVars, PrPcs, DetachPcs,
           AttachPcs, HandlePcs
  <2>3. DisableBalanced'
    BY <1>10, BalancedFrame DEF ConfigAfterRemove, Goto, TypeOK, HoldPcs,
           useVars, devVars, lockVars, vfVars, fileVars, rmVars
  <2> QED BY <2>1, <2>2, <2>3 DEF IInv
<1> QED
  BY <1>1, <1>2, <1>3, <1>4, <1>5, <1>6, <1>7, <1>8, <1>9, <1>10 DEF ConfigPort

-----------------------------------------------------------------------------
(* The port and the card.                                                  *)

(* The error-clearing sysfs file, and the hardware's acknowledgement.      *)
LEMMA PortStep ==
    ASSUME IInv, NEW P \in Ports,
           ErrClearBegin(P) \/ ErrClearEnd(P) \/ HwResetAck(P)
    PROVE  IInv'
<1> USE PortsAssumption, HandlesAssumption
<1>0. TypeOK /\ Shape /\ DisableBalanced
  BY DEF IInv
<1> USE <1>0
<1>1. ctl[P] \in Control
  BY DEF TypeOK
<1>2. CASE ErrClearBegin(P)
  <2>1. ctl' \in [Ports -> Control]
    BY <1>1, <1>2, PortDisableLemma, ControlUpdate DEF ErrClearBegin
  <2>2. TypeOK'
    BY <1>2, <2>1 DEF ErrClearBegin, TypeOK, useVars, devVars, vfVars,
       fileVars, rmVars
  <2>3. Shape'
    BY <1>2 DEF ErrClearBegin, TypeOK, Shape, fileVars, rmVars
  <2>4. /\ \A p \in Ports : PrHolds(p)' <=> PrHolds(p)
        /\ \A p \in Ports \ {P} : ResetHolds(p)' <=> ResetHolds(p)
        /\ ~ResetHolds(P) /\ ResetHolds(P)'
    BY <1>2 DEF ErrClearBegin, TypeOK, Shape, PrHolds, ResetHolds, fileVars
  <2>5. DisableBalanced'
    BY <1>2, <2>4, BalancedHold, ZenonT(30) DEF ErrClearBegin
  <2> QED BY <2>2, <2>3, <2>5 DEF IInv
<1>3. CASE ErrClearEnd(P)
  <2>1. ResetHolds(P)
    BY <1>3 DEF ErrClearEnd, ResetHolds
  <2>2. ctl' \in [Ports -> Control]
    BY <1>1, <1>3, <2>1, HeldIsDisabled, PortEnableLemma, ControlUpdate
    DEF ErrClearEnd
  <2>3. TypeOK'
    BY <1>3, <2>2 DEF ErrClearEnd, TypeOK, useVars, devVars, vfVars,
       fileVars, rmVars
  <2>4. Shape'
    BY <1>3 DEF ErrClearEnd, TypeOK, Shape, fileVars, rmVars
  <2>5. /\ \A p \in Ports : PrHolds(p)' <=> PrHolds(p)
        /\ \A p \in Ports \ {P} : ResetHolds(p)' <=> ResetHolds(p)
        /\ ~ResetHolds(P)'
    BY <1>3, SMT DEF ErrClearEnd, TypeOK, Shape, PrHolds, ResetHolds, fileVars
  <2>6. DisableBalanced'
    BY <1>3, <2>1, <2>5, BalancedUnhold, ZenonT(30) DEF ErrClearEnd
  <2> QED BY <2>3, <2>4, <2>6 DEF IInv
<1>4. CASE HwResetAck(P)
  <2>1. /\ ctl' \in [Ports -> Control]
        /\ \A p \in Ports : /\ ctl'[p].disable_count = ctl[p].disable_count
                            /\ ctl'[p].sftrst = ctl[p].sftrst
    <3>1. /\ [ctl[P] EXCEPT !.ack = TRUE] \in Control
          /\ [ctl[P] EXCEPT !.ack = TRUE].disable_count = ctl[P].disable_count
          /\ [ctl[P] EXCEPT !.ack = TRUE].sftrst = ctl[P].sftrst
      BY <1>1, ZenonT(30) DEF Control
    <3>2. ctl' = [ctl EXCEPT ![P] = [ctl[P] EXCEPT !.ack = TRUE]]
      BY <1>4 DEF HwResetAck
    <3> QED BY <3>1, <3>2, ControlUpdate DEF TypeOK
  <2>2. TypeOK'
    BY <1>4, <2>1 DEF HwResetAck, TypeOK, useVars, devVars, lockVars, vfVars,
       fileVars, rmVars
  <2>3. Shape'
    BY <1>4 DEF HwResetAck, Shape, lockVars, fileVars, rmVars
  <2>4. DisableBalanced'
    BY <1>4, <2>1, SMT DEF HwResetAck, DisableBalanced, PrHolds, ResetHolds,
       lockVars, fileVars
  <2> QED BY <2>2, <2>3, <2>4 DEF IInv
<1> QED
  BY <1>2, <1>3, <1>4

(* SR-IOV configuration and removal never touch a port's reset.            *)
LEMMA CardStep ==
    ASSUME IInv, Sriov \/ Remove
    PROVE  IInv'
<1> USE PortsAssumption, HandlesAssumption
<1>0. TypeOK /\ Shape /\ DisableBalanced
  BY DEF IInv
<1> USE <1>0
<1>1. ASSUME NEW n \in 1..Cardinality(Ports), SriovEnable(n) PROVE IInv'
  <2>1. TypeOK'
    BY <1>1, SMT DEF SriovEnable, TypeOK, Shape, Devs, useVars, devVars,
           lockVars, vfVars, fileVars, rmVars
  <2>2. Shape'
    BY <1>1 DEF SriovEnable, TypeOK, Shape, useVars, devVars, lockVars,
           vfVars, fileVars, rmVars
  <2>3. DisableBalanced'
    BY <1>1, BalancedFrame DEF SriovEnable, useVars, devVars, lockVars,
           vfVars, fileVars, rmVars
  <2> QED BY <2>1, <2>2, <2>3 DEF IInv
<1>2. ASSUME NEW n \in 1..Cardinality(Ports), SriovEnableFails(n) PROVE IInv'
  <2>1. TypeOK'
    BY <1>2 DEF SriovEnableFails, PortsToPF, TypeOK, Shape, Devs, useVars,
           devVars, lockVars, vfVars, fileVars, rmVars
  <2>2. Shape'
    BY <1>2 DEF SriovEnableFails, PortsToPF, TypeOK, Shape, useVars, devVars,
           lockVars, vfVars, fileVars, rmVars
  <2>3. DisableBalanced'
    BY <1>2, BalancedFrame DEF SriovEnableFails, PortsToPF, useVars, devVars,
           lockVars, vfVars, fileVars, rmVars
  <2> QED BY <2>1, <2>2, <2>3 DEF IInv
<1>3. ASSUME SriovDisable PROVE IInv'
  <2>1. TypeOK'
    BY <1>3 DEF SriovDisable, PortsToPF, TypeOK, Shape, Devs, useVars,
           devVars, lockVars, vfVars, fileVars, rmVars
  <2>2. Shape'
    BY <1>3 DEF SriovDisable, PortsToPF, TypeOK, Shape, useVars, devVars,
           lockVars, vfVars, fileVars, rmVars
  <2>3. DisableBalanced'
    BY <1>3, BalancedFrame DEF SriovDisable, PortsToPF, useVars, devVars,
           lockVars, vfVars, fileVars, rmVars
  <2> QED BY <2>1, <2>2, <2>3 DEF IInv
<1>4. ASSUME RmBegin PROVE IInv'
  <2>1. TypeOK'
    BY <1>4 DEF RmBegin, TypeOK, Shape, Devs, useVars, devVars, lockVars,
           vfVars, fileVars, rmVars
  <2>2. Shape'
    BY <1>4 DEF RmBegin, TypeOK, Shape, useVars, devVars, lockVars, vfVars,
           fileVars, rmVars
  <2>3. DisableBalanced'
    BY <1>4, BalancedFrame DEF RmBegin, useVars, devVars, lockVars, vfVars,
           fileVars, rmVars
  <2> QED BY <2>1, <2>2, <2>3 DEF IInv
<1>5. ASSUME NEW p \in Ports, RmUnplug(p) PROVE IInv'
  <2>1. TypeOK'
    BY <1>5 DEF RmUnplug, TypeOK, Shape, Devs, useVars, devVars, lockVars,
           vfVars, fileVars, rmVars
  <2>2. Shape'
    BY <1>5 DEF RmUnplug, TypeOK, Shape, useVars, devVars, lockVars, vfVars,
           fileVars, rmVars
  <2>3. DisableBalanced'
    BY <1>5, BalancedFrame DEF RmUnplug, useVars, devVars, lockVars, vfVars,
           fileVars, rmVars
  <2> QED BY <2>1, <2>2, <2>3 DEF IInv
<1>6. ASSUME RmDrained PROVE IInv'
  <2>1. TypeOK'
    BY <1>6 DEF RmDrained, RmNext, TypeOK, Shape, Devs, useVars, devVars,
           lockVars, vfVars, fileVars, rmVars
  <2>2. Shape'
    BY <1>6 DEF RmDrained, RmNext, TypeOK, Shape, useVars, devVars, lockVars,
           vfVars, fileVars, rmVars
  <2>3. DisableBalanced'
    BY <1>6, BalancedFrame DEF RmDrained, RmNext, useVars, devVars, lockVars,
           vfVars, fileVars, rmVars
  <2> QED BY <2>1, <2>2, <2>3 DEF IInv
<1>7. ASSUME RmTimeout PROVE IInv'
  <2>1. TypeOK'
    BY <1>7 DEF RmTimeout, RmNext, TypeOK, Shape, Devs, useVars, devVars,
           lockVars, vfVars, fileVars, rmVars
  <2>2. Shape'
    BY <1>7 DEF RmTimeout, RmNext, TypeOK, Shape, useVars, devVars, lockVars,
           vfVars, fileVars, rmVars
  <2>3. DisableBalanced'
    BY <1>7, BalancedFrame DEF RmTimeout, RmNext, useVars, devVars, lockVars,
           vfVars, fileVars, rmVars
  <2> QED BY <2>1, <2>2, <2>3 DEF IInv
<1>8. ASSUME RmSriov PROVE IInv'
  <2>1. TypeOK'
    BY <1>8 DEF RmSriov, PortsToPF, TypeOK, Shape, Devs, useVars, devVars,
           lockVars, vfVars, fileVars, rmVars
  <2>2. Shape'
    BY <1>8 DEF RmSriov, PortsToPF, TypeOK, Shape, useVars, devVars,
           lockVars, vfVars, fileVars, rmVars
  <2>3. DisableBalanced'
    BY <1>8, BalancedFrame DEF RmSriov, PortsToPF, useVars, devVars,
           lockVars, vfVars, fileVars, rmVars
  <2> QED BY <2>1, <2>2, <2>3 DEF IInv
<1>9. ASSUME RmFme PROVE IInv'
  <2>1. TypeOK'
    BY <1>9 DEF RmFme, TypeOK, Shape, Devs, useVars, devVars, lockVars,
           vfVars, fileVars, rmVars
  <2>2. Shape'
    BY <1>9 DEF RmFme, TypeOK, Shape, useVars, devVars, lockVars, vfVars,
           fileVars, rmVars
  <2>3. DisableBalanced'
    BY <1>9, BalancedFrame DEF RmFme, useVars, devVars, lockVars, vfVars,
           fileVars, rmVars
  <2> QED BY <2>1, <2>2, <2>3 DEF IInv
<1>10. ASSUME NEW p \in Ports, RmPort(p) PROVE IInv'
  <2>1. TypeOK'
    BY <1>10 DEF RmPort, TypeOK, Shape, Devs, useVars, devVars, lockVars,
           vfVars, fileVars, rmVars
  <2>2. Shape'
    BY <1>10 DEF RmPort, TypeOK, Shape, useVars, devVars, lockVars, vfVars,
           fileVars, rmVars
  <2>3. DisableBalanced'
    BY <1>10, BalancedFrame DEF RmPort, useVars, devVars, lockVars, vfVars,
           fileVars, rmVars
  <2> QED BY <2>1, <2>2, <2>3 DEF IInv
<1>11. ASSUME RmLastChild PROVE IInv'
  <2>1. TypeOK'
    BY <1>11 DEF RmLastChild, TypeOK, Shape, Devs, useVars, devVars,
           lockVars, vfVars, fileVars, rmVars
  <2>2. Shape'
    BY <1>11 DEF RmLastChild, TypeOK, Shape, useVars, devVars, lockVars,
           vfVars, fileVars, rmVars
  <2>3. DisableBalanced'
    BY <1>11, BalancedFrame DEF RmLastChild, useVars, devVars, lockVars,
           vfVars, fileVars, rmVars
  <2> QED BY <2>1, <2>2, <2>3 DEF IInv
<1>12. ASSUME RmParent PROVE IInv'
  <2>1. TypeOK'
    BY <1>12 DEF RmParent, TypeOK, Shape, Devs, useVars, devVars, lockVars,
           vfVars, fileVars, rmVars
  <2>2. Shape'
    BY <1>12 DEF RmParent, TypeOK, Shape, useVars, devVars, lockVars, vfVars,
           fileVars, rmVars
  <2>3. DisableBalanced'
    BY <1>12, BalancedFrame DEF RmParent, useVars, devVars, lockVars, vfVars,
           fileVars, rmVars
  <2> QED BY <2>1, <2>2, <2>3 DEF IInv
<1>13. ASSUME RmDestroy PROVE IInv'
  <2>1. TypeOK'
    BY <1>13 DEF RmDestroy, TypeOK, Shape, Devs, useVars, devVars, lockVars,
           vfVars, fileVars, rmVars
  <2>2. Shape'
    BY <1>13 DEF RmDestroy, TypeOK, Shape, useVars, devVars, lockVars,
           vfVars, fileVars, rmVars
  <2>3. DisableBalanced'
    BY <1>13, BalancedFrame DEF RmDestroy, useVars, devVars, lockVars,
           vfVars, fileVars, rmVars
  <2> QED BY <2>1, <2>2, <2>3 DEF IInv
<1> QED
  BY <1>1, <1>2, <1>3, <1>4, <1>5, <1>6, <1>7, <1>8, <1>9,
     <1>10, <1>11, <1>12, <1>13 DEF Sriov, Remove

(* Every step of the system keeps the invariant.                           *)
LEMMA StepIInv == IInv /\ [Next]_vars => IInv'
<1>1. ASSUME IInv, Next PROVE IInv'
  BY <1>1, OpenCloseStep, PortWorkStep, ReconfigureStep, ConfigPortStep,
     PortStep, CardStep DEF Next
<1>2. ASSUME IInv, UNCHANGED vars PROVE IInv'
  BY <1>2 DEF IInv, TypeOK, Shape, DisableBalanced, PrHolds, ResetHolds,
     vars, useVars, devVars, lockVars, vfVars, fileVars, rmVars
<1> QED
  BY <1>1, <1>2

(* The inductive invariant holds in every reachable state.                 *)
THEOREM Invariance == Spec => []IInv
BY InitIInv, StepIInv, PTL DEF Spec

(* Every variable keeps its type; in particular disable_count, an unsigned *)
(* integer in the code, never wraps below zero.                            *)
THEOREM TypeCorrect == Spec => []TypeOK
<1>1. IInv => TypeOK
  BY DEF IInv
<1> QED
  BY <1>1, Invariance, PTL

(* disable_count counts who holds the port disabled, and the port is in    *)
(* reset exactly when somebody does.                                       *)
THEOREM DisableIsBalanced == Spec => []DisableBalanced
<1>1. IInv => DisableBalanced
  BY DEF IInv
<1> QED
  BY <1>1, Invariance, PTL

(* While fme_pr loads a bitstream the port is in reset, whatever resets,   *)
(* error clears, closes, assigns and removals happen meanwhile.            *)
THEOREM PrStaysInReset == Spec => []PrInReset
<1>1. IInv => PrInReset
  <2> SUFFICES ASSUME IInv, NEW h \in Handles, pc[h] = "pr_load"
               PROVE  ctl[arg[h]].sftrst
    BY DEF PrInReset
  <2>1. arg[h] \in Ports
    BY DEF IInv, Shape, PrPcs
  <2>2. PrHolds(arg[h])
    BY DEF PrHolds
  <2>3. ctl[arg[h]].disable_count > 0
    BY <2>1, <2>2, HeldIsDisabled DEF IInv
  <2> QED
    BY <2>1, <2>3 DEF IInv, DisableBalanced
<1> QED
  BY <1>1, Invariance, PTL
=============================================================================
