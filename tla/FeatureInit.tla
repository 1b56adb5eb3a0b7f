---------------------------- MODULE FeatureInit ----------------------------
(***************************************************************************)
(* Binding and unbinding the drivers of a port and of the FME: probe and   *)
(* remove (afu.c, fme-main.c), the loops over the features of the device   *)
(* (feature-dev.c) and the init and uinit of every feature, any step of    *)
(* which may fail, while users are inside attributes of the device.        *)
(*                                                                         *)
(* A feature is described by the resources its init acquires, in order,    *)
(* those it gives back itself when a later step fails, and those its uinit *)
(* gives back, in order.  Capabilities, counts and register settings that  *)
(* live in the device's private data go away with it and are left out.     *)
(* The kernel removes an attribute once no thread is inside it any more.   *)
(***************************************************************************)
EXTENDS Integers, Sequences, SequencesExt, TLC

CONSTANTS Devices,    \* kinds of devices
          Users,      \* threads that use attributes
          NONE

VARIABLES dev,        \* the device: the features it has, in driver table order
                      \* (table), revision of its header, whether temperature
                      \* thresholds and an IOMMU are supported, who uses it
          phase,      \* of the driver core's thread
          pos, step,  \* feature and step of its init or uinit it is at
          held,       \* resources held, as <<feature, resource>>
          ops,        \* features whose ops are set
          priv, cdev, \* private data exists, device file registered
          lock,       \* owner of pdata->lock
          user        \* per user: the attribute it is inside, and whether
                      \* it has been granted the lock yet

vars == <<dev, phase, pos, step, held, ops, priv, cdev, lock, user>>

Feature(init, undo, uinit) == [init |-> init, undo |-> undo, uinit |-> uinit]

\* A feature that only creates and destroys one thing, or nothing.
Single(r) == Feature(<<r>>, {}, <<r>>)
Nothing   == Feature(<<>>, {}, <<>>)

----------------------------------------------------------------------------
(* Features of a port *)

port_hdr ==
  Feature(IF dev.revision > 0 THEN <<"attrs">> ELSE <<"attrs", "userclk">>,
          {"attrs"}, <<"userclk", "attrs">>)

\* Mutant: the attributes are not removed.
port_afu_stays == Feature(<<"region", "attrs">>, {}, <<>>)

\* The region stays until the device is destroyed.
port_afu == Feature(<<"region", "attrs">>, {}, <<"attrs">>)
port_err == Single("attrs")
port_umsg == Nothing
port_uint == Nothing
port_stp == Feature(<<"region">>, {}, <<>>)
port_iopll == Single("subdev")

----------------------------------------------------------------------------
(* Features of the FME *)

fme_hdr == Single("attrs")

thermal_mgmt ==
  Feature(IF dev.thresholds THEN <<"attrs", "thresholds">> ELSE <<"attrs">>,
          {"attrs"}, <<"thresholds", "attrs">>)

power_mgmt == Single("attrs")
global_error == Feature(<<"device", "attrs">>, {"device"}, <<"attrs", "device">>)

pr_mgmt == Feature(<<"manager", "attrs">>, {"manager"}, <<"attrs", "manager">>)

\* The performance objects form a tree whose children are destroyed first.
global_iperf ==
  LET iommu == IF dev.iommu THEN <<"iommu", "afu0">> ELSE <<>>
      tree == <<"iperf">> \o iommu \o <<"fabric", "port0">>
  IN Feature(tree, ToSet(tree), Reverse(tree))

global_dperf ==
  LET tree == <<"dperf", "fabric", "port0">>
  IN Feature(tree, ToSet(tree), Reverse(tree))

hssi_mgmt == Nothing
qspi_flash == Single("subdev")
emif == Single("attrs")
pac_hssi_mgmt == Single("subdev")
s10_sdm == Nothing
avmmi_bmc == Single("subdev")

\* port_feature_drvs and fme_feature_drvs
port_feature_drvs ==
  [port_hdr |-> port_hdr, port_afu |-> port_afu, port_err |-> port_err,
   port_umsg |-> port_umsg, port_uint |-> port_uint, port_stp |-> port_stp,
   port_iopll |-> port_iopll]

fme_feature_drvs ==
  [fme_hdr |-> fme_hdr, thermal_mgmt |-> thermal_mgmt,
   power_mgmt |-> power_mgmt, global_error |-> global_error,
   pr_mgmt |-> pr_mgmt, global_iperf |-> global_iperf,
   hssi_mgmt |-> hssi_mgmt, global_dperf |-> global_dperf,
   qspi_flash |-> qspi_flash, emif |-> emif,
   pac_hssi_mgmt |-> pac_hssi_mgmt, s10_sdm |-> s10_sdm,
   avmmi_bmc |-> avmmi_bmc]

\* Features that are tested before they are initialised.
Tested == {"port_hdr", "port_err", "port_umsg", "port_stp"}

\* Uinit of the global errors holds pdata->lock while it removes attributes.
LocksInUinit == {"global_error"}

\* Attributes whose store or show takes pdata->lock.
LockingAttrs ==
  {<<"port_hdr", "attrs">>, <<"port_hdr", "userclk">>, <<"port_afu", "attrs">>,
   <<"port_err", "attrs">>, <<"thermal_mgmt", "thresholds">>,
   <<"power_mgmt", "attrs">>, <<"global_error", "attrs">>,
   <<"global_iperf", "iperf">>, <<"global_iperf", "iommu">>,
   <<"global_iperf", "afu0">>, <<"global_iperf", "fabric">>,
   <<"global_iperf", "port0">>, <<"global_dperf", "port0">>,
   <<"global_dperf", "fabric">>}

Drivers == port_feature_drvs @@ fme_feature_drvs

----------------------------------------------------------------------------
Driver == "driver"
Out == [attr |-> NONE, locked |-> FALSE]

Init ==
  /\ dev \in Devices
  /\ phase = "unbound" /\ pos = 1 /\ step = 0
  /\ held = {} /\ ops = {}
  /\ priv = FALSE /\ cdev = FALSE
  /\ lock = NONE
  /\ user = [u \in Users |-> Out]

feat == dev.table[pos]
More == pos <= Len(dev.table)

\* The thread that removed an attribute waits for those inside it.
Drained == \A u \in Users : user[u].attr # NONE => user[u].attr \in held

Driving(p) == phase = p /\ Drained

\* afu_dev_init, fme_dev_init; without memory the probe ends here
DevInit ==
  /\ Driving("unbound")
  /\ phase' = "init" /\ pos' = 1 /\ step' = 0
  /\ priv' = TRUE
  /\ UNCHANGED <<dev, held, ops, cdev, lock, user>>

StartUinit == phase' = "uinit" /\ pos' = 1 /\ step' = 0

\* feature_instance_init
TestFails ==
  /\ Driving("init") /\ More /\ step = 0
  /\ feat \in Tested
  /\ StartUinit
  /\ UNCHANGED <<dev, held, ops, priv, cdev, lock, user>>

Acquire ==
  /\ Driving("init") /\ More /\ step < Len(Drivers[feat].init)
  /\ held' = held \cup {<<feat, Drivers[feat].init[step + 1]>>}
  /\ step' = step + 1
  /\ UNCHANGED <<dev, phase, pos, ops, priv, cdev, lock, user>>

AcquireFails ==
  /\ Driving("init") /\ More /\ step < Len(Drivers[feat].init)
  /\ held' = held \ {<<feat, r>> : r \in Drivers[feat].undo}
  /\ StartUinit
  /\ UNCHANGED <<dev, ops, priv, cdev, lock, user>>

Initialised ==
  /\ Driving("init") /\ More /\ step = Len(Drivers[feat].init)
  /\ ops' = ops \cup {feat}
  /\ pos' = pos + 1 /\ step' = 0
  /\ UNCHANGED <<dev, phase, held, priv, cdev, lock, user>>

\* fpga_register_dev_ops
Register ==
  /\ Driving("init") /\ ~More
  /\ cdev' = TRUE
  /\ phase' = "bound"
  /\ UNCHANGED <<dev, pos, step, held, ops, priv, lock, user>>

RegisterFails ==
  /\ Driving("init") /\ ~More
  /\ StartUinit
  /\ UNCHANGED <<dev, held, ops, priv, cdev, lock, user>>

\* afu_remove, fme_remove
Unbind ==
  /\ Driving("bound")
  /\ StartUinit
  /\ UNCHANGED <<dev, held, ops, priv, cdev, lock, user>>

\* Mutant: the list does not advance.
UinitSkipAgain ==
  /\ Driving("uinit") /\ More /\ feat \notin ops
  /\ UNCHANGED vars

\* fpga_dev_feature_uinit: only features with ops
UinitSkip ==
  /\ Driving("uinit") /\ More /\ feat \notin ops
  /\ pos' = pos + 1
  /\ UNCHANGED <<dev, phase, step, held, ops, priv, cdev, lock, user>>

HasLock == feat \in LocksInUinit => lock = Driver

UinitLock ==
  /\ Driving("uinit") /\ More /\ feat \in ops
  /\ ~HasLock
  /\ lock = NONE
  /\ lock' = Driver
  /\ UNCHANGED <<dev, phase, pos, step, held, ops, priv, cdev, user>>

Release ==
  /\ Driving("uinit") /\ More /\ feat \in ops
  /\ HasLock
  /\ step < Len(Drivers[feat].uinit)
  /\ held' = held \ {<<feat, Drivers[feat].uinit[step + 1]>>}
  /\ step' = step + 1
  /\ UNCHANGED <<dev, phase, pos, ops, priv, cdev, lock, user>>

UinitDone ==
  /\ Driving("uinit") /\ More /\ feat \in ops
  /\ HasLock
  /\ step = Len(Drivers[feat].uinit)
  /\ ops' = ops \ {feat}
  /\ lock' = IF feat \in LocksInUinit THEN NONE ELSE lock
  /\ pos' = pos + 1 /\ step' = 0
  /\ UNCHANGED <<dev, phase, held, priv, cdev, user>>

\* fpga_unregister_dev_ops, if registered, then afu_dev_destroy, which frees
\* the regions, or fme_dev_destroy
Regions == {h \in held : h[2] = "region"}

Destroy ==
  /\ Driving("uinit") /\ ~More
  /\ lock = NONE
  /\ cdev' = FALSE
  /\ priv' = FALSE
  /\ held' = held \ Regions
  /\ phase' = "unbound" /\ pos' = 1
  /\ UNCHANGED <<dev, step, ops, lock, user>>

----------------------------------------------------------------------------
(* Users of attributes *)

Enter(u) ==
  /\ u \in dev.users /\ user[u] = Out
  /\ \E a \in held \cap LockingAttrs : user' = [user EXCEPT ![u].attr = a]
  /\ UNCHANGED <<dev, phase, pos, step, held, ops, priv, cdev, lock>>

LockedIn(u) ==
  /\ user[u].attr # NONE /\ ~user[u].locked
  /\ lock = NONE
  /\ lock' = u
  /\ user' = [user EXCEPT ![u].locked = TRUE]
  /\ UNCHANGED <<dev, phase, pos, step, held, ops, priv, cdev>>

Leave(u) ==
  /\ user[u].locked
  /\ lock' = NONE
  /\ user' = [user EXCEPT ![u] = Out]
  /\ UNCHANGED <<dev, phase, pos, step, held, ops, priv, cdev>>

Uinit == UinitSkip \/ UinitLock \/ Release \/ UinitDone \/ Destroy

Next ==
  \/ DevInit \/ TestFails \/ Acquire \/ AcquireFails \/ Initialised
  \/ Register \/ RegisterFails \/ Unbind
  \/ UinitSkip \/ UinitLock \/ Release \/ UinitDone \/ Destroy
  \/ \E u \in Users : Enter(u) \/ LockedIn(u) \/ Leave(u)

Spec == Init /\ [][Next]_vars

\* The driver core's thread and threads inside attributes are scheduled, and
\* the mutex is handed to a thread that waits for it.
FairSpec ==
  /\ Spec
  /\ SF_vars(Uinit)
  /\ \A u \in Users : SF_vars(LockedIn(u)) /\ WF_vars(Leave(u))

----------------------------------------------------------------------------
(* Properties *)

\* Whatever step failed, a device that is not bound holds no resource, has no
\* ops set and no private data: it can be probed again.
NothingLeft ==
  phase = "unbound" => held = {} /\ ops = {} /\ ~priv /\ ~cdev

\* No thread is inside an attribute of a feature after the uinit of the
\* feature, or its failed init, has been left; nor without the private data.
CallbacksEnd ==
  \A u \in Users : (user[u].attr # NONE /\ Drained) =>
    /\ priv
    /\ user[u].attr[1] \in ops \/ (More /\ user[u].attr[1] = feat)

\* The uinit of the global errors waits, with the lock, for a thread inside
\* one of their attributes that waits for the lock.
Stuck ==
  /\ lock = Driver
  /\ \E u \in Users : /\ user[u].attr = <<"global_error", "attrs">>
                       /\ user[u].attr \notin held /\ ~user[u].locked

\* Unbinding comes to an end, whoever uses the attributes of the device, but
\* for the one deadlock of global_error_uinit.
RemoveReturns == (phase = "uinit") ~> (phase = "unbound" \/ Stuck)
=============================================================================
