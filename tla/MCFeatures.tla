---------------------------- MODULE MCFeatures -----------------------------
(***************************************************************************)
(* Enumerating the features of cards, and initialising and removing the    *)
(* drivers of the features of a device.  The first runs in the PCIe        *)
(* driver, the second in the drivers of the devices it has made; a         *)
(* behaviour exercises one of them: `part' names it.                       *)
(***************************************************************************)
EXTENDS Integers, Sequences, SequencesExt

CONSTANTS c1, c2, u1, u2, NONE

VARIABLES
    part,
    layout, pc, list, listPos, feature_dev, added, regions, ids, table,
    vec_cnt, resets,
    dev, phase, pos, step, held, ops, priv, cdev, lock, user

listVars == <<layout, pc, list, listPos, feature_dev, added, regions, ids,
              table, vec_cnt, resets>>
initVars == <<dev, phase, pos, step, held, ops, priv, cdev, lock, user>>
vars     == <<part, listVars, initVars>>

-----------------------------------------------------------------------------
Fiu(id, at, afu, mmio) == [t |-> "fiu", id |-> id, at |-> at, size |-> 2,
                           afu |-> afu, mmio |-> mmio, vecs |-> 0]
Priv(id, at, vecs) == [t |-> "private", id |-> id, at |-> at, size |-> 1,
                       afu |-> 0, mmio |-> 0, vecs |-> vecs]
Afu(at) == [t |-> "afu", id |-> "afu", at |-> at, size |-> 1, afu |-> 0,
            mmio |-> 0, vecs |-> 0]
Other(at) == [t |-> "other", id |-> "other", at |-> at, size |-> 1, afu |-> 0,
              mmio |-> 0, vecs |-> 0]
Lists(ls) == [lists |-> ls]

\* An FME with two ports, one without an AFU; a VF; and lists that are wrong:
\* a feature and a port that do not fit, a feature without a device, an AFU
\* without a size, and two FMEs.
Whole == Lists(<< <<Fiu("fme", 0, 3, 0), Priv("error", 4, 1), Other(5),
                    Priv("new", 6, 0)>>,
                  <<Fiu("port", 0, 4, 3), Priv("error", 3, 9)>>,
                  <<Fiu("port", 2, 0, 0), Priv("uint", 5, 2)>> >>)
Small == Lists(<< <<Fiu("fme", 0, 0, 0)>>, <<Fiu("port", 0, 0, 2), Afu(4)>> >>)
Vf == Lists(<< <<Fiu("port", 0, 3, 3), Priv("uint", 2, 2)>> >>)
Wrong == { Lists(<< <<Fiu("fme", 0, 0, 0), Priv("error", 8, 1)>> >>),
           Lists(<< <<Fiu("fme", 0, 0, 0)>>, <<Fiu("port", 7, 0, 2)>> >>),
           Lists(<< <<Priv("error", 0, 0)>> >>),
           Lists(<< <<Afu(0)>> >>),
           Lists(<< <<Fiu("port", 0, 3, 0)>> >>),
           Lists(<< <<Fiu("fme", 0, 0, 0), Fiu("fme", 4, 0, 0)>> >>) }
AllFaults == {"mem", "add", "alloc", "id", "pdata", "res"}

One == INSTANCE FeatureList WITH
    Cards <- {c1}, Layouts <- {Whole, Small, Vf} \cup Wrong, pos <- listPos,
    Supported <- {"error", "uint"}, BarLen <- 8, VecCount <- 4,
    Faults <- AllFaults
Two == INSTANCE FeatureList WITH
    Cards <- {c1, c2}, Layouts <- {Small, Vf}, pos <- listPos,
    Supported <- {"error", "uint"}, BarLen <- 8, VecCount <- 4,
    Faults <- AllFaults

-----------------------------------------------------------------------------
PortTable ==
    <<"port_hdr", "port_afu", "port_err", "port_umsg", "port_uint",
      "port_stp", "port_iopll">>
FmeTable ==
    <<"fme_hdr", "thermal_mgmt", "power_mgmt", "global_error", "pr_mgmt",
      "global_iperf", "hssi_mgmt", "global_dperf", "qspi_flash", "emif",
      "pac_hssi_mgmt", "s10_sdm", "avmmi_bmc">>

Device(features, revision, options, users) ==
    [table |-> features, revision |-> revision, thresholds |-> options,
     iommu |-> options, users |-> users]

\* Two revisions of a port, and an FME with all features and one without the
\* global errors.
Drv == INSTANCE FeatureInit WITH
    Users <- {u1, u2},
    Devices <- {Device(PortTable, 0, FALSE, {u1, u2}),
                Device(PortTable, 1, FALSE, {u1}),
                Device(FmeTable, 0, FALSE, {u1}),
                Device(SelectSeq(FmeTable, LAMBDA f : f # "global_error"),
                       0, TRUE, {u1, u2})}

-----------------------------------------------------------------------------
Init ==
    /\ part \in {"list", "list_two", "drivers"}
    /\ CASE part = "list" -> One!Init
         [] part = "list_two" -> Two!Init
         [] OTHER -> One!Init /\ layout[c1] = Vf
    /\ Drv!Init /\ (part # "drivers" => dev.table = FmeTable)

Next ==
    \/ part = "list" /\ One!Next /\ UNCHANGED <<part, initVars>>
    \/ part = "list_two" /\ Two!Next /\ UNCHANGED <<part, initVars>>
    \/ part = "drivers" /\ Drv!Next /\ UNCHANGED <<part, listVars>>

\* The fairness of FeatureInit.
Spec ==
    /\ Init /\ [][Next]_vars
    /\ SF_initVars(part = "drivers" /\ Drv!Uinit)
    /\ \A u \in {u1, u2} :
         /\ SF_initVars(part = "drivers" /\ Drv!LockedIn(u))
         /\ WF_initVars(part = "drivers" /\ Drv!Leave(u))

-----------------------------------------------------------------------------
(* Properties, made of those stated and explained in the module of each     *)
(* part.                                                                    *)

\* A card that is bound has one device per list of headers, as described.  When
\* another card is probed at the same time this excludes the size of the AFU and
\* the interrupts, but no two devices share an id, and every device holds the
\* one it has.
DevicesRight ==
    /\ part = "list" => One!DevicesAsDescribed
    /\ part = "list_two" => Two!PlacesAsDescribed /\ Two!IdsHeld

\* A card or a device whose probe failed, or that was removed, leaves nothing
\* behind, and no thread is inside an attribute of a feature that was left.  The
\* one probe that does neither is that of a port which is reset although its
\* header registers could not be set up: it ends in an oops.
NothingLeft ==
    /\ part = "list" => One!NothingLeft
    /\ part = "list_two" => Two!NothingLeft
    /\ Drv!NothingLeft
    /\ Drv!CallbacksEnd

\* Unbinding a device comes to an end, whoever uses its attributes, or waits for
\* ever in the uinit of the global errors for a thread that waits for its lock.
RemoveReturns == Drv!RemoveReturns
=============================================================================
