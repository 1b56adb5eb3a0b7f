------------------------------- MODULE AfuDma -------------------------------
(***************************************************************************)
(* The DMA regions and the user messages (umsg) of one port: dma-region.c  *)
(* and the umsg part of afu.c, with what the last close of the port undoes *)
(* (afu_release).                                                          *)
(*                                                                         *)
(* A buffer is user memory in consecutive page frames; addresses and       *)
(* lengths count pages.  Without an IOMMU the iova of a buffer is its      *)
(* physical address, so the set Buffers says which iovas dma_map_page can  *)
(* return; with an IOMMU the iovas of live regions are disjoint, and so    *)
(* are the Buffers.                                                        *)
(*                                                                         *)
(* An actor is a process at work on one of its open files.  Everything     *)
(* under pdata->lock is one step; pinning and unpinning are outside of it. *)
(* A call that returns an error before it changed anything is no step.     *)
(***************************************************************************)
EXTENDS Integers, FiniteSets, FiniteSetsExt, Functions

CONSTANTS
    Buffers,      \* what can be mapped: a set of [iova, length]
    Handles,      \* files of the port that may be opened
    Procs,        \* processes
    Privileged,   \* processes with CAP_IPC_LOCK
    NumUmsgs,     \* afu->num_umsgs
    AddrSpace,    \* number of pages a 64-bit address can tell apart
    LockLimit,    \* RLIMIT_MEMLOCK in pages
    NONE,
    MayFail,      \* get_user_pages_fast, dma_map_page, copy_to_user may fail
    MaxRegions,   \* bound: regions in the tree
    MaxShort,     \* bound: page frames lost by short pins
    MaxCharge     \* bound: pages a privileged process is charged for

ASSUME BuffersAssumption ==
    /\ IsFiniteSet(Buffers)
    /\ \A b \in Buffers :
          /\ b = [iova |-> b.iova, length |-> b.length]
          /\ b.iova \in Nat \ {0} /\ b.length \in Nat \ {0}
          /\ b.iova + b.length < AddrSpace
    /\ NONE \notin Buffers

ASSUME SizesAssumption ==
    /\ NumUmsgs \in 1..31 /\ AddrSpace \in Nat /\ NumUmsgs < AddrSpace
    /\ LockLimit \in Nat /\ MaxRegions \in Nat /\ MaxShort \in Nat
    /\ MaxCharge \in Nat /\ MayFail \in BOOLEAN

ASSUME ActorsAssumption ==
    /\ IsFiniteSet(Handles) /\ NONE \notin Handles \cup Procs
    /\ Privileged \subseteq Procs

VARIABLES
    regions,      \* the regions in the red-black tree afu->dma_regions
    above,        \* its shape: per region, the regions on the way to the root
    in_use,       \* regions marked in_use
    pins,         \* page references taken by get_user_pages_fast
    locked_vm,    \* per process: mm->locked_vm
    exited,       \* processes that exit: their mm is gone
    warned,       \* WARN_ON_ONCE of afu_dma_adjust_locked_vm has fired
    umsg,         \* the registers of the umsg feature
    pc, owner, arg \* per file: progress, process, region at work

treeVars == <<regions, above, in_use>>
pinVars  == <<pins, locked_vm, warned>>
fileVars == <<pc, owner, arg>>
vars == <<treeVars, pinVars, exited, umsg, fileVars>>

Frames == 1..(AddrSpace - 1)
Pages(b) == b.iova .. (b.iova + b.length - 1)
Files == {h \in Handles : pc[h] # "closed"}

Init ==
    /\ regions = {} /\ above = [r \in {} |-> {}] /\ in_use = {}
    /\ pins = [f \in Frames |-> 0]
    /\ locked_vm = [q \in Procs |-> 0]
    /\ exited = {}
    /\ warned = FALSE
    /\ umsg = [enable |-> FALSE, init_complete |-> FALSE, base |-> 0,
               mode |-> 0]
    /\ pc = [h \in Handles |-> "closed"]
    /\ owner = [h \in Handles |-> NONE]
    /\ arg = [h \in Handles |-> NONE]

-----------------------------------------------------------------------------
(* The red-black tree of the regions, ordered by iova.                     *)

\* Mutant: the range must end before the region does.
CheckIovaStrict(r, iova, size) ==
    /\ size = 0 => r.iova = iova
    /\ r.iova <= iova
    /\ (iova + size) % AddrSpace < r.iova + r.length

\* dma_region_check_iova; the sum is a 64-bit one.
CheckIova(r, iova, size) ==
    /\ size = 0 => r.iova = iova
    /\ r.iova <= iova
    /\ (iova + size) % AddrSpace <= r.iova + r.length

\* Regions r and a search for iova leave node a on the same side.
SameSide(r, iova, a) ==
    \/ iova < a.iova /\ r.iova < a.iova
    \/ iova > a.iova /\ r.iova > a.iova

\* The nodes a search for iova visits: at each one it goes on to the child on
\* the side of iova, and it stops where iova is that of the node.
SearchPath(iova) == {r \in regions : \A a \in above[r] : SameSide(r, iova, a)}

\* afu_dma_region_find: the first match on the path, as a set of at most one.
Find(iova, size) ==
    LET hits == {r \in SearchPath(iova) : CheckIova(r, iova, size)}
    IN  {r \in hits : above[r] \cap hits = {}}

\* afu_dma_region_add is refused: -EEXIST.
AddRefused(b) ==
    \E r \in SearchPath(b.iova) :
        CheckIova(r, b.iova, b.length) \/ r.iova = b.iova

Between(s, a, c) ==
    \/ a.iova <= s.iova /\ s.iova <= c.iova
    \/ c.iova <= s.iova /\ s.iova <= a.iova

\* The search trees of S.  Given a depth-first numbering of its nodes, one is
\* above another when it comes before all that lie between the two.
SearchTrees(S) ==
    {[r \in S |-> {a \in S \ {r} :
                    \A s \in S : Between(s, a, r) => p[a] <= p[s]}] :
        p \in Bijection(S, 1..Cardinality(S))}

\* The tree of S in which all the others are children of m.
Under(m, S) == [r \in S |-> (S \cap {m}) \ {r}]

\* The middle one of three regions, and the last of some.
Median(S) == CHOOSE m \in S : \E a, c \in S : a.iova < m.iova /\ m.iova < c.iova
Last(S) == CHOOSE r \in S : \A s \in S : s.iova <= r.iova
Root == CHOOSE r \in regions : above[r] = {}

\* How the tree of S may look once it is balanced: of three nodes the middle
\* one is the root, above that any search tree is taken to be possible.
Rebalanced(S) ==
    IF Cardinality(S) = 3 THEN {Under(Median(S), S)} ELSE SearchTrees(S)

\* rb_link_node and rb_insert_color: a second node goes below the first.
TreeAdd(b) ==
    LET grown == regions \cup {b} IN
    /\ regions' = grown
    /\ above' \in IF Cardinality(grown) = 2 THEN {Under(Root, grown)}
                 ELSE Rebalanced(grown)
    /\ UNCHANGED in_use

\* rb_erase: the root of three is replaced by its successor.
TreeErase(b) ==
    LET rest == regions \ {b} IN
    /\ regions' = rest
    /\ above' \in IF Cardinality(rest) = 2
                 THEN {Under(IF b = Root THEN Last(rest) ELSE Root, rest)}
                 ELSE Rebalanced(rest)

-----------------------------------------------------------------------------
(* Pinning and unpinning; the pages are charged to the calling process.    *)

Pin(b) == [f \in Frames |-> IF f \in Pages(b) THEN pins[f] + 1 ELSE pins[f]]
Unpin(b) == [f \in Frames |-> IF f \in Pages(b) THEN pins[f] - 1 ELSE pins[f]]

\* afu_dma_adjust_locked_vm gives npages back for process q.
Uncharge(q, npages) ==
    IF q \in exited THEN UNCHANGED <<locked_vm, warned>>
    ELSE /\ warned' = (warned \/ npages > locked_vm[q])
         /\ locked_vm' = [locked_vm EXCEPT ![q] =
                              IF npages > @ THEN 0 ELSE @ - npages]

Goto(h, from, to) == pc[h] = from /\ pc' = [pc EXCEPT ![h] = to]

\* Process q at work on file h calls into the driver.
Calls(h) == pc[h] = "idle" /\ owner[h] \notin exited

Inflight == {h \in Handles : pc[h] \in {"map", "unpin"}}

-----------------------------------------------------------------------------
(* Opening and closing.                                                    *)

\* afu_open.
OpenFile(h, q) ==
    /\ Goto(h, "closed", "idle") /\ q \notin exited
    /\ owner' = [owner EXCEPT ![h] = q]
    /\ UNCHANGED <<treeVars, pinVars, exited, umsg, arg>>

\* A process exits.  Its mm goes before its files are closed.
Exit(q) ==
    /\ q \notin exited
    /\ \E h \in Handles : owner[h] = q
    /\ \A h \in Handles : owner[h] = q => pc[h] = "idle"
    /\ exited' = exited \cup {q}
    /\ locked_vm' = [locked_vm EXCEPT ![q] = 0]
    /\ UNCHANGED <<treeVars, pins, warned, umsg, fileVars>>

\* File h is closed; a process with no file left that exits is gone, and
\* another may come in its place.
Closed(h) ==
    /\ pc' = [pc EXCEPT ![h] = "closed"]
    /\ owner' = [owner EXCEPT ![h] = NONE]
    /\ exited' = {q \in exited : \E g \in Handles \ {h} : owner[g] = q}
    /\ UNCHANGED arg

CloseNotLast(h) ==
    /\ pc[h] = "idle" /\ Files # {h}
    /\ Closed(h)
    /\ UNCHANGED <<treeVars, pinVars, umsg>>

\* afu_port_umsg_set_addr(0) is refused by WARN_ON(!dma_region).
RegionOfBaseLost == umsg.base # 0 /\ Find(umsg.base, NumUmsgs) = {}

\* Mutant: the base address is cleared before the engine is disabled, and so
\* not at all when it is enabled.
UmsgHaltedLate ==
    [umsg EXCEPT !.enable = FALSE, !.mode = 0,
                 !.base = IF umsg.enable \/ RegionOfBaseLost THEN @ ELSE 0]

\* afu_port_umsg_halt: disable, clear the base address, clear the mode.
UmsgHalted ==
    [umsg EXCEPT !.enable = FALSE, !.mode = 0,
                 !.base = IF RegionOfBaseLost THEN @ ELSE 0]

\* afu_dma_region_destroy: every region is unmapped and unpinned.
DestroyRegions(q) ==
    /\ regions' = {} /\ above' = [r \in {} |-> {}] /\ in_use' = {}
    /\ pins' = [f \in Frames |->
                  pins[f] - Cardinality({r \in regions : f \in Pages(r)})]
    /\ Uncharge(q, MapThenSumSet(LAMBDA r : r.length, regions))

\* The last afu_release: halt umsg, reset the port, drop all regions.
CloseLast(h) ==
    /\ pc[h] = "idle" /\ Files = {h}
    /\ umsg' = UmsgHalted
    /\ DestroyRegions(owner[h])
    /\ Closed(h)

-----------------------------------------------------------------------------
(* FPGA_PORT_DMA_MAP and FPGA_PORT_DMA_UNMAP.                              *)

\* afu_dma_adjust_locked_vm lets process q have npages more.
MayCharge(q, npages) ==
    \/ locked_vm[q] + npages <= LockLimit
    \/ q \in Privileged /\ locked_vm[q] + npages <= MaxCharge

\* afu_dma_pin_pages succeeds: charge and pin.
MapPin(h, b) ==
    /\ Calls(h) /\ pc' = [pc EXCEPT ![h] = "map"]
    /\ Cardinality(regions) + Cardinality({g \in Handles : pc[g] = "map"})
           < MaxRegions
    /\ MayCharge(owner[h], b.length)
    /\ locked_vm' = [locked_vm EXCEPT ![owner[h]] = @ + b.length]
    /\ pins' = Pin(b)
    /\ arg' = [arg EXCEPT ![h] = b]
    /\ UNCHANGED <<treeVars, warned, exited, umsg, owner>>

\* Frames that stay pinned for nobody.
Lost(f) == pins[f] - Cardinality({r \in regions : f \in Pages(r)})
                   - Cardinality({h \in Inflight : f \in Pages(arg[h])})

\* get_user_pages_fast pins only the first n pages: the array of pages is
\* freed and the charge given back, but the pages are not.
MapShortPin(h, b, n) ==
    /\ MayFail
    /\ Calls(h) /\ n < b.length
    /\ MayCharge(owner[h], b.length)
    /\ MapThenSumSet(Lost, Frames) + n <= MaxShort
    /\ pins' = Pin([b EXCEPT !.length = n])
    /\ UNCHANGED <<treeVars, locked_vm, warned, exited, umsg, fileVars>>

\* The pages are not contiguous, or dma_map_page fails.
MapFails(h) ==
    /\ MayFail
    /\ Goto(h, "map", "unpin")
    /\ UNCHANGED <<treeVars, pinVars, exited, umsg, owner, arg>>

\* afu_dma_region_add under pdata->lock.
MapAdd(h) ==
    /\ pc[h] = "map"
    /\ IF AddRefused(arg[h])
       THEN pc' = [pc EXCEPT ![h] = "unpin"] /\ UNCHANGED treeVars
       ELSE pc' = [pc EXCEPT ![h] = "copy"] /\ TreeAdd(arg[h])
    /\ UNCHANGED <<pinVars, exited, umsg, owner, arg>>

\* copy_to_user hands the iova to the caller.
MapReturn(h) ==
    /\ Goto(h, "copy", "idle")
    /\ arg' = [arg EXCEPT ![h] = NONE]
    /\ UNCHANGED <<treeVars, pinVars, exited, umsg, owner>>

\* The first part of afu_dma_unmap_region, under pdata->lock: a region that
\* starts at iova and is not in use is taken out of the tree.
Remove(h, iova) ==
    \E r \in Find(iova, 0) :
        /\ r \notin in_use
        /\ TreeErase(r) /\ UNCHANGED in_use
        /\ pc' = [pc EXCEPT ![h] = "unpin"]
        /\ arg' = [arg EXCEPT ![h] = r]

\* copy_to_user fails: the region that starts at the iova now is unmapped,
\* unless there is none or it is in use.
MapCopyFails(h) ==
    /\ MayFail
    /\ pc[h] = "copy"
    /\ IF Find(arg[h].iova, 0) \subseteq in_use
       THEN /\ pc' = [pc EXCEPT ![h] = "idle"]
            /\ arg' = [arg EXCEPT ![h] = NONE]
            /\ UNCHANGED treeVars
       ELSE Remove(h, arg[h].iova)
    /\ UNCHANGED <<pinVars, exited, umsg, owner>>

Unmap(h, iova) ==
    /\ Calls(h)
    /\ Remove(h, iova)
    /\ UNCHANGED <<pinVars, exited, umsg, owner>>

\* Mutant: only the first page is put.
UnpinFirst(h) ==
    /\ Goto(h, "unpin", "idle")
    /\ pins' = Unpin([arg[h] EXCEPT !.length = 1])
    /\ Uncharge(owner[h], arg[h].length)
    /\ arg' = [arg EXCEPT ![h] = NONE]
    /\ UNCHANGED <<treeVars, exited, umsg, owner>>

\* Mutant: one page too many is put.
UnpinBeyond(h) ==
    /\ Goto(h, "unpin", "idle")
    /\ pins' = Unpin([arg[h] EXCEPT !.length = @ + 1])
    /\ Uncharge(owner[h], arg[h].length)
    /\ arg' = [arg EXCEPT ![h] = NONE]
    /\ UNCHANGED <<treeVars, exited, umsg, owner>>

\* dma_unmap_page and afu_dma_unpin_pages, outside of the lock.
UnpinRegion(h) ==
    /\ Goto(h, "unpin", "idle")
    /\ pins' = Unpin(arg[h])
    /\ Uncharge(owner[h], arg[h].length)
    /\ arg' = [arg EXCEPT ![h] = NONE]
    /\ UNCHANGED <<treeVars, exited, umsg, owner>>

-----------------------------------------------------------------------------
(* User messages.                                                          *)

\* FPGA_PORT_UMSG_ENABLE.
UmsgEnable(h) ==
    /\ Calls(h) /\ umsg.base # 0 /\ ~umsg.enable
    /\ umsg' = [umsg EXCEPT !.enable = TRUE]
    /\ UNCHANGED <<treeVars, pinVars, exited, fileVars>>

\* FPGA_PORT_UMSG_DISABLE.
UmsgDisable(h) ==
    /\ Calls(h) /\ umsg.enable
    /\ umsg' = [umsg EXCEPT !.enable = FALSE]
    /\ UNCHANGED <<treeVars, pinVars, exited, fileVars>>

\* The engine follows the enable bit some time after.
HwUmsgInit ==
    /\ umsg.init_complete # umsg.enable
    /\ umsg' = [umsg EXCEPT !.init_complete = umsg.enable]
    /\ UNCHANGED <<treeVars, pinVars, exited, fileVars>>

\* Mutant: FPGA_PORT_UMSG_SET_BASE_ADDR without the overflow check.
UmsgSetBaseUnchecked(h, iova) ==
    /\ Calls(h) /\ ~umsg.enable
    /\ \E r \in Find(iova, NumUmsgs) : in_use' = in_use \cup {r}
    /\ umsg' = [umsg EXCEPT !.base = iova]
    /\ UNCHANGED <<regions, above, pinVars, exited, fileVars>>

\* FPGA_PORT_UMSG_SET_BASE_ADDR with an address.
UmsgSetBase(h, iova) ==
    /\ Calls(h) /\ ~umsg.enable
    /\ (iova + NumUmsgs) % AddrSpace >= iova
    /\ \E r \in Find(iova, NumUmsgs) : in_use' = in_use \cup {r}
    /\ umsg' = [umsg EXCEPT !.base = iova]
    /\ UNCHANGED <<regions, above, pinVars, exited, fileVars>>

\* FPGA_PORT_UMSG_SET_BASE_ADDR with address zero.
UmsgClearBase(h) ==
    /\ Calls(h) /\ ~umsg.enable /\ umsg.base # 0
    /\ \E r \in Find(umsg.base, NumUmsgs) : in_use' = in_use \ {r}
    /\ umsg' = [umsg EXCEPT !.base = 0]
    /\ UNCHANGED <<regions, above, pinVars, exited, fileVars>>

\* FPGA_PORT_UMSG_SET_MODE: one bit for every umsg.
UmsgSetMode(h, mode) ==
    /\ Calls(h) /\ mode \div 2^NumUmsgs = 0
    /\ umsg' = [umsg EXCEPT !.mode = mode]
    /\ UNCHANGED <<treeVars, pinVars, exited, fileVars>>

-----------------------------------------------------------------------------
Modes == 0..(2^(NumUmsgs + 1) - 1)

FileStep(h) ==
    \/ \E q \in Procs : OpenFile(h, q)
    \/ CloseNotLast(h)
    \/ CloseLast(h)

DmaStep(h) ==
    \/ \E b \in Buffers : MapPin(h, b)
    \/ \E b \in Buffers : \E n \in 1..(b.length - 1) : MapShortPin(h, b, n)
    \/ MapFails(h)
    \/ MapAdd(h)
    \/ MapReturn(h)
    \/ MapCopyFails(h)
    \/ \E iova \in Frames : Unmap(h, iova)
    \/ UnpinRegion(h)

UmsgStep(h) ==
    \/ UmsgEnable(h)
    \/ UmsgDisable(h)
    \/ \E iova \in Frames : UmsgSetBase(h, iova)
    \/ UmsgClearBase(h)
    \/ \E mode \in Modes : UmsgSetMode(h, mode)

Next ==
    \/ \E h \in Handles : FileStep(h) \/ DmaStep(h) \/ UmsgStep(h)
    \/ \E q \in Procs : Exit(q)
    \/ HwUmsgInit

Spec == Init /\ [][Next]_vars

-----------------------------------------------------------------------------
(* Properties.                                                             *)

TreeType ==
    /\ regions \subseteq Buffers /\ in_use \subseteq regions
    /\ DOMAIN above = regions
    /\ \A r \in regions : above[r] \subseteq regions \ {r}

UmsgType ==
    umsg \in [enable : BOOLEAN, init_complete : BOOLEAN,
              base : {0} \cup Frames, mode : 0..(2^NumUmsgs - 1)]

FileType ==
    /\ exited \subseteq Procs
    /\ pc \in [Handles -> {"closed", "idle", "map", "copy", "unpin"}]
    /\ owner \in [Handles -> Procs \cup {NONE}]
    /\ arg \in [Handles -> Buffers \cup {NONE}]
    /\ \A h \in Handles : /\ pc[h] # "closed" => owner[h] \in Procs
                          /\ pc[h] \in {"map", "copy", "unpin"}
                                => arg[h] \in Buffers

\* Every variable has its type; what is above a region are other regions.
TypeOK ==
    /\ TreeType /\ UmsgType /\ FileType
    /\ pins \in [Frames -> Nat]
    /\ locked_vm \in [Procs -> Nat]
    /\ warned \in BOOLEAN

Contains(r, iova, size) == r.iova <= iova /\ iova + size <= r.iova + r.length

\* What the umsg engine writes to is, as long as its base address is set, a
\* live region that nobody can unmap, and the driver can still find it when
\* the base is to be cleared (WARN_ON(!dma_region), afu.c:681).
BaseFound ==
    umsg.base # 0 =>
        \E r \in Find(umsg.base, NumUmsgs) :
            r \in in_use /\ Contains(r, umsg.base, NumUmsgs)

\* WARN_ON(!dma_region) in afu_port_umsg_set_addr: the region of the base
\* address is found when it is to be unmarked.
BaseRegionKnown == ~RegionOfBaseLost

\* The comment of afu_dma_region_find: with a size it finds the region that
\* contains the range, for every range that some region contains.
FindComplete ==
    \A r \in regions : \A iova \in Pages(r) :
        iova + NumUmsgs <= r.iova + r.length =>
            \E s \in Find(iova, NumUmsgs) : Contains(s, iova, NumUmsgs)

\* After the last close no region is mapped and the engine is off, without a
\* base address and a mode; while it is on it has a base address.
LastCloseCleans ==
    /\ Files = {} => /\ regions = {} /\ in_use = {}
                     /\ umsg.base = 0 /\ umsg.mode = 0 /\ ~umsg.enable
    /\ umsg.enable => umsg.base # 0

Users(f) == Cardinality({r \in regions : f \in Pages(r)})
              + Cardinality({h \in Inflight : f \in Pages(arg[h])})

\* A page frame is pinned at least once for every region with it that is in
\* the tree, on its way in or on its way out: no page is freed under the
\* device.
PinsCover == \A f \in Frames : pins[f] >= Users(f)

\* And no page is lost, except by a short pin: whatever fails, the frames
\* pinned for nobody are those that short pins have left behind.
OnlyShortPinsLose == MapThenSumSet(Lost, Frames) <= MaxShort

\* The pages all processes are charged for, and those that are pinned for a
\* region in the tree, on its way in or on its way out.
Charged == MapThenSumSet(LAMBDA q : locked_vm[q], Procs)
Held == MapThenSumSet(LAMBDA r : r.length, regions)
        + MapThenSumSet(LAMBDA h : arg[h].length, Inflight)

\* No call gives back the charge of pages a region still holds, whichever process
\* makes it and whatever fails.  It keeps the charge of pages it releases only
\* if it gives them back for another process than was charged and that one
\* has not so much (WARN_ON_ONCE), or if it has no mm any more.
ChargesFollowPages ==
    exited' \subseteq exited =>
        /\ Charged' - Held' >= Charged - Held
        /\ Charged' - Held' > Charged - Held => warned' \/ exited # {}

\* Nobody without CAP_IPC_LOCK is charged beyond RLIMIT_MEMLOCK.
WithinLimit == \A q \in Procs \ Privileged : locked_vm[q] <= LockLimit

\* Pages and their charge are accounted for, whatever fails and however the
\* calls of several processes interleave.
PagesAccounted ==
    [][ChargesFollowPages /\ OnlyShortPinsLose' /\ WithinLimit']_vars

\* WARN_ON_ONCE(npages > current->mm->locked_vm): nobody gives back more
\* than it has been charged.
ChargeNeverShort == ~warned

\* The comment of port_umsg_enable, "Each time umsg engine enabled/disabled,
\* driver polls the init_complete bit for confirmation": the base address is
\* changed only when the engine has come to rest.
UmsgConfirmed == [][umsg'.base # umsg.base => ~umsg.init_complete]_vars
=============================================================================
