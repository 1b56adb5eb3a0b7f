----------------------------- MODULE AfuRegions -----------------------------
(***************************************************************************)
(* The MMIO regions of a port (region.c) and how users map them            *)
(* (afu_mmap in afu.c).  Regions are laid out one after the other in the   *)
(* offset space of the device file, each rounded up to whole pages; a user *)
(* asks for the offset and size of a region by index and maps by offset.   *)
(*                                                                         *)
(* Regions live until the device is destroyed, which FeatureInit models.   *)
(* The hardware places regions on page boundaries.  The kernel calls       *)
(* afu_mmap with a page-aligned offset and a positive number of pages      *)
(* whose sum does not exceed the range of file offsets.                    *)
(***************************************************************************)
EXTENDS Integers

CONSTANTS Indices,    \* region indices, FPGA_PORT_INDEX_UAFU and _STP
          Resources,  \* [phys, size] of regions, sizes in bytes
          PAGE_SIZE,
          MaxPages    \* file offsets users map, in pages

ASSUME PageAssumption == PAGE_SIZE \in Nat \ {0}

ASSUME ResourceAssumption ==
  \A r \in Resources : /\ r.size \in Nat \ {0}
                       /\ r.phys \in Nat /\ r.phys % PAGE_SIZE = 0

ASSUME MaxPagesAssumption == MaxPages \in Nat

VARIABLES regions,           \* afu->regions
          region_cur_offset,
          maps               \* the mapping made last, if any

vars == <<regions, region_cur_offset, maps>>

PageDown(x) == (x \div PAGE_SIZE) * PAGE_SIZE
PAGE_ALIGN(x) == ((x + PAGE_SIZE - 1) \div PAGE_SIZE) * PAGE_SIZE

\* afu_region_init
Init ==
  /\ regions = {}
  /\ region_cur_offset = 0
  /\ maps = {}

\* afu_region_add: an index that exists is refused.  Both callers allow
\* reading, writing and mapping.
afu_region_add(i, res) ==
  /\ \A r \in regions : r.index # i
  /\ regions' = regions \cup {[index |-> i, size |-> res.size, phys |-> res.phys,
                               offset |-> region_cur_offset]}
  /\ region_cur_offset' = region_cur_offset + PAGE_ALIGN(res.size)
  /\ UNCHANGED maps

\* Mutant: only the start of the range is compared.
CoversStart(r, off, size) == r.offset <= off /\ r.offset + r.size >= off

\* afu_get_region_by_offset finds a region that covers the range.
Covers(r, off, size) == r.offset <= off /\ r.offset + r.size >= off + size

afu_mmap(off, size) ==
  \E r \in regions :
    /\ Covers(r, off, size)
    /\ maps' = {[off |-> off, size |-> size,
                  phys |-> PageDown(r.phys + (off - r.offset))]}
    /\ UNCHANGED <<regions, region_cur_offset>>

Pages == {n * PAGE_SIZE : n \in 0..MaxPages}

Next ==
  \/ \E i \in Indices, res \in Resources : afu_region_add(i, res)
  \/ \E off \in Pages, size \in Pages \ {0} : afu_mmap(off, size)

Spec == Init /\ [][Next]_vars

----------------------------------------------------------------------------
(* Properties *)

\* The offset ranges of two regions never overlap, whatever their sizes.
Disjoint ==
  \A r, s \in regions :
    r # s => (r.offset + r.size <= s.offset \/ s.offset + s.size <= r.offset)

\* A mapping whose offset lies in the range the driver reported for a region
\* shows that region, at that distance from its start and not beyond its end:
\* rounding up the layout and shifting out the page offset lose nothing.
MapsItsRegion ==
  \A m \in maps, r \in regions :
    (r.offset <= m.off /\ m.off < r.offset + r.size) =>
      /\ m.phys = r.phys + (m.off - r.offset)
      /\ m.phys + m.size <= r.phys + r.size
=============================================================================
