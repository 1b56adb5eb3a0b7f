---------------------------- MODULE AfuDmaProofs ----------------------------
(***************************************************************************)
(* Proofs about AfuDma.                                                    *)
(*                                                                         *)
(* Part 1: whatever the buffers are, and whatever fails half way, no page  *)
(* frame has fewer references than regions that hold it (PinsCover).       *)
(*                                                                         *)
(* Part 2: when no two buffers overlap, the search of the region tree is   *)
(* complete, the umsg base address always lies in a region that is marked  *)
(* in use and found again, and the last close leaves nothing behind.       *)
(***************************************************************************)
EXTENDS AfuDma, FiniteSetTheorems, TLAPS

USE DEF Frames

-----------------------------------------------------------------------------
(* Part 1: references to page frames.                                      *)

RegionUsers(f) == {r \in regions : f \in Pages(r)}
FileUsers(f) == {h \in Inflight : f \in Pages(arg[h])}

\* The part of the state PinsCover depends on, with the invariant.
PinInv ==
    /\ regions \subseteq Buffers
    /\ FileType
    /\ pins \in [Frames -> Int]
    /\ PinsCover

\* The two sets of users that Users counts are finite.
LEMMA UsersFinite ==
    ASSUME regions \subseteq Buffers, NEW f
    PROVE  /\ IsFiniteSet(RegionUsers(f)) /\ Cardinality(RegionUsers(f)) \in Nat
           /\ IsFiniteSet(FileUsers(f)) /\ Cardinality(FileUsers(f)) \in Nat
<1>1. RegionUsers(f) \in SUBSET Buffers
  BY DEF RegionUsers
<1>2. FileUsers(f) \in SUBSET Handles
  BY DEF FileUsers, Inflight
<1>3. IsFiniteSet(RegionUsers(f)) /\ IsFiniteSet(FileUsers(f))
  BY <1>1, <1>2, FS_Subset, BuffersAssumption, ActorsAssumption
<1> QED
  BY <1>3, FS_CardinalityType

\* Users counts the regions and the calls with the frame.
LEMMA UsersSplit ==
    ASSUME NEW f
    PROVE  Users(f) = Cardinality(RegionUsers(f)) + Cardinality(FileUsers(f))
BY DEF Users, RegionUsers, FileUsers

\* A step that leaves the users and does not lower a count keeps PinsCover.
LEMMA CoverKept ==
    ASSUME PinsCover, regions \subseteq Buffers, regions' \subseteq Buffers,
           pins \in [Frames -> Int], pins' \in [Frames -> Int],
           \A f \in Frames : /\ RegionUsers(f)' = RegionUsers(f)
                             /\ FileUsers(f)' = FileUsers(f)
                             /\ pins[f] <= pins'[f]
    PROVE  PinsCover'
<1> SUFFICES ASSUME NEW f \in Frames
             PROVE  pins'[f] >= Users(f)'
  BY DEF PinsCover
<1>1. Users(f)' = Users(f)
  BY DEF Users, RegionUsers, FileUsers
<1>2. pins[f] >= Users(f)
  BY DEF PinsCover
<1>3. Users(f) \in Nat
  BY UsersFinite, UsersSplit
<1> QED
  BY <1>1, <1>2, <1>3

\* A step that adds to each count at least what it adds to the users keeps
\* PinsCover.
LEMMA CoverStep ==
    ASSUME PinsCover, regions \subseteq Buffers, regions' \subseteq Buffers,
           pins \in [Frames -> Int], pins' \in [Frames -> Int],
           \A f \in Frames :
               Cardinality(RegionUsers(f)') + Cardinality(FileUsers(f)')
                 - Cardinality(RegionUsers(f)) - Cardinality(FileUsers(f))
               <= pins'[f] - pins[f]
    PROVE  PinsCover'
<1> SUFFICES ASSUME NEW f \in Frames
             PROVE  pins'[f] >= Users(f)'
  BY DEF PinsCover
<1>1. Users(f)' = Cardinality(RegionUsers(f)') + Cardinality(FileUsers(f)')
  BY DEF Users, RegionUsers, FileUsers
<1>2. /\ pins[f] >= Users(f)
      /\ Users(f) = Cardinality(RegionUsers(f)) + Cardinality(FileUsers(f))
  BY UsersSplit DEF PinsCover
<1>3. /\ Cardinality(RegionUsers(f)) \in Nat /\ Cardinality(FileUsers(f)) \in Nat
  BY UsersFinite
<1>4. RegionUsers(f)' \in SUBSET Buffers /\ FileUsers(f)' \in SUBSET Handles
  BY DEF RegionUsers, FileUsers, Inflight
<1>5. Cardinality(RegionUsers(f)') \in Nat /\ Cardinality(FileUsers(f)') \in Nat
  BY <1>4, FS_Subset, FS_CardinalityType, BuffersAssumption, ActorsAssumption
<1> QED
  BY <1>1, <1>2, <1>3, <1>5

\* What find returns is in the tree.
LEMMA FindInRegions ==
    ASSUME NEW iova, NEW size, NEW r \in Find(iova, size)
    PROVE  r \in regions
BY DEF Find, SearchPath

\* The first half of an unmap: the region moves from the tree to the call.
LEMMA RemoveCovers ==
    ASSUME PinInv, NEW h \in Handles, NEW iova, Remove(h, iova),
           pc[h] \in {"idle", "copy"}, owner[h] \in Procs,
           UNCHANGED <<pinVars, exited, umsg, owner>>
    PROVE  PinInv'
<1> PICK r \in Find(iova, 0) :
        /\ TreeErase(r) /\ UNCHANGED in_use
        /\ pc' = [pc EXCEPT ![h] = "unpin"]
        /\ arg' = [arg EXCEPT ![h] = r]
  BY DEF Remove
<1>1. r \in regions /\ r \in Buffers /\ regions' = regions \ {r}
  BY FindInRegions DEF PinInv, TreeErase
<1>2. regions' \subseteq Buffers /\ pins' \in [Frames -> Int] /\ pins' = pins
  BY <1>1 DEF PinInv, pinVars
<1>3. FileType'
  BY <1>1 DEF PinInv, FileType
<1>4. \A f \in Frames :
          Cardinality(RegionUsers(f)') + Cardinality(FileUsers(f)')
            - Cardinality(RegionUsers(f)) - Cardinality(FileUsers(f))
          <= pins'[f] - pins[f]
  <2> SUFFICES ASSUME NEW f \in Frames
               PROVE  Cardinality(RegionUsers(f)') + Cardinality(FileUsers(f)')
                        - Cardinality(RegionUsers(f)) - Cardinality(FileUsers(f))
                      <= 0
    BY <1>2 DEF PinInv
  <2>1. RegionUsers(f)' = RegionUsers(f) \ {r}
    BY <1>1 DEF RegionUsers
  <2>2. FileUsers(f)' = IF f \in Pages(r) THEN FileUsers(f) \cup {h}
                        ELSE FileUsers(f)
    BY DEF FileUsers, Inflight, PinInv, FileType
  <2>3. h \notin FileUsers(f) /\ (r \in RegionUsers(f) <=> f \in Pages(r))
    BY <1>1 DEF FileUsers, Inflight, RegionUsers
  <2>4. /\ IsFiniteSet(RegionUsers(f)) /\ Cardinality(RegionUsers(f)) \in Nat
        /\ IsFiniteSet(FileUsers(f)) /\ Cardinality(FileUsers(f)) \in Nat
    BY UsersFinite DEF PinInv
  <2>5. CASE f \in Pages(r)
    <3>1. Cardinality(RegionUsers(f)') = Cardinality(RegionUsers(f)) - 1
      BY <2>1, <2>3, <2>4, <2>5, FS_RemoveElement
    <3>2. Cardinality(FileUsers(f)') = Cardinality(FileUsers(f)) + 1
      BY <2>2, <2>3, <2>4, <2>5, FS_AddElement
    <3> QED
      BY <3>1, <3>2, <2>4
  <2>6. CASE f \notin Pages(r)
    <3>1. RegionUsers(f)' = RegionUsers(f) /\ FileUsers(f)' = FileUsers(f)
      BY <2>1, <2>2, <2>3, <2>6
    <3> QED
      BY <3>1, <2>4
  <2> QED
    BY <2>5, <2>6
<1>5. PinsCover'
  BY <1>2, <1>4, CoverStep DEF PinInv
<1> QED
  BY <1>2, <1>3, <1>5 DEF PinInv

\* Pinning: one more reference and one more call for every page.
LEMMA MapPinCovers ==
    ASSUME PinInv, NEW h \in Handles, NEW b \in Buffers, MapPin(h, b)
    PROVE  PinInv'
<1>1. /\ regions' = regions /\ pc[h] = "idle" /\ pins' = Pin(b)
      /\ pc' = [pc EXCEPT ![h] = "map"] /\ arg' = [arg EXCEPT ![h] = b]
      /\ owner' = owner /\ exited' = exited
  BY DEF MapPin, Calls, treeVars
<1>2. regions' \subseteq Buffers /\ pins' \in [Frames -> Int]
  BY <1>1 DEF PinInv, Pin
<1>3. FileType'
  BY <1>1 DEF PinInv, FileType
<1>4. \A f \in Frames :
          Cardinality(RegionUsers(f)') + Cardinality(FileUsers(f)')
            - Cardinality(RegionUsers(f)) - Cardinality(FileUsers(f))
          <= pins'[f] - pins[f]
  <2> TAKE f \in Frames
  <2>1. RegionUsers(f)' = RegionUsers(f)
    BY <1>1 DEF RegionUsers
  <2>2. FileUsers(f)' = IF f \in Pages(b) THEN FileUsers(f) \cup {h}
                        ELSE FileUsers(f)
    BY <1>1 DEF FileUsers, Inflight, PinInv, FileType
  <2>3. h \notin FileUsers(f)
    BY <1>1 DEF FileUsers, Inflight
  <2>4. /\ Cardinality(RegionUsers(f)) \in Nat
        /\ IsFiniteSet(FileUsers(f)) /\ Cardinality(FileUsers(f)) \in Nat
    BY UsersFinite DEF PinInv
  <2>5. pins'[f] = IF f \in Pages(b) THEN pins[f] + 1 ELSE pins[f]
    BY <1>1 DEF Pin
  <2>6. pins[f] \in Int
    BY DEF PinInv
  <2>7. CASE f \in Pages(b)
    <3>1. Cardinality(FileUsers(f)') = Cardinality(FileUsers(f)) + 1
      BY <2>2, <2>3, <2>4, <2>7, FS_AddElement
    <3> QED
      BY <3>1, <2>1, <2>4, <2>5, <2>6, <2>7
  <2>8. CASE f \notin Pages(b)
    BY <2>1, <2>2, <2>4, <2>5, <2>6, <2>8
  <2> QED
    BY <2>7, <2>8
<1>5. PinsCover'
  BY <1>2, <1>4, CoverStep DEF PinInv
<1> QED
  BY <1>2, <1>3, <1>5 DEF PinInv

\* Unpinning: one reference and one call less for every page.
LEMMA UnpinCovers ==
    ASSUME PinInv, NEW h \in Handles, UnpinRegion(h)
    PROVE  PinInv'
<1>1. /\ regions' = regions /\ pc[h] = "unpin" /\ pins' = Unpin(arg[h])
      /\ pc' = [pc EXCEPT ![h] = "idle"] /\ arg' = [arg EXCEPT ![h] = NONE]
      /\ owner' = owner /\ exited' = exited
  BY DEF UnpinRegion, Goto, treeVars
<1>2. regions' \subseteq Buffers /\ pins' \in [Frames -> Int]
  BY <1>1 DEF PinInv, Unpin
<1>3. FileType'
  BY <1>1 DEF PinInv, FileType
<1>4. \A f \in Frames :
          Cardinality(RegionUsers(f)') + Cardinality(FileUsers(f)')
            - Cardinality(RegionUsers(f)) - Cardinality(FileUsers(f))
          <= pins'[f] - pins[f]
  <2> TAKE f \in Frames
  <2>1. RegionUsers(f)' = RegionUsers(f)
    BY <1>1 DEF RegionUsers
  <2>2. FileUsers(f)' = FileUsers(f) \ {h}
    BY <1>1 DEF FileUsers, Inflight, PinInv, FileType
  <2>3. h \in FileUsers(f) <=> f \in Pages(arg[h])
    BY <1>1 DEF FileUsers, Inflight
  <2>4. /\ Cardinality(RegionUsers(f)) \in Nat
        /\ IsFiniteSet(FileUsers(f)) /\ Cardinality(FileUsers(f)) \in Nat
    BY UsersFinite DEF PinInv
  <2>5. pins'[f] = IF f \in Pages(arg[h]) THEN pins[f] - 1 ELSE pins[f]
    BY <1>1 DEF Unpin
  <2>6. pins[f] \in Int
    BY DEF PinInv
  <2>7. Cardinality(FileUsers(f)') = IF f \in Pages(arg[h])
                                     THEN Cardinality(FileUsers(f)) - 1
                                     ELSE Cardinality(FileUsers(f))
    BY <2>2, <2>3, <2>4, FS_RemoveElement
  <2> QED
    BY <2>1, <2>4, <2>5, <2>6, <2>7
<1>5. PinsCover'
  BY <1>2, <1>4, CoverStep DEF PinInv
<1> QED
  BY <1>2, <1>3, <1>5 DEF PinInv

\* afu_dma_region_add: the region moves from the call to the tree.
LEMMA MapAddCovers ==
    ASSUME PinInv, NEW h \in Handles, MapAdd(h)
    PROVE  PinInv'
<1> PICK b \in Buffers : b = arg[h]
  BY DEF PinInv, FileType, MapAdd
<1>1. /\ pc[h] = "map" /\ pins' = pins
      /\ owner' = owner /\ exited' = exited /\ arg' = arg
  BY DEF MapAdd, pinVars
<1>2. CASE AddRefused(b)
  <2>1. regions' = regions /\ pc' = [pc EXCEPT ![h] = "unpin"]
    BY <1>2 DEF MapAdd, treeVars
  <2>2. FileType'
    BY <1>1, <2>1 DEF PinInv, FileType
  <2>3. \A f \in Frames : /\ RegionUsers(f)' = RegionUsers(f)
                          /\ FileUsers(f)' = FileUsers(f)
                          /\ pins[f] <= pins'[f]
    BY <1>1, <2>1 DEF RegionUsers, FileUsers, Inflight, PinInv, FileType
  <2> QED
    BY <1>1, <2>1, <2>2, <2>3, CoverKept DEF PinInv
<1>3. CASE ~AddRefused(b)
  <2>1. regions' = regions \cup {b} /\ pc' = [pc EXCEPT ![h] = "copy"]
    BY <1>3 DEF MapAdd, TreeAdd
  <2>2. FileType'
    BY <1>1, <2>1 DEF PinInv, FileType
  <2>3. \A f \in Frames :
            Cardinality(RegionUsers(f)') + Cardinality(FileUsers(f)')
              - Cardinality(RegionUsers(f)) - Cardinality(FileUsers(f))
            <= pins'[f] - pins[f]
    <3> SUFFICES ASSUME NEW f \in Frames
                 PROVE  Cardinality(RegionUsers(f)') + Cardinality(FileUsers(f)')
                          - Cardinality(RegionUsers(f))
                          - Cardinality(FileUsers(f)) <= 0
      BY <1>1 DEF PinInv
    <3>1. FileUsers(f)' = FileUsers(f) \ {h}
      BY <1>1, <2>1 DEF FileUsers, Inflight, PinInv, FileType
    <3>2. h \in FileUsers(f) <=> f \in Pages(b)
      BY <1>1 DEF FileUsers, Inflight
    <3>3. RegionUsers(f)' = IF f \in Pages(b) THEN RegionUsers(f) \cup {b}
                            ELSE RegionUsers(f)
      BY <2>1 DEF RegionUsers
    <3>4. /\ IsFiniteSet(RegionUsers(f)) /\ Cardinality(RegionUsers(f)) \in Nat
          /\ IsFiniteSet(FileUsers(f)) /\ Cardinality(FileUsers(f)) \in Nat
      BY UsersFinite DEF PinInv
    <3>5. Cardinality(FileUsers(f)') = IF f \in Pages(b)
                                       THEN Cardinality(FileUsers(f)) - 1
                                       ELSE Cardinality(FileUsers(f))
      BY <3>1, <3>2, <3>4, FS_RemoveElement
    <3>6. CASE f \in Pages(b)
      <4>1. Cardinality(RegionUsers(f) \cup {b}) =
                IF b \in RegionUsers(f) THEN Cardinality(RegionUsers(f))
                ELSE Cardinality(RegionUsers(f)) + 1
        BY <3>4, FS_AddElement
      <4>2. RegionUsers(f)' = RegionUsers(f) \cup {b}
        BY <3>3, <3>6
      <4> QED
        BY <4>1, <4>2, <3>4, <3>5, <3>6
    <3>7. CASE f \notin Pages(b)
      BY <3>3, <3>4, <3>5, <3>7
    <3> QED
      BY <3>6, <3>7
  <2> QED
    BY <1>1, <2>1, <2>2, <2>3, CoverStep DEF PinInv
<1> QED
  BY <1>2, <1>3

\* The last close: no call is in progress, and each region is put once.
LEMMA CloseLastCovers ==
    ASSUME PinInv, NEW h \in Handles, CloseLast(h)
    PROVE  PinInv'
<1>1. /\ pc[h] = "idle" /\ Files = {h} /\ regions' = {}
      /\ pins' = [f \in Frames |-> pins[f] - Cardinality(RegionUsers(f))]
      /\ pc' = [pc EXCEPT ![h] = "closed"]
      /\ owner' = [owner EXCEPT ![h] = NONE]
      /\ exited' = {q \in exited : \E g \in Handles \ {h} : owner[g] = q}
      /\ arg' = arg
  BY DEF CloseLast, DestroyRegions, Closed, RegionUsers
<1>2. \A f \in Frames : Cardinality(RegionUsers(f)) \in Nat
  BY UsersFinite DEF PinInv
<1>3. regions' \subseteq Buffers /\ pins' \in [Frames -> Int]
  BY <1>1, <1>2 DEF PinInv
<1>4. FileType'
  BY <1>1 DEF PinInv, FileType
<1>5. \A f \in Frames :
          Cardinality(RegionUsers(f)') + Cardinality(FileUsers(f)')
            - Cardinality(RegionUsers(f)) - Cardinality(FileUsers(f))
          <= pins'[f] - pins[f]
  <2> TAKE f \in Frames
  <2>1. Inflight = {} /\ Inflight' = {}
    BY <1>1 DEF Inflight, Files, PinInv, FileType
  <2>2. RegionUsers(f)' = {} /\ FileUsers(f)' = {} /\ FileUsers(f) = {}
    BY <1>1, <2>1 DEF RegionUsers, FileUsers
  <2>3. pins'[f] = pins[f] - Cardinality(RegionUsers(f)) /\ pins[f] \in Int
    BY <1>1 DEF PinInv
  <2> QED
    BY <1>2, <2>2, <2>3, FS_EmptySet
<1>6. PinsCover'
  BY <1>3, <1>5, CoverStep DEF PinInv
<1> QED
  BY <1>3, <1>4, <1>6 DEF PinInv

\* A step that touches neither tree nor pins, and no call in progress.
LEMMA FrameCovers ==
    ASSUME PinInv, UNCHANGED <<regions, pins>>, FileType',
           \A h \in Handles : h \in Inflight' <=> h \in Inflight,
           \A h \in Inflight : arg'[h] = arg[h]
    PROVE  PinInv'
<1>1. \A f \in Frames : /\ RegionUsers(f)' = RegionUsers(f)
                        /\ FileUsers(f)' = FileUsers(f)
                        /\ pins[f] <= pins'[f]
  BY DEF RegionUsers, FileUsers, Inflight, PinInv
<1> QED
  BY <1>1, CoverKept DEF PinInv

\* Every step keeps PinInv.
LEMMA PinInvNext ==
    ASSUME PinInv, [Next]_vars
    PROVE  PinInv'
<1>1. ASSUME NEW h \in Handles, FileStep(h)
      PROVE  PinInv'
  <2>1. ASSUME NEW q \in Procs, OpenFile(h, q)
        PROVE  PinInv'
    BY <2>1, FrameCovers
       DEF OpenFile, Goto, Inflight, PinInv, FileType, treeVars, pinVars
  <2>2. CASE CloseNotLast(h)
    BY <2>2, FrameCovers
       DEF CloseNotLast, Closed, Inflight, PinInv, FileType, treeVars, pinVars
  <2>3. CASE CloseLast(h)
    BY <2>3, CloseLastCovers
  <2> QED
    BY <1>1, <2>1, <2>2, <2>3 DEF FileStep
<1>2. ASSUME NEW h \in Handles, DmaStep(h)
      PROVE  PinInv'
  <2>1. ASSUME NEW b \in Buffers, MapPin(h, b)
        PROVE  PinInv'
    BY <2>1, MapPinCovers
  <2>2. ASSUME NEW b \in Buffers, NEW n \in 1..(b.length - 1),
               MapShortPin(h, b, n)
        PROVE  PinInv'
    <3>1. /\ regions' = regions /\ UNCHANGED fileVars /\ exited' = exited
          /\ pins' = Pin([b EXCEPT !.length = n])
      BY <2>2 DEF MapShortPin, treeVars
    <3>2. FileType'
      BY <3>1 DEF PinInv, FileType, fileVars
    <3>3. pins' \in [Frames -> Int]
      BY <3>1 DEF Pin, PinInv
    <3>4. \A f \in Frames : pins[f] <= pins'[f]
      BY <3>1 DEF Pin, PinInv
    <3>5. \A f \in Frames : /\ RegionUsers(f)' = RegionUsers(f)
                            /\ FileUsers(f)' = FileUsers(f)
      BY <3>1 DEF RegionUsers, FileUsers, Inflight, fileVars
    <3> QED
      BY <3>1, <3>2, <3>3, <3>4, <3>5, CoverKept DEF PinInv
  <2>3. CASE MapFails(h)
    BY <2>3, FrameCovers
       DEF MapFails, Goto, Inflight, PinInv, FileType, treeVars, pinVars
  <2>4. CASE MapAdd(h)
    BY <2>4, MapAddCovers
  <2>5. CASE MapReturn(h)
    BY <2>5, FrameCovers
       DEF MapReturn, Goto, Inflight, PinInv, FileType, treeVars, pinVars
  <2>6. CASE MapCopyFails(h)
    <3>1. CASE Find(arg[h].iova, 0) \subseteq in_use
      BY <2>6, <3>1, FrameCovers
         DEF MapCopyFails, Inflight, PinInv, FileType, treeVars, pinVars
    <3>2. CASE ~(Find(arg[h].iova, 0) \subseteq in_use)
      <4>1. /\ Remove(h, arg[h].iova) /\ pc[h] = "copy"
            /\ UNCHANGED <<pinVars, exited, umsg, owner>>
        BY <2>6, <3>2 DEF MapCopyFails
      <4>2. owner[h] \in Procs
        BY <4>1 DEF PinInv, FileType
      <4> QED
        BY <4>1, <4>2, RemoveCovers
    <3> QED
      BY <3>1, <3>2
  <2>7. ASSUME NEW iova \in Frames, Unmap(h, iova)
        PROVE  PinInv'
    <3>1. /\ Remove(h, iova) /\ pc[h] = "idle"
          /\ UNCHANGED <<pinVars, exited, umsg, owner>>
      BY <2>7 DEF Unmap, Calls
    <3>2. owner[h] \in Procs
      BY <3>1 DEF PinInv, FileType
    <3> QED
      BY <3>1, <3>2, RemoveCovers
  <2>8. CASE UnpinRegion(h)
    BY <2>8, UnpinCovers
  <2> QED
    BY <1>2, <2>1, <2>2, <2>3, <2>4, <2>5, <2>6, <2>7, <2>8 DEF DmaStep
<1>3. ASSUME UNCHANGED <<regions, pins, exited, fileVars>>
      PROVE  PinInv'
  <2>1. FileType'
    BY <1>3 DEF PinInv, FileType, fileVars
  <2> QED
    BY <1>3, <2>1, FrameCovers DEF Inflight, fileVars
<1>4. ASSUME NEW h \in Handles, UmsgStep(h)
      PROVE  PinInv'
  BY <1>3, <1>4 DEF UmsgStep, UmsgEnable, UmsgDisable, UmsgSetBase,
                    UmsgClearBase, UmsgSetMode, treeVars, pinVars
<1>5. ASSUME NEW q \in Procs, Exit(q)
      PROVE  PinInv'
  BY <1>5, FrameCovers
     DEF Exit, Inflight, PinInv, FileType, treeVars, fileVars
<1>6. CASE HwUmsgInit
  BY <1>3, <1>6 DEF HwUmsgInit, treeVars, pinVars
<1>7. CASE UNCHANGED vars
  BY <1>3, <1>7 DEF vars, treeVars, pinVars
<1> QED
  BY <1>1, <1>2, <1>4, <1>5, <1>6, <1>7 DEF Next

\* No page frame a mapped region holds, or one a call is about to add or has
\* just taken out, is given back to the kernel by put_all_pages, for any
\* buffers and with every failure of pinning, mapping and copying.
THEOREM PinsAlwaysCover == Spec => []PinsCover
<1>1. Init => PinInv
  <2> SUFFICES ASSUME Init PROVE PinInv
    OBVIOUS
  <2>1. FileType /\ regions \subseteq Buffers /\ pins \in [Frames -> Int]
    BY DEF Init, FileType
  <2>2. \A f \in Frames : RegionUsers(f) = {} /\ FileUsers(f) = {}
    BY DEF Init, RegionUsers, FileUsers, Inflight
  <2>3. \A f \in Frames : Users(f) = 0
    BY <2>2, UsersSplit, FS_EmptySet
  <2> QED
    BY <2>1, <2>3 DEF PinInv, PinsCover, Init
<1>2. PinInv /\ [Next]_vars => PinInv'
  BY PinInvNext
<1>3. PinInv => PinsCover
  BY DEF PinInv
<1> QED
  BY <1>1, <1>2, <1>3, PTL DEF Spec

-----------------------------------------------------------------------------
(* Part 2: the region tree and the umsg base address.                      *)

\* No two buffers share a page: an IOMMU gives every live mapping iovas of its
\* own; without one, no process maps a part of a buffer a second time.
BuffersDisjoint ==
    \A a, b \in Buffers :
        a # b => a.iova + a.length <= b.iova \/ b.iova + b.length <= a.iova

\* The umsg registers; the bound on mode is not needed here.
RegistersType ==
    umsg \in [enable : BOOLEAN, init_complete : BOOLEAN,
              base : {0} \cup Frames, mode : Int]

\* The base address lies in a region that is marked.
Based ==
    umsg.base # 0 => \E r \in in_use : Contains(r, umsg.base, NumUmsgs)

UmsgInv == TreeType /\ FileType /\ RegistersType /\ Based /\ LastCloseCleans

\* 64-bit sums that do not wrap.
LEMMA SumSmall ==
    ASSUME NEW n \in Nat, n < AddrSpace
    PROVE  n % AddrSpace = n
BY SizesAssumption

\* A sum that passes the overflow check of afu_port_umsg_set_addr.
LEMMA SumChecked ==
    ASSUME NEW iova \in Frames, (iova + NumUmsgs) % AddrSpace >= iova
    PROVE  iova + NumUmsgs < AddrSpace
<1> SUFFICES ASSUME iova + NumUmsgs >= AddrSpace
             PROVE  FALSE
  BY SizesAssumption
<1>1. (iova + NumUmsgs) % AddrSpace = iova + NumUmsgs - AddrSpace
  BY SizesAssumption
<1> QED
  BY <1>1, SizesAssumption

\* The fields of a buffer are positive and their sum does not wrap.
LEMMA BufferFields ==
    ASSUME NEW b \in Buffers
    PROVE  /\ b.iova \in Nat /\ b.iova > 0 /\ b.length \in Nat /\ b.length > 0
           /\ b.iova + b.length < AddrSpace
BY BuffersAssumption

\* afu_dma_region_find is complete: a range inside a region is found, and what
\* is found is that region.
LEMMA FindsContainer ==
    ASSUME BuffersDisjoint, TreeType, NEW r \in regions, NEW iova \in Nat,
           Contains(r, iova, NumUmsgs)
    PROVE  Find(iova, NumUmsgs) = {r}
<1>1. /\ r \in Buffers /\ regions \subseteq Buffers
      /\ above[r] \subseteq regions \ {r}
  BY DEF TreeType
<1>2. /\ r.iova <= iova /\ iova + NumUmsgs <= r.iova + r.length
      /\ NumUmsgs \in Nat /\ NumUmsgs > 0 /\ iova + NumUmsgs < AddrSpace
  BY <1>1, BufferFields, SizesAssumption DEF Contains
<1>3. (iova + NumUmsgs) % AddrSpace = iova + NumUmsgs
  BY <1>2, SumSmall
<1>4. CheckIova(r, iova, NumUmsgs)
  BY <1>2, <1>3 DEF CheckIova
<1>5. r \in SearchPath(iova)
  <2>1. ASSUME NEW a \in above[r]
        PROVE  SameSide(r, iova, a)
    <3>1. a \in Buffers /\ a # r
      BY <1>1
    <3>2. r.iova + r.length <= a.iova \/ a.iova + a.length <= r.iova
      BY <1>1, <3>1 DEF BuffersDisjoint
    <3> QED
      BY <1>1, <1>2, <3>1, <3>2, BufferFields DEF SameSide
  <2> QED
    BY <2>1 DEF SearchPath
<1>6. ASSUME NEW t \in SearchPath(iova), CheckIova(t, iova, NumUmsgs)
      PROVE  t = r
  <2>1. t \in Buffers
    BY <1>1 DEF SearchPath
  <2>2. t.iova <= iova /\ iova + NumUmsgs <= t.iova + t.length
    BY <1>3, <1>6 DEF CheckIova
  <2> QED
    BY <1>1, <1>2, <2>1, <2>2, BufferFields DEF BuffersDisjoint
<1>7. {t \in SearchPath(iova) : CheckIova(t, iova, NumUmsgs)} = {r}
  BY <1>4, <1>5, <1>6
<1>8. above[r] \cap {r} = {}
  BY <1>1
<1> QED
  BY <1>7, <1>8 DEF Find

\* The invariant gives the three properties.
LEMMA UmsgInvImplies ==
    ASSUME BuffersDisjoint, UmsgInv
    PROVE  BaseFound /\ FindComplete /\ LastCloseCleans /\ BaseRegionKnown
<1>1. \A r \in in_use : r \in regions
  BY DEF UmsgInv, TreeType
<1>2. umsg.base \in Nat
  BY SizesAssumption DEF UmsgInv, RegistersType
<1>3. umsg.base # 0 =>
        \E r \in in_use : /\ Find(umsg.base, NumUmsgs) = {r}
                          /\ Contains(r, umsg.base, NumUmsgs)
  BY <1>1, <1>2, FindsContainer DEF UmsgInv, Based
<1>4. BaseFound /\ BaseRegionKnown
  BY <1>3 DEF BaseFound, BaseRegionKnown, RegionOfBaseLost
<1>5. FindComplete
  <2> SUFFICES ASSUME NEW r \in regions, NEW iova \in Pages(r),
                      iova + NumUmsgs <= r.iova + r.length
               PROVE  \E t \in Find(iova, NumUmsgs) : Contains(t, iova, NumUmsgs)
    BY DEF FindComplete
  <2>1. r \in Buffers
    BY DEF UmsgInv, TreeType
  <2>2. iova \in Nat /\ Contains(r, iova, NumUmsgs)
    BY <2>1, BufferFields DEF Pages, Contains
  <2> QED
    BY <2>2, FindsContainer DEF UmsgInv
<1> QED
  BY <1>4, <1>5 DEF UmsgInv

\* Whatever tree the kernel makes of some regions, what is above one of them
\* are others of them.
LEMMA TreesWellFormed ==
    ASSUME NEW S, NEW m, NEW t \in Rebalanced(S) \cup {Under(m, S)}
    PROVE  DOMAIN t = S /\ \A r \in S : t[r] \subseteq S \ {r}
<1>1. ASSUME NEW n, t = Under(n, S)
      PROVE  DOMAIN t = S /\ \A r \in S : t[r] \subseteq S \ {r}
  BY <1>1 DEF Under
<1>2. ASSUME t \in SearchTrees(S)
      PROVE  DOMAIN t = S /\ \A r \in S : t[r] \subseteq S \ {r}
  BY <1>2 DEF SearchTrees
<1> QED
  BY <1>1, <1>2 DEF Rebalanced

\* rb_erase keeps the tree well formed.
LEMMA EraseKeepsTree ==
    ASSUME TreeType, NEW b \in regions, b \notin in_use, TreeErase(b),
           UNCHANGED in_use
    PROVE  TreeType'
<1> DEFINE rest == regions \ {b}
<1>1. regions' = rest /\ rest \subseteq Buffers /\ in_use' \subseteq rest
  BY DEF TreeErase, TreeType
<1>2. \E m : above' \in Rebalanced(rest) \cup {Under(m, rest)}
  BY DEF TreeErase
<1>3. DOMAIN above' = rest /\ \A r \in rest : above'[r] \subseteq rest \ {r}
  BY <1>2, TreesWellFormed
<1> QED
  BY <1>1, <1>3 DEF TreeType

\* rb_insert_color keeps the tree well formed.
LEMMA AddKeepsTree ==
    ASSUME TreeType, NEW b \in Buffers, TreeAdd(b)
    PROVE  TreeType'
<1> DEFINE grown == regions \cup {b}
<1>1. regions' = grown /\ grown \subseteq Buffers /\ in_use' \subseteq grown
  BY DEF TreeAdd, TreeType
<1>2. \E m : above' \in Rebalanced(grown) \cup {Under(m, grown)}
  BY DEF TreeAdd
<1>3. DOMAIN above' = grown /\ \A r \in grown : above'[r] \subseteq grown \ {r}
  BY <1>2, TreesWellFormed
<1> QED
  BY <1>1, <1>3 DEF TreeType

\* A step that leaves tree and registers, and does not close the last file.
LEMMA FrameKeepsUmsg ==
    ASSUME UmsgInv, UNCHANGED <<treeVars, umsg>>, FileType',
           Files' = {} => Files = {}
    PROVE  UmsgInv'
BY DEF UmsgInv, TreeType, RegistersType, Based, LastCloseCleans, treeVars

\* Taking a region out that is not in use.
LEMMA RemoveKeepsUmsg ==
    ASSUME UmsgInv, NEW h \in Handles, NEW iova, Remove(h, iova),
           pc[h] \in {"idle", "copy"},
           UNCHANGED <<pinVars, exited, umsg, owner>>
    PROVE  UmsgInv'
<1> PICK r \in Find(iova, 0) :
        /\ r \notin in_use
        /\ TreeErase(r) /\ UNCHANGED in_use
        /\ pc' = [pc EXCEPT ![h] = "unpin"]
        /\ arg' = [arg EXCEPT ![h] = r]
  BY DEF Remove
<1>1. r \in regions /\ r \in Buffers
  BY FindInRegions DEF UmsgInv, TreeType
<1>2. TreeType'
  BY <1>1, EraseKeepsTree DEF UmsgInv
<1>3. FileType'
  BY <1>1 DEF UmsgInv, FileType
<1>4. Files' # {}
  BY DEF Files, UmsgInv, FileType
<1> QED
  BY <1>2, <1>3, <1>4
     DEF UmsgInv, RegistersType, Based, LastCloseCleans

\* A step that changes only the registers and the marks.
LEMMA UmsgStepKeeps ==
    ASSUME BuffersDisjoint, UmsgInv, NEW h \in Handles, UmsgStep(h)
    PROVE  UmsgInv'
<1>1. UNCHANGED <<regions, above, exited, fileVars>> /\ pc[h] = "idle"
  BY DEF UmsgStep, UmsgEnable, UmsgDisable, UmsgSetBase, UmsgClearBase,
         UmsgSetMode, Calls, treeVars
<1>2. FileType' /\ Files' # {}
  BY <1>1 DEF UmsgInv, FileType, Files, fileVars
<1>3. CASE UmsgEnable(h) \/ UmsgDisable(h)
  BY <1>1, <1>2, <1>3
     DEF UmsgEnable, UmsgDisable, UmsgInv, TreeType, RegistersType, Based,
         LastCloseCleans, treeVars
<1>4. ASSUME NEW mode \in Modes, UmsgSetMode(h, mode)
      PROVE  UmsgInv'
  <2>1. mode \in Int
    BY DEF Modes
  <2> QED
    BY <1>1, <1>2, <1>4, <2>1
       DEF UmsgSetMode, UmsgInv, TreeType, RegistersType, Based,
           LastCloseCleans, treeVars
<1>5. ASSUME NEW iova \in Frames, UmsgSetBase(h, iova)
      PROVE  UmsgInv'
  <2>1. PICK r \in Find(iova, NumUmsgs) : in_use' = in_use \cup {r}
    BY <1>5 DEF UmsgSetBase
  <2>2. r \in regions /\ r \in Buffers /\ CheckIova(r, iova, NumUmsgs)
    BY FindInRegions DEF Find, UmsgInv, TreeType
  <2>3. iova + NumUmsgs < AddrSpace
    BY <1>5, SumChecked DEF UmsgSetBase
  <2>4. (iova + NumUmsgs) % AddrSpace = iova + NumUmsgs
    BY <2>3, SumSmall, SizesAssumption
  <2>5. Contains(r, iova, NumUmsgs)
    BY <2>2, <2>4 DEF CheckIova, Contains
  <2>6. /\ umsg' = [umsg EXCEPT !.base = iova] /\ ~umsg.enable
        /\ iova # 0
    BY <1>5, SizesAssumption DEF UmsgSetBase
  <2>7. RegistersType' /\ umsg'.base = iova /\ ~umsg'.enable
    BY <2>6 DEF UmsgInv, RegistersType
  <2>8. Based'
    BY <2>1, <2>5, <2>7 DEF Based, Contains
  <2>9. TreeType'
    BY <1>1, <2>1, <2>2 DEF UmsgInv, TreeType
  <2> QED
    BY <1>2, <2>7, <2>8, <2>9 DEF UmsgInv, LastCloseCleans
<1>6. CASE UmsgClearBase(h)
  <2>1. in_use' \subseteq in_use /\ umsg' = [umsg EXCEPT !.base = 0]
        /\ ~umsg.enable
    BY <1>6 DEF UmsgClearBase
  <2>2. RegistersType' /\ umsg'.base = 0 /\ ~umsg'.enable
    BY <2>1 DEF UmsgInv, RegistersType
  <2>3. TreeType'
    BY <1>1, <2>1 DEF UmsgInv, TreeType
  <2> QED
    BY <1>2, <2>2, <2>3 DEF UmsgInv, Based, LastCloseCleans
<1> QED
  BY <1>3, <1>4, <1>5, <1>6 DEF UmsgStep

\* The last close: the region of the base address is found, so that the base
\* address is cleared before the regions go.
LEMMA CloseLastKeepsUmsg ==
    ASSUME BuffersDisjoint, UmsgInv, NEW h \in Handles, CloseLast(h)
    PROVE  UmsgInv'
<1>1. ~RegionOfBaseLost
  BY UmsgInvImplies DEF BaseRegionKnown
<1>2. umsg' = [umsg EXCEPT !.enable = FALSE, !.mode = 0,
                           !.base = IF RegionOfBaseLost THEN @ ELSE 0]
  BY DEF CloseLast, UmsgHalted
<1>3. /\ RegistersType' /\ umsg'.base = 0 /\ umsg'.mode = 0
      /\ umsg'.enable = FALSE
  <2>1. umsg \in [enable : BOOLEAN, init_complete : BOOLEAN,
                  base : {0} \cup Frames, mode : Int]
    BY DEF UmsgInv, RegistersType
  <2>2. umsg' = [enable |-> FALSE, init_complete |-> umsg.init_complete,
                 base |-> 0, mode |-> 0]
    BY <1>1, <1>2, <2>1
  <2> QED
    BY <2>1, <2>2 DEF RegistersType
<1>4. regions' = {} /\ above' = [r \in {} |-> {}] /\ in_use' = {}
  BY DEF CloseLast, DestroyRegions
<1>5. FileType'
  BY DEF CloseLast, Closed, UmsgInv, FileType
<1> QED
  BY <1>3, <1>4, <1>5 DEF UmsgInv, TreeType, Based, LastCloseCleans

\* Every step keeps UmsgInv.
LEMMA UmsgInvNext ==
    ASSUME BuffersDisjoint, UmsgInv, [Next]_vars
    PROVE  UmsgInv'
<1>1. ASSUME NEW h \in Handles, FileStep(h)
      PROVE  UmsgInv'
  <2>1. ASSUME NEW q \in Procs, OpenFile(h, q)
        PROVE  UmsgInv'
    <3>1. FileType' /\ Files' # {} /\ UNCHANGED <<treeVars, umsg>>
      BY <2>1 DEF OpenFile, Goto, UmsgInv, FileType, Files
    <3> QED
      BY <3>1, FrameKeepsUmsg
  <2>2. CASE CloseNotLast(h)
    <3>1. FileType' /\ UNCHANGED <<treeVars, umsg>>
      BY <2>2 DEF CloseNotLast, Closed, UmsgInv, FileType
    <3>2. Files' # {}
      BY <2>2 DEF CloseNotLast, Closed, UmsgInv, FileType, Files
    <3> QED
      BY <3>1, <3>2, FrameKeepsUmsg
  <2>3. CASE CloseLast(h)
    BY <2>3, CloseLastKeepsUmsg
  <2> QED
    BY <1>1, <2>1, <2>2, <2>3 DEF FileStep
<1>2. ASSUME NEW h \in Handles, DmaStep(h)
      PROVE  UmsgInv'
  <2>1. ASSUME UNCHANGED <<treeVars, umsg, owner, exited>>,
               pc'[h] # "closed", FileType'
        PROVE  UmsgInv'
    <3>1. Files' # {}
      BY <2>1 DEF Files
    <3> QED
      BY <2>1, <3>1, FrameKeepsUmsg
  <2>2. ASSUME NEW b \in Buffers, MapPin(h, b)
        PROVE  UmsgInv'
    BY <2>1, <2>2 DEF MapPin, Calls, UmsgInv, FileType
  <2>3. ASSUME NEW b \in Buffers, NEW n \in 1..(b.length - 1),
               MapShortPin(h, b, n)
        PROVE  UmsgInv'
    <3>1. pc[h] = "idle" /\ UNCHANGED <<treeVars, umsg, exited, pc, owner, arg>>
      BY <2>3 DEF MapShortPin, Calls, fileVars
    <3> QED
      BY <2>1, <3>1 DEF UmsgInv, FileType
  <2>4. CASE MapFails(h) \/ MapReturn(h) \/ UnpinRegion(h)
    BY <2>1, <2>4
       DEF MapFails, MapReturn, UnpinRegion, Goto, UmsgInv, FileType
  <2>5. CASE MapAdd(h)
    <3> PICK b \in Buffers : b = arg[h]
      BY <2>5 DEF UmsgInv, FileType, MapAdd
    <3>1. CASE AddRefused(b)
      BY <2>1, <2>5, <3>1 DEF MapAdd, UmsgInv, FileType
    <3>2. CASE ~AddRefused(b)
      <4>1. /\ pc[h] = "map" /\ TreeAdd(b) /\ pc' = [pc EXCEPT ![h] = "copy"]
            /\ UNCHANGED <<exited, umsg, owner, arg>>
        BY <2>5, <3>2 DEF MapAdd
      <4>2. TreeType' /\ in_use' = in_use
        BY <3>2, <4>1, AddKeepsTree DEF UmsgInv, TreeAdd
      <4>3. FileType' /\ Files' # {}
        BY <4>1 DEF UmsgInv, FileType, Files
      <4>4. umsg' = umsg
        BY <4>1
      <4>5. RegistersType' /\ Based'
        BY <4>2, <4>4 DEF UmsgInv, RegistersType, Based, Contains
      <4>6. LastCloseCleans'
        BY <4>3, <4>4 DEF UmsgInv, LastCloseCleans
      <4> QED
        BY <4>2, <4>3, <4>5, <4>6 DEF UmsgInv
    <3> QED
      BY <3>1, <3>2
  <2>6. CASE MapCopyFails(h)
    <3>1. CASE Find(arg[h].iova, 0) \subseteq in_use
      BY <2>1, <2>6, <3>1 DEF MapCopyFails, UmsgInv, FileType
    <3>2. CASE ~(Find(arg[h].iova, 0) \subseteq in_use)
      BY <2>6, <3>2, RemoveKeepsUmsg DEF MapCopyFails
    <3> QED
      BY <3>1, <3>2
  <2>7. ASSUME NEW iova \in Frames, Unmap(h, iova)
        PROVE  UmsgInv'
    BY <2>7, RemoveKeepsUmsg DEF Unmap, Calls
  <2> QED
    BY <1>2, <2>2, <2>3, <2>4, <2>5, <2>6, <2>7 DEF DmaStep
<1>3. ASSUME NEW h \in Handles, UmsgStep(h)
      PROVE  UmsgInv'
  BY <1>3, UmsgStepKeeps
<1>4. ASSUME NEW q \in Procs, Exit(q)
      PROVE  UmsgInv'
  <2>1. FileType' /\ Files' = Files /\ UNCHANGED <<treeVars, umsg>>
    BY <1>4 DEF Exit, UmsgInv, FileType, Files, fileVars
  <2> QED
    BY <2>1, FrameKeepsUmsg
<1>5. CASE HwUmsgInit
  <2>1. FileType' /\ Files' = Files /\ UNCHANGED treeVars
    BY <1>5 DEF HwUmsgInit, UmsgInv, FileType, Files, fileVars
  <2>2. /\ RegistersType' /\ umsg'.base = umsg.base
        /\ umsg'.enable = umsg.enable /\ umsg'.mode = umsg.mode
    BY <1>5 DEF HwUmsgInit, UmsgInv, RegistersType
  <2> QED
    BY <2>1, <2>2 DEF UmsgInv, TreeType, Based, LastCloseCleans, treeVars
<1>6. CASE UNCHANGED vars
  <2>1. FileType' /\ Files' = Files /\ UNCHANGED <<treeVars, umsg>>
    BY <1>6 DEF vars, UmsgInv, FileType, Files, fileVars
  <2> QED
    BY <2>1, FrameKeepsUmsg
<1> QED
  BY <1>1, <1>2, <1>3, <1>4, <1>5, <1>6 DEF Next

\* The initial state.
LEMMA UmsgInvInit == Init => UmsgInv
BY DEF Init, UmsgInv, TreeType, FileType, RegistersType, Based, LastCloseCleans,
       Files

\* With disjoint buffers the umsg engine only ever writes to a region that is
\* mapped, marked in use and found by afu_port_umsg_set_addr.
THEOREM BaseAlwaysFound == BuffersDisjoint => (Spec => []BaseFound)
<1> SUFFICES ASSUME BuffersDisjoint PROVE Spec => []BaseFound
  OBVIOUS
<1>1. UmsgInv /\ [Next]_vars => UmsgInv'
  BY UmsgInvNext
<1>2. UmsgInv => BaseFound
  BY UmsgInvImplies
<1> QED
  BY <1>1, <1>2, UmsgInvInit, PTL DEF Spec

\* With disjoint buffers afu_dma_region_find finds what its comment says.
THEOREM FindIsComplete == BuffersDisjoint => (Spec => []FindComplete)
<1> SUFFICES ASSUME BuffersDisjoint PROVE Spec => []FindComplete
  OBVIOUS
<1>1. UmsgInv /\ [Next]_vars => UmsgInv'
  BY UmsgInvNext
<1>2. UmsgInv => FindComplete
  BY UmsgInvImplies
<1> QED
  BY <1>1, <1>2, UmsgInvInit, PTL DEF Spec

\* With disjoint buffers the last afu_release leaves no region, base address,
\* mode or running engine behind.
THEOREM LastCloseAlwaysCleans == BuffersDisjoint => (Spec => []LastCloseCleans)
<1> SUFFICES ASSUME BuffersDisjoint PROVE Spec => []LastCloseCleans
  OBVIOUS
<1>1. UmsgInv /\ [Next]_vars => UmsgInv'
  BY UmsgInvNext
<1>2. UmsgInv => LastCloseCleans
  BY UmsgInvImplies
<1> QED
  BY <1>1, <1>2, UmsgInvInit, PTL DEF Spec
=============================================================================
