------------------------- MODULE PortFeaturesProofs -------------------------
(***************************************************************************)
(* The features of a port work as PortFeatures states, for any users,      *)
(* regions, errors, vectors and eventfds.  The parts share no variables:   *)
(* each has its own inductive invariant, RegInv, ErrInv and IrqInv.        *)
(***************************************************************************)
EXTENDS PortFeatures, FiniteSetTheorems, TLAPS

-----------------------------------------------------------------------------
(* The regions of afu_region_add and their mappings.                       *)

\* Rounding up never falls short and gives a multiple of the page size.
LEMMA AlignUp ==
  ASSUME NEW x \in Nat
  PROVE  /\ PAGE_ALIGN(x) \in Nat
         /\ PAGE_ALIGN(x) >= x
         /\ PAGE_ALIGN(x) % PAGE_SIZE = 0
  <1> DEFINE q == (x + PAGE_SIZE - 1) \div PAGE_SIZE
  <1>1. q \in Nat /\ PAGE_SIZE \in Nat \ {0}
    BY PageAssumption
  <1>2. x + PAGE_SIZE - 1 = PAGE_SIZE * q + ((x + PAGE_SIZE - 1) % PAGE_SIZE)
    BY PageAssumption
  <1>3. (x + PAGE_SIZE - 1) % PAGE_SIZE \in 0..(PAGE_SIZE - 1)
    BY PageAssumption
  <1>4. q * PAGE_SIZE \in Nat /\ q * PAGE_SIZE = PAGE_SIZE * q
    BY <1>1
  <1>5. (q * PAGE_SIZE) % PAGE_SIZE = 0
    BY <1>1
  <1> QED
    BY <1>1, <1>2, <1>3, <1>4, <1>5 DEF PAGE_ALIGN

\* Whole pages are not changed by rounding down.
LEMMA AlignedDown ==
  ASSUME NEW x \in Nat, x % PAGE_SIZE = 0
  PROVE  PageDown(x) = x
  BY PageAssumption DEF PageDown

\* Sums and differences of whole pages are whole pages.
LEMMA AlignedSum ==
  ASSUME NEW x \in Nat, NEW y \in Nat, x % PAGE_SIZE = 0, y % PAGE_SIZE = 0
  PROVE  (x + y) % PAGE_SIZE = 0 /\ (x >= y => (x - y) % PAGE_SIZE = 0)
  <1> DEFINE a == x \div PAGE_SIZE
             b == y \div PAGE_SIZE
  <1>1. a \in Nat /\ b \in Nat /\ PAGE_SIZE \in Nat \ {0}
    BY PageAssumption
  <1>2. x = PAGE_SIZE * a /\ y = PAGE_SIZE * b
    BY PageAssumption
  <1>3. \A k \in Int : (PAGE_SIZE * k) % PAGE_SIZE = 0
    BY PageAssumption
  <1>4. x + y = PAGE_SIZE * (a + b) /\ x - y = PAGE_SIZE * (a - b)
    <2> HIDE DEF a, b
    <2> QED BY <1>1, <1>2
  <1>5. a + b \in Int /\ a - b \in Int
    BY <1>1
  <1> QED
    BY <1>3, <1>4, <1>5

\* The page at the distance of one offset from another behind an address.
LEMMA AlignedPlace ==
  ASSUME NEW p \in Nat, NEW x \in Nat, NEW y \in Nat, x >= y,
         p % PAGE_SIZE = 0, x % PAGE_SIZE = 0, y % PAGE_SIZE = 0
  PROVE  PageDown(p + (x - y)) = p + (x - y)
  <1> DEFINE d == x - y
  <1>1. d \in Nat
    OBVIOUS
  <1>2. d % PAGE_SIZE = 0
    BY AlignedSum
  <1> HIDE DEF d
  <1>3. p + d \in Nat
    BY <1>1
  <1>4. (p + d) % PAGE_SIZE = 0
    BY <1>1, <1>2, AlignedSum
  <1>5. PageDown(p + d) = p + d
    BY <1>3, <1>4, AlignedDown
  <1> QED
    BY <1>5 DEF d

----------------------------------------------------------------------------
\* What a region and a mapping look like between calls.
RegionOK(r, top) ==
  /\ r.offset \in Nat /\ r.offset % PAGE_SIZE = 0
  /\ r.size \in Nat \ {0}
  /\ r.phys \in Nat /\ r.phys % PAGE_SIZE = 0
  /\ r.offset + r.size <= top

MapOK(m) ==
  /\ m.off \in Nat /\ m.size \in Nat \ {0}
  /\ \E r \in regions : /\ Covers(r, m.off, m.size)
                         /\ m.phys = r.phys + (m.off - r.offset)

\* The next region starts on a page behind all others.
RegInv ==
  /\ region_cur_offset \in Nat /\ region_cur_offset % PAGE_SIZE = 0
  /\ \A r \in regions : RegionOK(r, region_cur_offset)
  /\ Disjoint
  /\ \A m \in maps : MapOK(m)

\* No region has been added and none is mapped.
LEMMA RegInit == Init => RegInv
  BY PageAssumption DEF Init, RegInv, Disjoint

\* afu_region_add keeps the layout in order.
LEMMA AddKept ==
  ASSUME RegInv, NEW i \in Indices, NEW res \in Resources, afu_region_add(i, res)
  PROVE  RegInv'
  <1> DEFINE new == [index |-> i, size |-> res.size, phys |-> res.phys,
                     offset |-> region_cur_offset]
  <1>1. res.size \in Nat \ {0} /\ res.phys \in Nat /\ res.phys % PAGE_SIZE = 0
    BY ResourceAssumption
  <1>2. /\ PAGE_ALIGN(res.size) \in Nat /\ PAGE_ALIGN(res.size) >= res.size
        /\ PAGE_ALIGN(res.size) % PAGE_SIZE = 0
    BY <1>1, AlignUp
  <1>3. /\ region_cur_offset' = region_cur_offset + PAGE_ALIGN(res.size)
        /\ regions' = regions \cup {new} /\ maps' = maps
    BY DEF afu_region_add
  <1>4. region_cur_offset' \in Nat /\ region_cur_offset' % PAGE_SIZE = 0
    <2>1. region_cur_offset \in Nat /\ region_cur_offset % PAGE_SIZE = 0
      BY DEF RegInv
    <2>2. region_cur_offset + PAGE_ALIGN(res.size) \in Nat
      BY <2>1, <1>2
    <2>3. (region_cur_offset + PAGE_ALIGN(res.size)) % PAGE_SIZE = 0
      BY <2>1, <1>2, AlignedSum
    <2> QED BY <2>2, <2>3, <1>3
  <1>5. \A r \in regions' : RegionOK(r, region_cur_offset')
    <2>1. ASSUME NEW r \in regions PROVE RegionOK(r, region_cur_offset')
      <3>1. RegionOK(r, region_cur_offset) /\ region_cur_offset \in Nat
        BY DEF RegInv
      <3> QED BY <3>1, <1>2, <1>3 DEF RegionOK
    <2>2. RegionOK(new, region_cur_offset')
      <3>1. region_cur_offset \in Nat /\ region_cur_offset % PAGE_SIZE = 0
        BY DEF RegInv
      <3> QED BY <3>1, <1>1, <1>2, <1>3 DEF RegionOK
    <2> QED BY <2>1, <2>2, <1>3
  <1>6. Disjoint'
    <2> SUFFICES ASSUME NEW r \in regions', NEW s \in regions', r # s
                 PROVE  \/ r.offset + r.size <= s.offset
                        \/ s.offset + s.size <= r.offset
      BY DEF Disjoint
    <2>1. CASE r \in regions /\ s \in regions
      BY <2>1 DEF RegInv, Disjoint
    <2>2. CASE r \in regions /\ s = new
      BY <2>2 DEF RegInv, RegionOK
    <2>3. CASE r = new /\ s \in regions
      BY <2>3 DEF RegInv, RegionOK
    <2> QED BY <2>1, <2>2, <2>3, <1>3
  <1>7. \A m \in maps' : MapOK(m)'
    BY <1>3 DEF RegInv, MapOK, Covers
  <1> QED
    BY <1>4, <1>5, <1>6, <1>7 DEF RegInv

\* afu_mmap maps the range of the region it found.
LEMMA MmapKept ==
  ASSUME RegInv, NEW off \in Pages, NEW size \in Pages \ {0}, afu_mmap(off, size)
  PROVE  RegInv'
  <1>1. /\ off \in Nat /\ off % PAGE_SIZE = 0
        /\ size \in Nat \ {0}
    <2>1. \A k \in Nat : k * PAGE_SIZE \in Nat /\ (k * PAGE_SIZE) % PAGE_SIZE = 0
      BY PageAssumption
    <2>2. (\E k \in Nat : off = k * PAGE_SIZE) /\ (\E k \in Nat : size = k * PAGE_SIZE)
      BY MaxPagesAssumption DEF Pages
    <2> QED BY <2>1, <2>2
  <1>2. PICK r \in regions :
          /\ Covers(r, off, size)
          /\ maps' = {[off |-> off, size |-> size,
                       phys |-> PageDown(r.phys + (off - r.offset))]}
          /\ UNCHANGED <<regions, region_cur_offset>>
    BY DEF afu_mmap
  <1>3. RegionOK(r, region_cur_offset)
    BY DEF RegInv
  <1>4. PageDown(r.phys + (off - r.offset)) = r.phys + (off - r.offset)
    <2>1. /\ r.phys \in Nat /\ r.offset \in Nat /\ off >= r.offset
          /\ r.phys % PAGE_SIZE = 0 /\ r.offset % PAGE_SIZE = 0
      BY <1>1, <1>2, <1>3 DEF Covers, RegionOK
    <2> QED BY <1>1, <2>1, AlignedPlace
  <1>5. \A m \in maps' : MapOK(m)'
    BY <1>1, <1>2, <1>4 DEF MapOK, Covers
  <1>6. /\ region_cur_offset' \in Nat /\ region_cur_offset' % PAGE_SIZE = 0
        /\ \A x \in regions' : RegionOK(x, region_cur_offset')
        /\ Disjoint'
    BY <1>2 DEF RegInv, RegionOK, Disjoint
  <1> QED
    BY <1>5, <1>6 DEF RegInv

\* The other parts of the port leave the regions alone.
LEMMA RegRests == RegInv /\ UNCHANGED regVars => RegInv'
  BY DEF RegInv, RegionOK, MapOK, Covers, Disjoint, regVars

\* The invariant holds in every reachable state.
LEMMA RegInvHolds == FeatSpec => []RegInv
  <1>1. FeatInit => RegInv
    BY RegInit DEF FeatInit
  <1>2. RegInv /\ Next => RegInv'
    BY AddKept, MmapKept DEF Next
  <1>3. RegInv /\ [FeatNext]_allVars => RegInv'
    BY <1>2, RegRests DEF FeatNext, allVars
  <1> QED
    BY <1>1, <1>3, PTL DEF FeatSpec

\* For every page size, every number of regions and every size they have, the
\* layout of afu_region_add gives regions disjoint ranges of offsets.
THEOREM RegionsDisjoint == FeatSpec => []Disjoint
  <1>1. RegInv => Disjoint
    BY DEF RegInv
  <1> QED
    BY RegInvHolds, <1>1, PTL

\* For all of these, a mapping afu_mmap makes at an offset within a region
\* shows that region at the same distance from its start and ends within it.
THEOREM MappingsShowTheirRegion == FeatSpec => []MapsItsRegion
  <1>1. RegInv => MapsItsRegion
    <2> SUFFICES ASSUME RegInv, NEW m \in maps, NEW s \in regions,
                        s.offset <= m.off, m.off < s.offset + s.size
                 PROVE  /\ m.phys = s.phys + (m.off - s.offset)
                        /\ m.phys + m.size <= s.phys + s.size
      BY DEF MapsItsRegion
    <2>1. MapOK(m) /\ RegionOK(s, region_cur_offset)
      BY DEF RegInv
    <2>2. PICK r \in regions : /\ Covers(r, m.off, m.size)
                               /\ m.phys = r.phys + (m.off - r.offset)
      BY <2>1 DEF MapOK
    <2>3. RegionOK(r, region_cur_offset)
      BY DEF RegInv
    <2>4. r = s
      BY <2>1, <2>2, <2>3 DEF RegInv, Disjoint, RegionOK, MapOK, Covers
    <2> QED
      BY <2>1, <2>2, <2>4 DEF RegionOK, MapOK, Covers
  <1> QED
    BY RegInvHolds, <1>1, PTL

-----------------------------------------------------------------------------
(* The error registers and the interrupt vectors.  Their proofs are mostly *)
(* about sets and Booleans, so Zenon is the default from here on.          *)

USE ZenonT(30)

(* The places of a clear at which the errors are masked, and those between *)
(* the clearing of the two registers.                                      *)
Masked  == {"read", "write", "read_first", "write_first", "unmask"}
Between == {"read_first", "write_first"}
Clearing == {"mask", "enable"} \cup Masked

ErrTypes ==
  /\ pc \in [Users -> {"idle"} \cup Clearing]
  /\ lock \in Users \cup {NONE}
  /\ cur \in [Users -> SUBSET Err!Errs]
  /\ val \in [Users -> SUBSET Err!Errs]
  /\ error \subseteq Err!Errs /\ first \subseteq Err!Errs
  /\ prHeld \in BOOLEAN /\ sftrst \in BOOLEAN

(* Only the owner of the lock is in a clear.  The clear and the            *)
(* reconfiguration hold the port in reset, each once.                      *)
ResetInv ==
  /\ \A u \in Users : pc[u] # "idle" <=> lock = u
  /\ disable_count = (IF prHeld THEN 1 ELSE 0) + (IF lock = NONE THEN 0 ELSE 1)
  /\ sftrst <=> prHeld \/ lock # NONE

(* The error recorded is pending, and one is, unless none pending that can  *)
(* be masked belongs in port_first_error.                                   *)
Recorded ==
  /\ first \subseteq error
  /\ first = {} => error \cap FirstErrs \subseteq ResetErrs

(* From the masking to the unmasking only accesses in reset are captured,   *)
(* so the values read are, but for these, those the registers have when     *)
(* they are written.                                                        *)
ClearInv ==
  /\ lock = NONE => mask = {}
  /\ \A u \in Users :
       /\ pc[u] # "idle" => mask = IF pc[u] \in Masked THEN MaskedErrs ELSE {}
       /\ pc[u] = "write" => error \ cur[u] \subseteq ResetErrs
       /\ pc[u] \in Between => error \subseteq ResetErrs
       /\ pc[u] = "write_first" => first \ cur[u] \subseteq error
  /\ (\A u \in Users : pc[u] \notin Between) => Recorded

ErrInv == ErrTypes /\ ResetInv /\ ClearInv

----------------------------------------------------------------------------
Values   == Evts \cup {NONE}
InSignal == {"vector", "put", "name", "fdget", "request", "store", "next"}
FdArrays == {<<>>} \cup Irq!FdSets \cup [{0} -> Values]
Calls    == [at : InSignal \cup {"done"}, f : Irq!Features, start : Nat,
             count : Nat, fds : FdArrays, j : Int, undo : BOOLEAN,
             ret : {0, -1}, new : Values, before : [Irq!Vectors -> Values]]
Inside   == call # Irq!Idle

IrqTypes ==
  /\ trigger \in [Irq!Vectors -> Values] /\ irqArg \in [Irq!Vectors -> Values]
  /\ running \in [Irq!Vectors -> Values] /\ named \in [Irq!Vectors -> BOOLEAN]
  /\ refs \in [Evts -> Int] /\ fdOpen \in [Evts -> BOOLEAN]
  /\ opens \in {0, 1}
  /\ call \in Calls \cup {Irq!Idle}

(* The loops of a call stay inside the block, and the block inside the     *)
(* feature; untying never fails.                                           *)
LoopInv ==
  Inside =>
    /\ call.count > 0 /\ call.start + call.count <= Irq!CtxNum(call.f)
    /\ call.at # "done" => call.j \in call.start .. call.start + call.count - 1
    /\ \A i \in 0 .. call.count - 1 :
         call.fds = <<>> \/ call.fds[i] \in Values
    /\ call.ret # 0 => call.fds # <<>>
    /\ call.undo => call.ret # 0
    /\ call.at \in InSignal \ {"next"} /\ call.ret # 0 => call.undo

(* A vector's line, name and trigger agree, except for the one in work:    *)
(* until the trigger is stored, the reference taken is in call.new.        *)
Agree(v) == irqArg[v] = trigger[v] /\ named[v] = (trigger[v] # NONE)
Working  == Inside /\ call.at # "done"

WorkInv ==
  /\ call.at \in {"vector", "name", "next"} => Agree(Irq!V)
  /\ call.at = "put" => trigger[Irq!V] # NONE /\ irqArg[Irq!V] = NONE
  /\ call.at \in {"name", "fdget", "request", "store"} => trigger[Irq!V] = NONE
  /\ call.at \in {"fdget", "request"} => irqArg[Irq!V] = NONE
  /\ call.at \in {"fdget", "request", "store"} => Irq!Fd # NONE /\ named[Irq!V]
  /\ call.at = "store" => irqArg[Irq!V] = call.new
  /\ call.new = IF call.at \in {"request", "store"} THEN Irq!Fd ELSE NONE

LineInv ==
  /\ \A v \in Irq!Vectors : ~(Working /\ v = Irq!V) => Agree(v)
  /\ Working => WorkInv
  /\ Inside /\ call.at = "done" => call.new = NONE

(* A handler that runs has the argument of its line, or that of the line   *)
(* being freed, which waits for it.                                        *)
RunInv ==
  \A v \in Irq!Vectors : running[v] # NONE =>
    \/ running[v] = irqArg[v]
    \/ Inside /\ call.at = "put" /\ v = Irq!V /\ running[v] = trigger[v]

Tied(e) == {v \in Irq!Vectors : trigger[v] = e}

RefInv ==
  \A e \in Evts :
    refs[e] = (IF fdOpen[e] THEN 1 ELSE 0) + Cardinality(Tied(e))
              + (IF Inside /\ call.new = e THEN 1 ELSE 0)

(* How far the block is tied, or untied after a failure at some k.         *)
Want(i) == IF call.fds = <<>> THEN NONE ELSE call.fds[i - call.start]
InBlock == call.start .. call.start + call.count - 1
Old(i)  == call.before[<<call.f, i>>]
Now(i)  == trigger[<<call.f, i>>]

BlockInv ==
  Inside =>
    /\ \A v \in Irq!Vectors \ Irq!Block(call) : trigger[v] = call.before[v]
    /\ call.at # "done" /\ call.ret = 0 =>
         \A i \in InBlock : /\ i < call.j => Now(i) = Want(i)
                            /\ i > call.j => Now(i) = Old(i)
    /\ call.at = "next" =>
         Now(call.j) = IF call.ret = 0 THEN Want(call.j) ELSE NONE
    /\ call.at # "done" /\ call.ret # 0 =>
         \E k \in InBlock : /\ call.j <= k
                            /\ \A i \in InBlock :
                                 /\ i > k => Now(i) = Old(i)
                                 /\ call.j < i /\ i <= k => Now(i) = NONE
    /\ call.at = "done" =>
         IF call.ret = 0
         THEN \A i \in InBlock : Now(i) = Want(i)
         ELSE \E k \in InBlock : \A i \in InBlock :
                Now(i) = IF i <= k THEN NONE ELSE Old(i)

(* The last close unties the vectors of one feature after the other.       *)
ClosedInv ==
  opens = 0 =>
    /\ ~Inside => \A v \in Irq!Vectors : trigger[v] = NONE
    /\ Inside =>
         /\ call.fds = <<>>
         /\ call.start = 0 /\ call.count = Irq!CtxNum(call.f)
         /\ call.f = "uint" =>
              \A v \in Irq!Vectors : v[1] = "err" => trigger[v] = NONE

IrqInv == IrqTypes /\ LoopInv /\ LineInv /\ RunInv /\ RefInv /\ BlockInv
            /\ ClosedInv


----------------------------------------------------------------------------
(* The error registers *)

\* port_err_init leaves the registers as the invariant says.
LEMMA ErrInit == Err!Init => ErrInv
  <1> SUFFICES ASSUME Err!Init PROVE ErrInv
    OBVIOUS
  <1>1. ErrTypes
    BY DEF Err!Init, ErrTypes
  <1>2. ResetInv
    BY FeatureAssumption, SMT DEF Err!Init, ResetInv
  <1>3. ClearInv
    BY DEF Err!Init, ClearInv, Between, Recorded
  <1> QED
    BY <1>1, <1>2, <1>3 DEF ErrInv

\* An error that is captured, and changes of the power state.
LEMMA HwErrKept ==
  ASSUME ErrInv,
         (\E e \in Err!Errs : Err!HwError(e)) \/ Err!PowerState
  PROVE  ErrInv'
  <1>1. CASE Err!PowerState
    BY <1>1 DEF Err!PowerState, Err!regs, Err!reset, Err!local, ErrInv,
                ErrTypes, ResetInv, ClearInv, Recorded
  <1>2. CASE \E e \in Err!Errs : Err!HwError(e)
    <2>1. PICK e \in Err!Errs : Err!HwError(e)
      BY <1>2
    <2>2. /\ e \notin error /\ e \notin mask
          /\ error' = error \cup {e}
          /\ first' = IF first = {} THEN {e} \cap FirstErrs ELSE first
          /\ UNCHANGED <<mask, disable_count, sftrst, prHeld, lock, pc, val, cur>>
      BY <2>1 DEF Err!HwError, Err!reset, Err!local
    <2>3. ASSUME NEW u \in Users, pc[u] \in Masked
          PROVE  e \in ResetErrs
      <3>1. mask = MaskedErrs
        BY <2>3 DEF ErrInv, ClearInv, Masked
      <3> QED
        BY <2>2, <3>1 DEF Err!Errs
    <2>4. ErrTypes'
      BY <2>2 DEF ErrInv, ErrTypes
    <2>5. ResetInv'
      BY <2>2 DEF ErrInv, ResetInv
    <2>6. Recorded => Recorded'
      BY <2>2 DEF Recorded
    <2>7. ClearInv'
      <3>1. ASSUME NEW u \in Users
            PROVE  /\ pc'[u] # "idle" =>
                        mask' = IF pc'[u] \in Masked THEN MaskedErrs ELSE {}
                   /\ pc'[u] = "write" => error' \ cur'[u] \subseteq ResetErrs
                   /\ pc'[u] \in Between => error' \subseteq ResetErrs
                   /\ pc'[u] = "write_first" => first' \ cur'[u] \subseteq error'
        <4>1. /\ pc[u] = "write" => error \ cur[u] \subseteq ResetErrs
              /\ pc[u] \in Between => error \subseteq ResetErrs
              /\ pc[u] = "write_first" => first \ cur[u] \subseteq error
              /\ pc[u] # "idle" =>
                   mask = IF pc[u] \in Masked THEN MaskedErrs ELSE {}
          BY DEF ErrInv, ClearInv
        <4>2. CASE pc[u] \in Masked
          BY <2>2, <2>3, <4>1, <4>2
        <4>3. CASE pc[u] \notin Masked
          BY <2>2, <4>1, <4>3 DEF Masked, Between
        <4> QED
          BY <4>2, <4>3
      <3> QED
        BY <2>2, <2>6, <3>1 DEF ErrInv, ClearInv
    <2> QED
      BY <2>4, <2>5, <2>7 DEF ErrInv
  <1> QED
    BY <1>1, <1>2

\* A reconfiguration disables and enables the port while no clear runs.
LEMMA PrKept ==
  ASSUME ErrInv, Err!PrDisable \/ Err!PrEnable
  PROVE  ErrInv'
  <1>1. /\ UNCHANGED <<error, first, mask, lock, pc, val, cur>>
        /\ lock = NONE /\ prHeld' = ~prHeld
    BY DEF Err!PrDisable, Err!PrEnable, Err!regs, Err!local, ErrInv, ErrTypes
  <1>2. /\ disable_count' = (IF prHeld' THEN 1 ELSE 0)
        /\ sftrst' = prHeld'
    <2>1. /\ disable_count = (IF prHeld THEN 1 ELSE 0)
          /\ sftrst <=> prHeld
      BY <1>1, SMT DEF ErrInv, ResetInv
    <2>2. CASE Err!PrDisable
      <3>1. ~prHeld /\ prHeld' = TRUE
        BY <2>2 DEF Err!PrDisable
      <3>2. disable_count = 0 /\ disable_count' = disable_count + 1
        BY <2>1, <2>2, <3>1 DEF Err!PrDisable, Err!PortDisable
      <3>3. disable_count' = 1
        BY <3>2, SMT
      <3>4. sftrst' = TRUE
        BY <2>2, <3>2 DEF Err!PrDisable, Err!PortDisable
      <3> QED
        BY <3>1, <3>3, <3>4
    <2>3. CASE Err!PrEnable
      <3>1. prHeld /\ prHeld' = FALSE
        BY <2>3 DEF Err!PrEnable
      <3>2. disable_count = 1 /\ disable_count' = disable_count - 1
        BY <2>1, <2>3, <3>1 DEF Err!PrEnable, Err!PortEnable
      <3>3. disable_count' = 0
        BY <3>2, SMT
      <3>4. sftrst' = FALSE
        BY <2>3, <3>2 DEF Err!PrEnable, Err!PortEnable
      <3> QED
        BY <3>1, <3>3, <3>4
    <2> QED
      BY <2>2, <2>3
  <1>3. ErrTypes'
    BY <1>1, <1>2 DEF ErrInv, ErrTypes
  <1>4. ResetInv'
    BY <1>1, <1>2, SMT DEF ErrInv, ResetInv
  <1>5. ClearInv'
    BY <1>1 DEF ErrInv, ClearInv, Recorded
  <1> QED
    BY <1>3, <1>4, <1>5 DEF ErrInv

\* What a step of the clear of a user u leaves alone, and where it goes.
ClearTo(u, from, to) ==
  /\ pc[u] = from /\ pc' = [pc EXCEPT ![u] = to]
  /\ UNCHANGED prHeld

\* The others are not inside a clear, and only the place of u changes.
LEMMA ClearAlone ==
  ASSUME ErrInv, NEW u \in Users, NEW to \in {"idle"} \cup Clearing,
         NEW from \in Clearing, ClearTo(u, from, to)
  PROVE  /\ lock = u /\ u # NONE
         /\ pc'[u] = to
         /\ \A w \in Users \ {u} : pc[w] = "idle" /\ pc'[w] = "idle"
         /\ pc' \in [Users -> {"idle"} \cup Clearing]
         /\ mask = IF from \in Masked THEN MaskedErrs ELSE {}
  <1>1. from # "idle"
    BY DEF Clearing, Masked
  <1>2. lock = u
    BY <1>1 DEF ErrInv, ResetInv, ClearTo
  <1>3. pc \in [Users -> {"idle"} \cup Clearing]
    BY DEF ErrInv, ErrTypes
  <1>4. \A w \in Users \ {u} : pc[w] = "idle"
    BY <1>2 DEF ErrInv, ResetInv
  <1>5. mask = IF from \in Masked THEN MaskedErrs ELSE {}
    BY <1>1 DEF ErrInv, ClearInv, ClearTo
  <1> QED
    BY <1>2, <1>3, <1>4, <1>5, FeatureAssumption DEF ClearTo

\* A step inside the clear that leaves lock and reset alone.
LEMMA ClearInside ==
  ASSUME ErrInv, NEW u \in Users, NEW from \in Clearing, NEW to \in Clearing,
         ClearTo(u, from, to),
         UNCHANGED <<disable_count, sftrst, lock, val>>,
         mask' = IF to \in Masked THEN MaskedErrs ELSE {},
         cur' \in [Users -> SUBSET Err!Errs],
         error' \subseteq Err!Errs, first' \subseteq Err!Errs,
         to = "write" => error' \ cur'[u] \subseteq ResetErrs,
         to \in Between => error' \subseteq ResetErrs,
         to = "write_first" => first' \ cur'[u] \subseteq error',
         to \notin Between => Recorded'
  PROVE  ErrInv'
  <1>1. /\ lock = u /\ u # NONE /\ pc'[u] = to
        /\ \A w \in Users \ {u} : pc[w] = "idle" /\ pc'[w] = "idle"
        /\ pc' \in [Users -> {"idle"} \cup Clearing]
    BY ClearAlone
  <1>2. to # "idle"
    BY DEF Clearing, Masked
  <1>3. ErrTypes'
    BY <1>1 DEF ErrInv, ErrTypes, ClearTo
  <1>4. ResetInv'
    <2>1. \A w \in Users : pc'[w] # "idle" <=> lock' = w
      BY <1>1, <1>2
    <2> QED
      BY <2>1 DEF ErrInv, ResetInv, ClearTo
  <1>5. ClearInv'
    <2>1. lock' # NONE
      BY <1>1
    <2>2. ASSUME NEW w \in Users
          PROVE  /\ pc'[w] # "idle" =>
                      mask' = IF pc'[w] \in Masked THEN MaskedErrs ELSE {}
                 /\ pc'[w] = "write" => error' \ cur'[w] \subseteq ResetErrs
                 /\ pc'[w] \in Between => error' \subseteq ResetErrs
                 /\ pc'[w] = "write_first" => first' \ cur'[w] \subseteq error'
      BY <1>1 DEF Between
    <2>3. (\A w \in Users : pc'[w] \notin Between) => to \notin Between
      BY <1>1
    <2> QED
      BY <2>1, <2>2, <2>3 DEF ClearInv
  <1> QED
    BY <1>3, <1>4, <1>5 DEF ErrInv

\* The steps between the begin and the end of a clear.
LEMMA ClearKept ==
  ASSUME ErrInv, NEW u \in Users,
         \/ Err!MaskAll(u) \/ Err!ReadError(u) \/ Err!WriteError(u)
         \/ Err!ReadFirst(u) \/ Err!WriteFirst(u) \/ Err!Unmask(u)
  PROVE  ErrInv'
  <1> USE DEF ClearTo, Err!Goto, Err!reset, Err!regs, Err!local
  <1>1. /\ cur \in [Users -> SUBSET Err!Errs]
        /\ error \subseteq Err!Errs /\ first \subseteq Err!Errs
    BY DEF ErrInv, ErrTypes
  <1>2. ASSUME NEW from \in Clearing \ Between, pc[u] = from
        PROVE  Recorded
    <2>1. \A w \in Users \ {u} : pc[w] = "idle"
      BY <1>2 DEF ErrInv, ResetInv, Clearing, Masked
    <2> QED
      BY <1>2, <2>1 DEF ErrInv, ClearInv, Between
  <1>3. CASE Err!MaskAll(u)
    <2>1. ClearTo(u, "mask", "read")
      BY <1>3 DEF Err!MaskAll
    <2>2. Recorded'
      BY <1>2, <1>3, <2>1 DEF Err!MaskAll, Clearing, Between, Recorded
    <2> QED
      BY <1>1, <1>3, <2>1, <2>2, ClearInside
         DEF Err!MaskAll, Clearing, Masked, Between
  <1>4. CASE Err!ReadError(u)
    <2>1. PICK to \in {"write", "unmask"} : ClearTo(u, "read", to)
      BY <1>4 DEF Err!ReadError
    <2>2. Recorded'
      BY <1>2, <1>4, <2>1 DEF Err!ReadError, Clearing, Masked, Between, Recorded
    <2>3. mask = MaskedErrs
      BY <2>1, ClearAlone DEF Clearing, Masked
    <2>4. cur' \in [Users -> SUBSET Err!Errs] /\ error' \ cur'[u] \subseteq ResetErrs
      BY <1>1, <1>4 DEF Err!ReadError
    <2> QED
      BY <1>1, <1>4, <2>1, <2>2, <2>3, <2>4, ClearInside
         DEF Err!ReadError, Clearing, Masked, Between
  <1>5. CASE Err!WriteError(u)
    <2>1. ClearTo(u, "write", "read_first")
      BY <1>5 DEF Err!WriteError
    <2>2. mask = MaskedErrs
      BY <2>1, ClearAlone DEF Clearing, Masked
    <2>3. error' \subseteq ResetErrs
      BY <1>5, <2>1 DEF Err!WriteError, ErrInv, ClearInv
    <2> QED
      BY <1>1, <1>5, <2>1, <2>2, <2>3, ClearInside
         DEF Err!WriteError, Clearing, Masked, Between
  <1>6. CASE Err!ReadFirst(u)
    <2>1. ClearTo(u, "read_first", "write_first")
      BY <1>6 DEF Err!ReadFirst
    <2>2. mask = MaskedErrs
      BY <2>1, ClearAlone DEF Clearing, Masked
    <2>3. cur' \in [Users -> SUBSET Err!Errs] /\ first' \ cur'[u] \subseteq error'
      BY <1>1, <1>6 DEF Err!ReadFirst
    <2>4. error \subseteq ResetErrs
      BY <2>1 DEF ErrInv, ClearInv, Between
    <2> QED
      BY <1>1, <1>6, <2>1, <2>2, <2>3, <2>4, ClearInside
         DEF Err!ReadFirst, Clearing, Masked, Between
  <1>7. CASE Err!WriteFirst(u)
    <2>1. ClearTo(u, "write_first", "unmask")
      BY <1>7 DEF Err!WriteFirst
    <2>2. mask = MaskedErrs
      BY <2>1, ClearAlone DEF Clearing, Masked
    <2>3. error' = error /\ error \subseteq ResetErrs
      BY <1>7, <2>1 DEF Err!WriteFirst, ErrInv, ClearInv, Between
    <2>4. first' = first \ cur[u] /\ first \ cur[u] \subseteq error
      BY <1>7, <2>1 DEF Err!WriteFirst, ErrInv, ClearInv
    <2>5. Recorded'
      BY <2>3, <2>4 DEF Recorded
    <2> QED
      BY <1>1, <1>7, <2>1, <2>2, <2>3, <2>4, <2>5, ClearInside
         DEF Err!WriteFirst, Clearing, Masked, Between
  <1>8. CASE Err!Unmask(u)
    <2>1. ClearTo(u, "unmask", "enable")
      BY <1>8 DEF Err!Unmask
    <2>2. Recorded'
      BY <1>2, <1>8, <2>1 DEF Err!Unmask, Clearing, Masked, Between, Recorded
    <2> QED
      BY <1>1, <1>8, <2>1, <2>2, ClearInside
         DEF Err!Unmask, Clearing, Masked, Between
  <1> QED
    BY <1>3, <1>4, <1>5, <1>6, <1>7, <1>8

\* The begin of a clear takes the lock and one count of the reset, the end
\* gives both back; errors_show only reads.
LEMMA ClearEndsKept ==
  ASSUME ErrInv, NEW u \in Users,
         Err!ErrorsShow(u) \/ Err!ClearBegin(u) \/ Err!End(u)
  PROVE  ErrInv'
  <1> USE DEF Err!reset, Err!regs, Err!local
  <1>1. /\ pc \in [Users -> {"idle"} \cup Clearing]
        /\ val \in [Users -> SUBSET Err!Errs]
        /\ cur \in [Users -> SUBSET Err!Errs]
        /\ error \subseteq Err!Errs
        /\ u # NONE
    BY FeatureAssumption DEF ErrInv, ErrTypes
  <1>2. CASE Err!ErrorsShow(u)
    <2>1. val' \in [Users -> SUBSET Err!Errs]
      BY <1>1, <1>2 DEF Err!ErrorsShow
    <2> QED
      BY <1>2, <2>1 DEF Err!ErrorsShow, ErrInv, ErrTypes, ResetInv, ClearInv,
                        Recorded
  <1>3. CASE Err!ClearBegin(u)
    <2>1. /\ lock = NONE /\ lock' = u
          /\ \A w \in Users : pc[w] = "idle"
          /\ pc' = [pc EXCEPT ![u] = "mask"]
          /\ UNCHANGED <<error, first, mask, prHeld, val, cur>>
      BY <1>3, FeatureAssumption DEF Err!ClearBegin, Err!Goto, ErrInv, ResetInv
    <2>2. pc'[u] = "mask" /\ \A w \in Users \ {u} : pc'[w] = "idle"
      BY <1>1, <2>1
    <2>3. disable_count' = (IF prHeld' THEN 1 ELSE 0) + 1
      BY <1>3, <2>1, SMT DEF Err!ClearBegin, Err!PortDisable, ErrInv, ResetInv
    <2>4. sftrst' = TRUE
      <3>1. CASE prHeld
        BY <1>3, <3>1 DEF Err!ClearBegin, Err!PortDisable, ErrInv, ResetInv,
                          ErrTypes
      <3>2. CASE ~prHeld
        <4>1. disable_count = 0
          BY <2>1, <3>2, SMT DEF ErrInv, ResetInv
        <4> QED
          BY <1>3, <4>1 DEF Err!ClearBegin, Err!PortDisable
      <3> QED
        BY <3>1, <3>2
    <2>5. ErrTypes'
      BY <1>1, <2>1, <2>4 DEF ErrInv, ErrTypes, Clearing
    <2>6. ResetInv'
      BY <1>1, <2>1, <2>2, <2>3, <2>4 DEF ResetInv
    <2>7. ClearInv'
      BY <1>1, <2>1, <2>2 DEF ErrInv, ClearInv, Masked, Between, Recorded
    <2> QED
      BY <2>5, <2>6, <2>7 DEF ErrInv
  <1>4. CASE Err!End(u)
    <2>1. /\ ClearTo(u, "enable", "idle") /\ lock' = NONE
          /\ UNCHANGED <<error, first, mask>>
          /\ val' \in [Users -> SUBSET Err!Errs]
          /\ cur' \in [Users -> SUBSET Err!Errs]
      BY <1>1, <1>4 DEF Err!End, Err!Goto, ClearTo
    <2>2. /\ lock = u
          /\ \A w \in Users : pc'[w] = "idle"
          /\ \A w \in Users \ {u} : pc[w] = "idle"
          /\ pc' \in [Users -> {"idle"} \cup Clearing]
          /\ mask = {}
      <3>1. "enable" \in Clearing /\ "enable" \notin Masked
        BY DEF Clearing, Masked
      <3> QED
        BY <2>1, <3>1, ClearAlone
    <2>3. disable_count = (IF prHeld THEN 1 ELSE 0) + 1 /\ sftrst = TRUE
      BY <1>1, <2>2 DEF ErrInv, ResetInv, ErrTypes
    <2>4. disable_count' = (IF prHeld THEN 1 ELSE 0)
      BY <1>4, <2>3, SMT DEF Err!End, Err!PortEnable
    <2>5. disable_count # 1 <=> prHeld
      BY <2>3, SMT
    <2>6. sftrst' \in BOOLEAN /\ (sftrst' <=> prHeld)
      BY <1>4, <2>3, <2>5 DEF Err!End, Err!PortEnable
    <2>7. ErrTypes'
      BY <2>1, <2>2, <2>6 DEF ErrInv, ErrTypes, ClearTo
    <2>8. ResetInv'
      <3>1. disable_count' = (IF prHeld' THEN 1 ELSE 0) + 0
        BY <2>1, <2>4, SMT DEF ClearTo
      <3> QED
        BY <2>1, <2>2, <2>6, <3>1, FeatureAssumption DEF ResetInv, ClearTo
    <2>9. ClearInv'
      <3>1. \A w \in Users : pc[w] \notin Between
        BY <2>1, <2>2 DEF ClearTo, Between
      <3> QED
        BY <2>1, <2>2, <3>1 DEF ErrInv, ClearInv, Between, Recorded
    <2> QED
      BY <2>7, <2>8, <2>9 DEF ErrInv
  <1> QED
    BY <1>2, <1>3, <1>4

\* Every step of the error registers keeps the invariant.
LEMMA ErrStep == ErrInv /\ Err!Next => ErrInv'
  BY HwErrKept, PrKept, ClearKept, ClearEndsKept DEF Err!Next, Err!Clear

\* ... and a step of another feature does not touch it.
LEMMA ErrRests == ErrInv /\ UNCHANGED errVars => ErrInv'
  <1> SUFFICES ASSUME ErrInv, UNCHANGED errVars PROVE ErrInv'
    OBVIOUS
  <1> USE DEF errVars
  <1>1. ErrTypes'
    BY DEF ErrInv, ErrTypes
  <1>2. ResetInv'
    BY DEF ErrInv, ResetInv
  <1>3. ClearInv'
    BY DEF ErrInv, ClearInv, Recorded
  <1> QED
    BY <1>1, <1>2, <1>3 DEF ErrInv

\* Clearing the two registers one by one drops no record of an error that stays,
\* other than of an access in reset, and leaves the port as it was, for any
\* users, errors and interleaving with reconfigurations.
THEOREM PortErrorsAlwaysRight == FeatSpec => []PortErrorsRight
  <1>1. FeatInit => ErrInv
    BY ErrInit DEF FeatInit
  <1>2. ErrInv /\ [FeatNext]_allVars => ErrInv'
    BY ErrStep, ErrRests DEF FeatNext, allVars
  <1>3. ErrInv => PortErrorsRight
    <2> SUFFICES ASSUME ErrInv, lock = NONE
                 PROVE  Recorded /\ mask = {} /\ sftrst = prHeld
      BY DEF PortErrorsRight, Err!FirstErrorKept, Err!PortRestored, Recorded
    <2>1. \A u \in Users : pc[u] \notin Between
      BY FeatureAssumption DEF ErrInv, ResetInv, Between
    <2> QED
      BY <2>1 DEF ErrInv, ErrTypes, ResetInv, ClearInv
  <1> QED
    BY <1>1, <1>2, <1>3, PTL DEF FeatSpec

----------------------------------------------------------------------------
(* Interrupt vectors *)

\* A call is not the record that stands for no call.
LEMMA CallsInside ==
  /\ \A c \in Calls : c # Irq!Idle /\ c.at # "idle"
  /\ Irq!Idle.at = "idle"
  BY SMT DEF Calls, InSignal, Irq!Idle

\* The vectors are the pairs of a feature and an index, finitely many.
LEMMA VectorFacts ==
  /\ IsFiniteSet(Irq!Vectors)
  /\ \A f \in Irq!Features, i \in Int :
       <<f, i>> \in Irq!Vectors <=> 0 <= i /\ i < Irq!CtxNum(f)
  /\ \A v \in Irq!Vectors :
       /\ v[1] \in Irq!Features /\ v[2] \in Int /\ v = <<v[1], v[2]>>
       /\ 0 <= v[2] /\ v[2] < Irq!CtxNum(v[1])
  <1>1. /\ Irq!CtxNum("uint") = NumUint /\ Irq!CtxNum("err") = NumErr
        /\ NumUint \in Nat /\ NumErr \in Nat
    BY FeatureAssumption DEF Irq!CtxNum
  <1>2. Irq!Vectors = ({"uint"} \X (0 .. NumUint - 1))
                        \cup ({"err"} \X (0 .. NumErr - 1))
    BY <1>1, SMT DEF Irq!Vectors, Irq!Features
  <1>3. IsFiniteSet(Irq!Vectors)
    <2>1. IsFiniteSet(0 .. NumUint - 1) /\ IsFiniteSet(0 .. NumErr - 1)
      BY <1>1, FS_Interval, SMT
    <2>2. IsFiniteSet({"uint"}) /\ IsFiniteSet({"err"})
      BY FS_Singleton
    <2>3. /\ IsFiniteSet({"uint"} \X (0 .. NumUint - 1))
          /\ IsFiniteSet({"err"} \X (0 .. NumErr - 1))
      BY <2>1, <2>2, FS_Product
    <2> QED
      BY <1>2, <2>3, FS_Union
  <1>4. ASSUME NEW f \in Irq!Features, NEW i \in Int
        PROVE  <<f, i>> \in Irq!Vectors <=> 0 <= i /\ i < Irq!CtxNum(f)
    BY <1>1, <1>2, SMT DEF Irq!Features
  <1>5. ASSUME NEW v \in Irq!Vectors
        PROVE  /\ v[1] \in Irq!Features /\ v[2] \in Int /\ v = <<v[1], v[2]>>
               /\ 0 <= v[2] /\ v[2] < Irq!CtxNum(v[1])
    BY <1>1, <1>2, SMT DEF Irq!Features
  <1> QED
    BY <1>3, <1>4, <1>5

\* The vector in work exists, and its eventfd is one or NONE.
LEMMA WorkFacts ==
  ASSUME IrqTypes, LoopInv, Working
  PROVE  /\ call \in Calls /\ Irq!V \in Irq!Vectors
         /\ call.j \in InBlock /\ call.f \in Irq!Features
         /\ Irq!V = <<call.f, call.j>>
         /\ Irq!Fd \in Values
         /\ Irq!Fd = (IF call.undo THEN NONE ELSE Want(call.j))
  <1>1. call \in Calls
    BY DEF IrqTypes, Working, Inside
  <1>2. /\ call.j \in call.start .. call.start + call.count - 1
        /\ call.start + call.count <= Irq!CtxNum(call.f)
        /\ \A i \in 0 .. call.count - 1 : call.fds = <<>> \/ call.fds[i] \in Values
    BY DEF LoopInv, Working
  <1>3. /\ call.f \in Irq!Features /\ call.start \in Nat /\ call.count \in Nat
        /\ call.j \in Int /\ call.undo \in BOOLEAN
    BY <1>1, SMT DEF Calls
  <1>4. /\ 0 <= call.j /\ call.j - call.start \in 0 .. call.count - 1
        /\ call.j < Irq!CtxNum(call.f)
    <2>1. Irq!CtxNum(call.f) \in Nat
      BY FeatureAssumption DEF Irq!CtxNum
    <2> QED
      BY <1>2, <1>3, <2>1, SMT
  <1>5. Irq!V \in Irq!Vectors
    BY <1>3, <1>4, VectorFacts DEF Irq!V
  <1>6. Irq!Fd = (IF call.undo THEN NONE ELSE Want(call.j))
    BY DEF Irq!Fd, Want
  <1>7. Irq!Fd \in Values
    BY <1>2, <1>4 DEF Irq!Fd, Values
  <1> QED
    BY <1>1, <1>2, <1>3, <1>5, <1>6, <1>7 DEF Irq!V, InBlock

\* What a step of fpga_set_vector_signal changes: the place of the call, its
\* result and new reference, and the vector in work.
SameBlock ==
  /\ call'.f = call.f /\ call'.start = call.start /\ call'.count = call.count
  /\ call'.fds = call.fds /\ call'.before = call.before

CallTo(at, ret, new) ==
  /\ call' \in Calls /\ SameBlock
  /\ call'.j = call.j /\ call'.undo = call.undo
  /\ call'.at = at /\ call'.ret = ret /\ call'.new = new

\* The updates of the call's record that the steps make.
LEMMA CallUpdates ==
  ASSUME call \in Calls, NEW at \in InSignal \cup {"done"}, NEW new \in Values
  PROVE  /\ call' = [call EXCEPT !.at = at] => CallTo(at, call.ret, call.new)
         /\ call' = [call EXCEPT !.at = at, !.ret = -1] => CallTo(at, -1, call.new)
         /\ call' = [call EXCEPT !.at = at, !.new = new] => CallTo(at, call.ret, new)
         /\ call' = [call EXCEPT !.at = at, !.ret = -1, !.new = new] =>
              CallTo(at, -1, new)
  <1> USE DEF CallTo, SameBlock, Calls
  <1>1. call' = [call EXCEPT !.at = at] => CallTo(at, call.ret, call.new)
    OBVIOUS
  <1>2. call' = [call EXCEPT !.at = at, !.ret = -1] => CallTo(at, -1, call.new)
    OBVIOUS
  <1>3. call' = [call EXCEPT !.at = at, !.new = new] => CallTo(at, call.ret, new)
    OBVIOUS
  <1>4. call' = [call EXCEPT !.at = at, !.ret = -1, !.new = new] =>
          CallTo(at, -1, new)
    OBVIOUS
  <1> QED
    BY <1>1, <1>2, <1>3, <1>4

\* What each place of the call leaves in trigger, irqArg and named of the
\* vector in work.
OnlyV ==
  /\ trigger' \in [Irq!Vectors -> Values] /\ irqArg' \in [Irq!Vectors -> Values]
  /\ named' \in [Irq!Vectors -> BOOLEAN]
  /\ \A v \in Irq!Vectors \ {Irq!V} :
       trigger'[v] = trigger[v] /\ irqArg'[v] = irqArg[v] /\ named'[v] = named[v]
  /\ UNCHANGED <<running, fdOpen, opens>>

\* A step of the call goes from one place to another; only the failures that
\* concern an eventfd end it with an error.
Works(at, ret, new) ==
  /\ CallTo(at, ret, new) /\ OnlyV
  /\ at \in InSignal
  /\ ret = call.ret \/ (ret = -1 /\ at = "next" /\ Irq!Fd # NONE)

\* The vector in work stays the same.
LEMMA WorksSame ==
  ASSUME IrqTypes, LoopInv, Working, NEW at, NEW ret, NEW new,
         Works(at, ret, new)
  PROVE  /\ Irq!V' = Irq!V /\ Irq!Fd' = Irq!Fd /\ Working' /\ Inside'
         /\ call'.at = at /\ call'.new = new /\ call'.ret = ret
         /\ InBlock' = InBlock
  <1>1. call' \in Calls /\ call'.at = at /\ call'.at # "done"
    BY DEF Works, CallTo, InSignal
  <1>2. Inside' /\ Working'
    BY <1>1, CallsInside DEF Inside, Working
  <1> QED
    BY <1>1, <1>2 DEF Works, CallTo, SameBlock, Irq!V, Irq!Fd, InBlock


\* The loops stay inside the block.
LEMMA WorksLoop ==
  ASSUME IrqTypes, LoopInv, Working, call.at # "next",
         NEW at, NEW ret, NEW new, Works(at, ret, new)
  PROVE  LoopInv'
  <1>1. /\ Working' /\ Inside' /\ call'.at = at /\ call'.ret = ret
    BY WorksSame
  <1>2. /\ call.count > 0 /\ call.start + call.count <= Irq!CtxNum(call.f)
        /\ call.j \in call.start .. call.start + call.count - 1
        /\ \A i \in 0 .. call.count - 1 :
             call.fds = <<>> \/ call.fds[i] \in Values
        /\ call.ret # 0 => call.fds # <<>> /\ call.undo
        /\ call.undo => call.ret # 0
    <2>1. call.at \in InSignal \ {"next"}
      BY DEF IrqTypes, Working, Inside, Calls, InSignal
    <2> QED
      BY <2>1 DEF LoopInv, Working
  <1>3. /\ call'.f = call.f /\ call'.start = call.start
        /\ call'.count = call.count /\ call'.j = call.j
        /\ call'.fds = call.fds /\ call'.undo = call.undo
    BY DEF Works, CallTo, SameBlock
  <1>4. /\ ret = call.ret \/ (ret = -1 /\ at = "next" /\ Irq!Fd # NONE)
        /\ Irq!Fd # NONE => call.fds # <<>> /\ ~call.undo
    BY DEF Works, Irq!Fd
  <1>5. -1 # 0
    BY SMT
  <1>6. /\ ret # 0 => call.fds # <<>>
        /\ call.undo => ret # 0
        /\ at # "next" /\ ret # 0 => call.undo
    BY <1>2, <1>4, <1>5
  <1> QED
    BY <1>1, <1>2, <1>3, <1>6 DEF LoopInv

\* A step of the call changes nothing outside of its vector, so it goes on
\* with the block as it should if it ends with the vector as it should.
LEMMA WorksBlock ==
  ASSUME IrqTypes, LoopInv, BlockInv, Working, call.at # "next",
         NEW at, NEW ret, NEW new, Works(at, ret, new),
         at = "next" =>
           trigger'[Irq!V] = IF ret = 0 THEN Irq!Fd ELSE NONE
  PROVE  BlockInv'
  <1>1. /\ Working' /\ Inside' /\ call'.at = at /\ call'.ret = ret /\ at # "done"
        /\ call' \in Calls
    BY WorksSame DEF Works, InSignal, CallTo
  <1>2. /\ call \in Calls /\ Irq!V \in Irq!Vectors /\ Irq!V = <<call.f, call.j>>
        /\ call.j \in InBlock
        /\ Irq!Fd = (IF call.undo THEN NONE ELSE Want(call.j))
    BY WorkFacts
  <1>3. /\ call'.f = call.f /\ call'.start = call.start
        /\ call'.count = call.count /\ call'.j = call.j
        /\ call'.fds = call.fds /\ call'.undo = call.undo
        /\ call'.before = call.before
    BY DEF Works, CallTo, SameBlock
  <1>4. /\ InBlock' = InBlock
        /\ \A i \in InBlock : Want(i)' = Want(i) /\ Old(i)' = Old(i)
        /\ Irq!Block(call)' = Irq!Block(call)
    BY <1>3 DEF InBlock, Want, Old, Irq!Block
  <1>5. \A i \in InBlock : <<call.f, i>> \in Irq!Vectors
    <2>1. /\ call.f \in Irq!Features /\ call.start \in Nat /\ call.count \in Nat
          /\ call.start + call.count <= Irq!CtxNum(call.f)
      BY <1>2, SMT DEF Calls, LoopInv, Working
    <2>2. Irq!CtxNum(call.f) \in Nat
      BY FeatureAssumption DEF Irq!CtxNum
    <2>3. \A i \in InBlock : i \in Int /\ 0 <= i /\ i < Irq!CtxNum(call.f)
      BY <2>1, <2>2, SMT DEF InBlock
    <2> QED
      BY <2>1, <2>3, VectorFacts
  <1>6. \A i \in InBlock : i # call.j => Now(i)' = Now(i)
    <2>1. \A i \in InBlock : i # call.j => <<call.f, i>> # Irq!V
      BY <1>2
    <2> QED
      BY <1>3, <1>5, <2>1 DEF Works, OnlyV, Now
  <1>7. Irq!V \in Irq!Block(call)
    BY <1>2 DEF Irq!Block, InBlock
  <1>8. \A v \in Irq!Vectors \ Irq!Block(call) : trigger'[v] = call.before[v]
    BY <1>7 DEF Works, OnlyV, BlockInv, Working
  <1>9. \A i, k \in InBlock : i \in Int /\ k \in Int /\ call.j \in Int
    BY <1>2, SMT DEF Calls, InBlock
  <1>10. ret = 0 =>
           /\ call.ret = 0
           /\ \A i \in InBlock : /\ i < call.j => Now(i)' = Want(i)
                                 /\ i > call.j => Now(i)' = Old(i)
    <2>1. ret = 0 => call.ret = 0
      BY SMT DEF Works
    <2>2. \A i \in InBlock : (i < call.j \/ i > call.j) => i # call.j
      BY <1>9, SMT
    <2> QED
      BY <1>6, <2>1, <2>2 DEF BlockInv, Working
  <1>11. ret # 0 =>
           \E k \in InBlock : /\ call.j <= k
                              /\ \A i \in InBlock :
                                   /\ i > k => Now(i)' = Old(i)
                                   /\ call.j < i /\ i <= k => Now(i)' = NONE
    <2>1. CASE call.ret # 0
      <3>1. PICK k \in InBlock : /\ call.j <= k
                                 /\ \A i \in InBlock :
                                      /\ i > k => Now(i) = Old(i)
                                      /\ call.j < i /\ i <= k => Now(i) = NONE
        BY <2>1 DEF BlockInv, Working
      <3>2. \A i \in InBlock : i > k \/ call.j < i => i # call.j
        BY <1>9, <3>1, SMT
      <3> QED
        BY <1>6, <3>1, <3>2
    <2>2. CASE call.ret = 0
      <3>1. \A i \in InBlock : i > call.j => Now(i) = Old(i)
        BY <2>2 DEF BlockInv, Working
      <3>2. \A i \in InBlock : /\ i > call.j => i # call.j
                               /\ ~(call.j < i /\ i <= call.j)
        BY <1>9, SMT
      <3>3. call.j <= call.j
        BY <1>2, <1>9, SMT
      <3> QED
        BY <1>2, <1>6, <3>1, <3>2, <3>3
    <2> QED
      BY <2>1, <2>2
  <1>12. at = "next" =>
           Now(call.j)' = IF ret = 0 THEN Want(call.j) ELSE NONE
    <2>1. ret = 0 => ~call.undo
      <3>1. call.undo => call.ret # 0
        BY DEF LoopInv, Working
      <3> QED
        BY <1>10, <3>1
    <2> QED
      BY <1>2, <1>3, <2>1 DEF Now
  <1>13. /\ \A v \in Irq!Vectors \ Irq!Block(call)' : trigger'[v] = call'.before[v]
         /\ call'.ret = 0 =>
              \A i \in InBlock' : /\ i < call'.j => Now(i)' = Want(i)'
                                  /\ i > call'.j => Now(i)' = Old(i)'
    BY <1>1, <1>3, <1>4, <1>8, <1>10
  <1>14. call'.at = "next" =>
           Now(call.j)' = IF call'.ret = 0 THEN Want(call.j)' ELSE NONE
    BY <1>1, <1>2, <1>3, <1>4, <1>12 DEF Want, Now
  <1>15. call'.ret # 0 =>
           \E k \in InBlock' : /\ call'.j <= k
                               /\ \A i \in InBlock' :
                                    /\ i > k => Now(i)' = Old(i)'
                                    /\ call'.j < i /\ i <= k => Now(i)' = NONE
    BY <1>1, <1>3, <1>4, <1>11
  <1> QED
    BY <1>1, <1>13, <1>14, <1>15 DEF BlockInv

\* The other vectors agree as before, the last close goes on, and a handler
\* of another vector has the argument it had.
LEMMA WorksLine ==
  ASSUME IrqTypes, LoopInv, LineInv, RunInv, ClosedInv, Working,
         NEW at, NEW ret, NEW new, Works(at, ret, new),
         WorkInv',
         running[Irq!V] # NONE =>
           \/ running[Irq!V] = irqArg'[Irq!V]
           \/ at = "put" /\ running[Irq!V] = trigger'[Irq!V]
  PROVE  LineInv' /\ RunInv' /\ ClosedInv'
  <1>1. /\ Working' /\ Inside' /\ call'.at = at /\ at # "done"
        /\ Irq!V' = Irq!V
    BY WorksSame DEF Works, InSignal
  <1>2. call \in Calls /\ Irq!V \in Irq!Vectors /\ Irq!V = <<call.f, call.j>>
    BY WorkFacts
  <1>3. /\ \A v \in Irq!Vectors \ {Irq!V} :
             /\ trigger'[v] = trigger[v] /\ irqArg'[v] = irqArg[v]
             /\ named'[v] = named[v]
        /\ UNCHANGED <<running, fdOpen, opens>>
    BY DEF Works, OnlyV
  <1>4. LineInv'
    <2>1. ASSUME NEW v \in Irq!Vectors, v # Irq!V PROVE Agree(v)'
      BY <1>3, <2>1 DEF LineInv, Agree
    <2> QED
      BY <1>1, <2>1 DEF LineInv
  <1>5. RunInv'
    <2>1. ASSUME NEW v \in Irq!Vectors, v # Irq!V, running'[v] # NONE
          PROVE  running'[v] = irqArg'[v]
      BY <1>3, <2>1 DEF RunInv
    <2>2. running'[Irq!V] # NONE =>
            \/ running'[Irq!V] = irqArg'[Irq!V]
            \/ Inside' /\ call'.at = "put" /\ running'[Irq!V] = trigger'[Irq!V]
      BY <1>1, <1>3
    <2> QED
      BY <1>1, <2>1, <2>2 DEF RunInv
  <1>6. ClosedInv'
    <2> SUFFICES ASSUME opens = 0
                 PROVE  /\ call'.fds = <<>> /\ call'.start = 0
                        /\ call'.count = Irq!CtxNum(call'.f)
                        /\ call'.f = "uint" => \A v \in Irq!Vectors :
                             v[1] = "err" => trigger'[v] = NONE
      BY <1>1, <1>3 DEF ClosedInv
    <2>1. /\ call.fds = <<>> /\ call.start = 0 /\ call.count = Irq!CtxNum(call.f)
          /\ call.f = "uint" =>
               \A v \in Irq!Vectors : v[1] = "err" => trigger[v] = NONE
      BY DEF ClosedInv, Working
    <2>2. call.f = "uint" => Irq!V[1] # "err"
      BY <1>2, SMT
    <2> QED
      BY <1>3, <2>1, <2>2 DEF Works, CallTo, SameBlock
  <1> QED
    BY <1>4, <1>5, <1>6

\* Tying and untying one vector changes how many are tied to an eventfd.
LEMMA TiedCount ==
  ASSUME IrqTypes, LoopInv, Working, OnlyV, NEW e \in Evts
  PROVE  /\ Cardinality(Tied(e)) \in Nat /\ Cardinality(Tied(e)') \in Nat
         /\ (trigger[Irq!V] = e <=> trigger'[Irq!V] = e) =>
              Cardinality(Tied(e)') = Cardinality(Tied(e))
         /\ trigger[Irq!V] = e /\ trigger'[Irq!V] # e =>
              Cardinality(Tied(e)') = Cardinality(Tied(e)) - 1
         /\ trigger[Irq!V] # e /\ trigger'[Irq!V] = e =>
              Cardinality(Tied(e)') = Cardinality(Tied(e)) + 1
  <1>1. IsFiniteSet(Tied(e)) /\ IsFiniteSet(Tied(e)')
    <2>1. Tied(e) \subseteq Irq!Vectors /\ Tied(e)' \subseteq Irq!Vectors
      BY DEF Tied
    <2> QED
      BY <2>1, VectorFacts, FS_Subset
  <1>2. Cardinality(Tied(e)) \in Nat /\ Cardinality(Tied(e)') \in Nat
    BY <1>1, FS_CardinalityType
  <1>3. Irq!V \in Irq!Vectors
    BY WorkFacts
  <1>4. \A v \in Irq!Vectors \ {Irq!V} : v \in Tied(e)' <=> v \in Tied(e)
    BY DEF OnlyV, Tied
  <1>5. /\ Irq!V \in Tied(e) <=> trigger[Irq!V] = e
        /\ Irq!V \in Tied(e)' <=> trigger'[Irq!V] = e
        /\ Tied(e) \subseteq Irq!Vectors /\ Tied(e)' \subseteq Irq!Vectors
    BY <1>3 DEF Tied
  <1>6. CASE (trigger[Irq!V] = e <=> trigger'[Irq!V] = e)
    <2>1. Irq!V \in Tied(e)' <=> Irq!V \in Tied(e)
      BY <1>5, <1>6
    <2>2. \A v \in Irq!Vectors : v \in Tied(e)' <=> v \in Tied(e)
      BY <1>4, <2>1
    <2>3. Tied(e)' = Tied(e)
      BY <1>5, <2>2
    <2> QED
      BY <1>2, <1>6, <2>3
  <1>7. CASE trigger[Irq!V] = e /\ trigger'[Irq!V] # e
    <2>1. Tied(e)' = Tied(e) \ {Irq!V} /\ Irq!V \in Tied(e)
      BY <1>4, <1>5, <1>7
    <2>2. Cardinality(Tied(e) \ {Irq!V}) = Cardinality(Tied(e)) - 1
      BY <1>1, <2>1, FS_RemoveElement
    <2> QED
      BY <1>2, <1>7, <2>1, <2>2
  <1>8. CASE trigger[Irq!V] # e /\ trigger'[Irq!V] = e
    <2>1. Tied(e)' = Tied(e) \cup {Irq!V} /\ Irq!V \notin Tied(e)
      BY <1>4, <1>5, <1>8
    <2>2. Cardinality(Tied(e) \cup {Irq!V}) = Cardinality(Tied(e)) + 1
      BY <1>1, <2>1, FS_AddElement
    <2> QED
      BY <1>2, <1>8, <2>1, <2>2
  <1> QED
    BY <1>6, <1>7, <1>8

\* Together: what is left to show of a step of fpga_set_vector_signal.
LEMMA WorkKept ==
  ASSUME IrqInv, Working, call.at # "next",
         NEW at, NEW ret, NEW new, Works(at, ret, new),
         WorkInv', refs' \in [Evts -> Int], RefInv',
         running[Irq!V] # NONE =>
           \/ running[Irq!V] = irqArg'[Irq!V]
           \/ at = "put" /\ running[Irq!V] = trigger'[Irq!V],
         at = "next" =>
           trigger'[Irq!V] = IF ret = 0 THEN Irq!Fd ELSE NONE
  PROVE  IrqInv'
  <1> USE DEF IrqInv
  <1>1. IrqTypes'
    BY DEF IrqTypes, Works, OnlyV, CallTo
  <1>2. LoopInv'
    BY WorksLoop
  <1>3. LineInv' /\ RunInv' /\ ClosedInv'
    BY WorksLine
  <1>4. BlockInv'
    BY WorksBlock
  <1> QED
    BY <1>1, <1>2, <1>3, <1>4

\* The references of an eventfd, when a step leaves the triggers alone.
LEMMA SameTied ==
  ASSUME trigger' = trigger
  PROVE  \A e \in Evts : Tied(e)' = Tied(e)
  BY DEF Tied

\* Steps that only move on: a vector that is not tied, or gets no eventfd.
LEMMA MoveKept ==
  ASSUME IrqInv, Irq!VectorFree \/ Irq!NoFd \/ Irq!NoName
  PROVE  IrqInv'
  <1> USE DEF Irq!ctxs, Irq!users, Irq!At
  <1>1. Working /\ call.at \in {"vector", "name"} /\ call.at # "next"
    BY CallsInside DEF Irq!VectorFree, Irq!NoFd, Irq!NoName, Working, Inside
  <1>2. /\ call \in Calls /\ Irq!V \in Irq!Vectors /\ Irq!Fd \in Values
        /\ call.new = NONE /\ Agree(Irq!V)
        /\ call.at = "name" => trigger[Irq!V] = NONE
    BY <1>1, WorkFacts DEF IrqInv, LineInv, WorkInv
  <1>3. UNCHANGED <<trigger, named, irqArg, running, refs, fdOpen, opens>>
    BY DEF Irq!VectorFree, Irq!NoFd, Irq!NoName
  <1>4. PICK at \in {"name", "next"}, ret \in {0, -1} :
          /\ CallTo(at, ret, call.new)
          /\ ret = call.ret \/ (ret = -1 /\ at = "next" /\ Irq!Fd # NONE)
          /\ at = "next" => call.at = "name" /\ (ret = call.ret => Irq!Fd = NONE)
          /\ trigger[Irq!V] = NONE
    <2>1. call.ret \in {0, -1} /\ NONE \in Values
      BY <1>2 DEF Calls, Values
    <2>2. "name" \in InSignal /\ "next" \in InSignal
      BY DEF InSignal
    <2>3. CASE Irq!VectorFree
      <3>1. call' = [call EXCEPT !.at = "name"] /\ trigger[Irq!V] = NONE
        BY <1>2, <2>3 DEF Irq!VectorFree
      <3>2. CallTo("name", call.ret, call.new)
        BY <1>2, <2>1, <2>2, <3>1, CallUpdates
      <3> QED
        BY <2>1, <3>1, <3>2
    <2>4. CASE Irq!NoFd
      <3>1. /\ call' = [call EXCEPT !.at = "next"]
            /\ call.at = "name" /\ Irq!Fd = NONE
        BY <2>4 DEF Irq!NoFd
      <3>2. CallTo("next", call.ret, call.new)
        BY <1>2, <2>1, <2>2, <3>1, CallUpdates
      <3> QED
        BY <1>2, <2>1, <3>1, <3>2
    <2>5. CASE Irq!NoName
      <3>1. /\ call' = [call EXCEPT !.at = "next", !.ret = -1]
            /\ call.at = "name" /\ Irq!Fd # NONE
        BY <2>5 DEF Irq!NoName
      <3>2. CallTo("next", -1, call.new)
        BY <1>2, <2>1, <2>2, <3>1, CallUpdates
      <3>3. call.ret # -1
        <4>1. call.undo => Irq!Fd = NONE
          BY DEF Irq!Fd
        <4>2. call.ret # 0 => call.undo
          BY <1>1, <3>1 DEF IrqInv, LoopInv, InSignal, Working
        <4>3. call.ret = 0
          BY <3>1, <4>1, <4>2
        <4> QED
          BY <4>3, SMT
      <3> QED
        BY <1>2, <3>1, <3>2, <3>3
    <2> QED
      BY <2>3, <2>4, <2>5
  <1>5. OnlyV
    BY <1>3 DEF OnlyV, IrqInv, IrqTypes
  <1>6. Works(at, ret, NONE)
    BY <1>2, <1>4, <1>5 DEF Works, InSignal
  <1>7. /\ Irq!V' = Irq!V /\ call'.at = at /\ call'.new = NONE
    BY <1>1, <1>6, WorksSame DEF IrqInv
  <1>8. WorkInv'
    BY <1>2, <1>3, <1>4, <1>7 DEF WorkInv, Agree
  <1>9. RefInv'
    BY <1>2, <1>3, <1>7, SameTied, FeatureAssumption DEF IrqInv, RefInv
  <1>10. running[Irq!V] # NONE => running[Irq!V] = irqArg'[Irq!V]
    BY <1>1, <1>2, <1>3 DEF IrqInv, RunInv
  <1>11. at = "next" => trigger'[Irq!V] = IF ret = 0 THEN Irq!Fd ELSE NONE
    <2>1. -1 # 0
      BY SMT
    <2> QED
      BY <1>3, <1>4, <2>1
  <1>12. refs' \in [Evts -> Int]
    BY <1>3 DEF IrqInv, IrqTypes
  <1> QED
    BY <1>1, <1>6, <1>8, <1>9, <1>10, <1>11, <1>12, WorkKept

\* What holds of a call at a place of fpga_set_vector_signal.
LEMMA PlaceFacts ==
  ASSUME IrqInv, call.at \in InSignal
  PROVE  /\ Working /\ call \in Calls /\ WorkInv
         /\ Irq!V \in Irq!Vectors /\ Irq!Fd \in Values
         /\ call.new \in Values /\ NONE \in Values
         /\ call.ret \in {0, -1} /\ -1 # 0
         /\ call.at # "next" /\ Irq!Fd # NONE => call.ret = 0
  <1>1. Working
    BY CallsInside DEF InSignal, Working, Inside
  <1>2. /\ call \in Calls /\ WorkInv
        /\ Irq!V \in Irq!Vectors /\ Irq!Fd \in Values
    BY <1>1, WorkFacts DEF IrqInv, LineInv
  <1>3. call.new \in Values /\ NONE \in Values /\ call.ret \in {0, -1}
    BY <1>2 DEF Calls, Values
  <1>4. -1 # 0
    BY SMT
  <1>5. call.at # "next" /\ Irq!Fd # NONE => call.ret = 0
    <2>1. call.undo => Irq!Fd = NONE
      BY DEF Irq!Fd
    <2>2. call.at # "next" /\ call.ret # 0 => call.undo
      BY <1>1 DEF IrqInv, LoopInv, Working
    <2> QED
      BY <2>1, <2>2
  <1> QED
    BY <1>1, <1>2, <1>3, <1>4, <1>5

\* free_irq takes the handler off the line; it may still be running.
LEMMA FreeIrqKept ==
  ASSUME IrqInv, Irq!FreeIrq
  PROVE  IrqInv'
  <1> USE DEF Irq!ctxs, Irq!users, Irq!At
  <1>1. /\ call.at = "vector" /\ trigger[Irq!V] # NONE
        /\ irqArg' = [irqArg EXCEPT ![Irq!V] = NONE]
        /\ call' = [call EXCEPT !.at = "put"]
        /\ UNCHANGED <<trigger, named, running, refs, fdOpen, opens>>
    BY DEF Irq!FreeIrq
  <1>2. "vector" \in InSignal /\ "put" \in InSignal
    BY DEF InSignal
  <1>3. /\ Working /\ call \in Calls /\ WorkInv /\ Irq!V \in Irq!Vectors
        /\ call.new \in Values /\ NONE \in Values /\ call.at # "next"
    BY <1>1, <1>2, PlaceFacts
  <1>4. call.new = NONE /\ Agree(Irq!V)
    BY <1>1, <1>3 DEF WorkInv
  <1>5. CallTo("put", call.ret, call.new)
    BY <1>1, <1>2, <1>3, CallUpdates
  <1>6. OnlyV /\ irqArg'[Irq!V] = NONE
    BY <1>1, <1>3 DEF OnlyV, IrqInv, IrqTypes
  <1>7. Works("put", call.ret, NONE)
    BY <1>2, <1>4, <1>5, <1>6 DEF Works
  <1>8. Irq!V' = Irq!V /\ call'.at = "put" /\ call'.new = NONE
    BY <1>3, <1>7, WorksSame DEF IrqInv
  <1>9. WorkInv'
    BY <1>1, <1>6, <1>8 DEF WorkInv
  <1>10. RefInv'
    BY <1>1, <1>4, <1>8, SameTied, FeatureAssumption DEF IrqInv, RefInv
  <1>11. running[Irq!V] # NONE => running[Irq!V] = trigger'[Irq!V]
    BY <1>1, <1>3, <1>4 DEF IrqInv, RunInv, Agree
  <1>12. refs' \in [Evts -> Int]
    BY <1>1 DEF IrqInv, IrqTypes
  <1> QED
    BY <1>3, <1>7, <1>9, <1>10, <1>11, <1>12, WorkKept

\* The reference is put once the handler is not running any more.
LEMMA PutKept ==
  ASSUME IrqInv, Irq!PutTrigger
  PROVE  IrqInv'
  <1> USE DEF Irq!ctxs, Irq!users, Irq!At
  <1>1. /\ call.at = "put" /\ running[Irq!V] = NONE
        /\ named' = [named EXCEPT ![Irq!V] = FALSE]
        /\ trigger' = [trigger EXCEPT ![Irq!V] = NONE]
        /\ refs' = [refs EXCEPT ![trigger[Irq!V]] = @ - 1]
        /\ call' = [call EXCEPT !.at = "name"]
        /\ UNCHANGED <<irqArg, running, fdOpen, opens>>
    BY DEF Irq!PutTrigger, Irq!Forget
  <1>2. "put" \in InSignal /\ "name" \in InSignal
    BY DEF InSignal
  <1>3. /\ Working /\ call \in Calls /\ WorkInv /\ Irq!V \in Irq!Vectors
        /\ call.new \in Values /\ NONE \in Values /\ call.at # "next"
    BY <1>1, <1>2, PlaceFacts
  <1>4. call.new = NONE /\ trigger[Irq!V] # NONE /\ irqArg[Irq!V] = NONE
    BY <1>1, <1>3 DEF WorkInv
  <1>5. CallTo("name", call.ret, call.new)
    BY <1>1, <1>2, <1>3, CallUpdates
  <1>6. OnlyV /\ trigger'[Irq!V] = NONE /\ named'[Irq!V] = FALSE
    BY <1>1, <1>3 DEF OnlyV, IrqInv, IrqTypes
  <1>7. Works("name", call.ret, NONE)
    BY <1>2, <1>4, <1>5, <1>6 DEF Works
  <1>8. /\ Irq!V' = Irq!V /\ call'.at = "name" /\ call'.new = NONE
    BY <1>3, <1>7, WorksSame DEF IrqInv
  <1>9. WorkInv'
    BY <1>1, <1>4, <1>6, <1>8 DEF WorkInv, Agree
  <1>10. refs \in [Evts -> Int] /\ trigger[Irq!V] \in Evts
    BY <1>3, <1>4 DEF IrqInv, IrqTypes, Values
  <1>11. refs' \in [Evts -> Int]
    BY <1>1, <1>10, SMT
  <1>12. ASSUME NEW e \in Evts
         PROVE  refs'[e] = (IF fdOpen'[e] THEN 1 ELSE 0) + Cardinality(Tied(e)')
                           + (IF Inside' /\ call'.new = e THEN 1 ELSE 0)
    <2>1. e # NONE
      BY FeatureAssumption
    <2>2. refs[e] = (IF fdOpen[e] THEN 1 ELSE 0) + Cardinality(Tied(e)) + 0
      BY <1>4, <2>1 DEF IrqInv, RefInv
    <2>3. /\ Cardinality(Tied(e)) \in Nat /\ Cardinality(Tied(e)') \in Nat
          /\ trigger[Irq!V] = e => Cardinality(Tied(e)') = Cardinality(Tied(e)) - 1
          /\ trigger[Irq!V] # e => Cardinality(Tied(e)') = Cardinality(Tied(e))
      BY <1>3, <1>6, <2>1, TiedCount DEF IrqInv
    <2>4. refs'[e] = IF trigger[Irq!V] = e THEN refs[e] - 1 ELSE refs[e]
      BY <1>1, <1>10
    <2>5. refs'[e] = (IF fdOpen[e] THEN 1 ELSE 0) + Cardinality(Tied(e)') + 0
      BY <2>2, <2>3, <2>4, SMT
    <2> QED
      BY <1>1, <1>8, <2>1, <2>5
  <1>13. RefInv'
    BY <1>12 DEF RefInv
  <1> QED
    BY <1>1, <1>3, <1>7, <1>9, <1>11, <1>13, WorkKept

\* The name is allocated, or given back when the descriptor is bad.
LEMMA NameKept ==
  ASSUME IrqInv, Irq!Name \/ Irq!BadFd
  PROVE  IrqInv'
  <1> USE DEF Irq!ctxs, Irq!users, Irq!At
  <1>1. /\ call.at \in {"name", "fdget"}
        /\ UNCHANGED <<trigger, irqArg, running, refs, fdOpen, opens>>
    BY DEF Irq!Name, Irq!BadFd
  <1>2. "name" \in InSignal /\ "fdget" \in InSignal /\ "next" \in InSignal
    BY DEF InSignal
  <1>3. /\ Working /\ call \in Calls /\ WorkInv /\ Irq!V \in Irq!Vectors
        /\ call.new \in Values /\ NONE \in Values /\ call.at # "next"
        /\ -1 # 0
    BY <1>1, <1>2, PlaceFacts
  <1>4. /\ call.new = NONE /\ trigger[Irq!V] = NONE /\ irqArg[Irq!V] = NONE
    BY <1>1, <1>3 DEF WorkInv, Agree
  <1>5. Irq!Fd # NONE
    BY <1>1, <1>3 DEF Irq!Name, Irq!BadFd, WorkInv
  <1>6. PICK at \in {"fdget", "next"}, ret \in {-1, call.ret} :
          /\ CallTo(at, ret, call.new)
          /\ named' = [named EXCEPT ![Irq!V] = (at = "fdget")]
          /\ ret = call.ret \/ (ret = -1 /\ at = "next")
          /\ at = "next" => ret = -1
    <2>1. CASE Irq!Name
      <3>1. CallTo("fdget", call.ret, call.new)
        BY <1>2, <1>3, <2>1, CallUpdates DEF Irq!Name
      <3> QED
        BY <2>1, <3>1 DEF Irq!Name
    <2>2. CASE Irq!BadFd
      <3>1. CallTo("next", -1, call.new)
        BY <1>2, <1>3, <2>2, CallUpdates DEF Irq!BadFd
      <3>2. named' = [named EXCEPT ![Irq!V] = ("next" = "fdget")]
        BY <2>2 DEF Irq!BadFd
      <3> QED
        BY <3>1, <3>2
    <2> QED
      BY <2>1, <2>2
  <1>7. OnlyV /\ named'[Irq!V] = (at = "fdget")
    BY <1>1, <1>3, <1>6 DEF OnlyV, IrqInv, IrqTypes
  <1>8. Works(at, ret, NONE)
    BY <1>2, <1>4, <1>5, <1>6, <1>7 DEF Works
  <1>9. /\ Irq!V' = Irq!V /\ call'.at = at /\ call'.new = NONE
        /\ Irq!Fd' = Irq!Fd
    BY <1>3, <1>8, WorksSame DEF IrqInv
  <1>10. WorkInv'
    BY <1>1, <1>4, <1>5, <1>6, <1>7, <1>9 DEF WorkInv, Agree
  <1>11. RefInv'
    BY <1>1, <1>4, <1>9, SameTied, FeatureAssumption DEF IrqInv, RefInv
  <1>12. running[Irq!V] # NONE => running[Irq!V] = irqArg'[Irq!V]
    BY <1>1, <1>3 DEF IrqInv, RunInv
  <1>13. at = "next" => trigger'[Irq!V] = IF ret = 0 THEN Irq!Fd ELSE NONE
    BY <1>1, <1>3, <1>4, <1>6
  <1>14. refs' \in [Evts -> Int]
    BY <1>1 DEF IrqInv, IrqTypes
  <1> QED
    BY <1>3, <1>8, <1>10, <1>11, <1>12, <1>13, <1>14, WorkKept

\* eventfd_ctx_fdget takes a reference; it is put when request_irq fails.
LEMMA NewKept ==
  ASSUME IrqInv, Irq!FdGet \/ Irq!RequestFails
  PROVE  IrqInv'
  <1> USE DEF Irq!ctxs, Irq!users, Irq!At
  <1>1. /\ call.at \in {"fdget", "request"}
        /\ UNCHANGED <<trigger, irqArg, running, fdOpen, opens>>
    BY DEF Irq!FdGet, Irq!RequestFails
  <1>2. "fdget" \in InSignal /\ "request" \in InSignal /\ "next" \in InSignal
    BY DEF InSignal
  <1>3. /\ Working /\ call \in Calls /\ WorkInv /\ Irq!V \in Irq!Vectors
        /\ Irq!Fd \in Values /\ NONE \in Values /\ call.at # "next"
        /\ -1 # 0
    BY <1>1, <1>2, PlaceFacts
  <1>4. /\ trigger[Irq!V] = NONE /\ irqArg[Irq!V] = NONE
        /\ Irq!Fd # NONE /\ named[Irq!V]
        /\ call.at = "fdget" => call.new = NONE
        /\ call.at = "request" => call.new = Irq!Fd
    BY <1>1, <1>3 DEF WorkInv
  <1>5. Irq!Fd \in Evts
    BY <1>3, <1>4 DEF Values
  <1>6. refs \in [Evts -> Int] /\ \A e \in Evts : Cardinality(Tied(e)) \in Nat
    <2>1. \A e \in Evts : IsFiniteSet(Tied(e))
      <3>1. \A e \in Evts : Tied(e) \subseteq Irq!Vectors
        BY DEF Tied
      <3> QED
        BY <3>1, VectorFacts, FS_Subset
    <2> QED
      BY <2>1, FS_CardinalityType DEF IrqInv, IrqTypes
  <1>7. Working' => Inside'
    BY DEF Working
  <1>8. CASE Irq!FdGet
    <2>1. /\ call.at = "fdget" /\ named' = named
          /\ refs' = [refs EXCEPT ![Irq!Fd] = @ + 1]
          /\ CallTo("request", call.ret, Irq!Fd)
      BY <1>2, <1>3, <1>8, CallUpdates DEF Irq!FdGet
    <2>2. Works("request", call.ret, Irq!Fd)
      BY <1>1, <1>2, <2>1 DEF Works, OnlyV, IrqInv, IrqTypes
    <2>3. /\ Irq!V' = Irq!V /\ call'.at = "request" /\ call'.new = Irq!Fd
          /\ Irq!Fd' = Irq!Fd /\ Inside'
      BY <1>3, <2>2, WorksSame DEF IrqInv
    <2>4. WorkInv'
      BY <1>1, <1>4, <2>1, <2>3 DEF WorkInv
    <2>5. refs' \in [Evts -> Int]
      BY <1>5, <1>6, <2>1, SMT
    <2>6. ASSUME NEW e \in Evts
          PROVE  refs'[e] = (IF fdOpen'[e] THEN 1 ELSE 0) + Cardinality(Tied(e)')
                            + (IF Inside' /\ call'.new = e THEN 1 ELSE 0)
      <3>1. refs[e] = (IF fdOpen[e] THEN 1 ELSE 0) + Cardinality(Tied(e)) + 0
        BY <1>4, <2>1, FeatureAssumption DEF IrqInv, RefInv
      <3>2. refs'[e] = IF Irq!Fd = e THEN refs[e] + 1 ELSE refs[e]
        BY <1>5, <1>6, <2>1
      <3>3. refs'[e] = (IF fdOpen[e] THEN 1 ELSE 0) + Cardinality(Tied(e))
                       + (IF Irq!Fd = e THEN 1 ELSE 0)
        BY <1>6, <3>1, <3>2, SMT
      <3> QED
        BY <1>1, <2>3, <3>3, SameTied
    <2>7. RefInv'
      BY <2>6 DEF RefInv
    <2>8. running[Irq!V] # NONE => running[Irq!V] = irqArg'[Irq!V]
      BY <1>1, <1>3 DEF IrqInv, RunInv
    <2> QED
      BY <1>3, <2>2, <2>4, <2>5, <2>7, <2>8, WorkKept
  <1>9. CASE Irq!RequestFails
    <2>1. /\ call.at = "request" /\ named' = [named EXCEPT ![Irq!V] = FALSE]
          /\ refs' = [refs EXCEPT ![Irq!Fd] = @ - 1]
          /\ CallTo("next", -1, NONE)
      BY <1>2, <1>3, <1>4, <1>9, CallUpdates DEF Irq!RequestFails
    <2>2. Works("next", -1, NONE) /\ named'[Irq!V] = FALSE
      BY <1>1, <1>2, <1>3, <1>4, <2>1 DEF Works, OnlyV, IrqInv, IrqTypes
    <2>3. /\ Irq!V' = Irq!V /\ call'.at = "next" /\ call'.new = NONE
      BY <1>3, <2>2, WorksSame DEF IrqInv
    <2>4. WorkInv'
      BY <1>1, <1>4, <2>2, <2>3 DEF WorkInv, Agree
    <2>5. refs' \in [Evts -> Int]
      BY <1>5, <1>6, <2>1, SMT
    <2>6. ASSUME NEW e \in Evts
          PROVE  refs'[e] = (IF fdOpen'[e] THEN 1 ELSE 0) + Cardinality(Tied(e)')
                            + (IF Inside' /\ call'.new = e THEN 1 ELSE 0)
      <3>1. refs[e] = (IF fdOpen[e] THEN 1 ELSE 0) + Cardinality(Tied(e))
                      + (IF Irq!Fd = e THEN 1 ELSE 0)
        BY <1>3, <1>4, <2>1 DEF IrqInv, RefInv, Working
      <3>2. refs'[e] = IF Irq!Fd = e THEN refs[e] - 1 ELSE refs[e]
        BY <1>5, <1>6, <2>1
      <3>3. refs'[e] = (IF fdOpen[e] THEN 1 ELSE 0) + Cardinality(Tied(e)) + 0
        BY <1>6, <3>1, <3>2, SMT
      <3> QED
        BY <1>1, <2>3, <3>3, SameTied, FeatureAssumption
    <2>7. RefInv'
      BY <2>6 DEF RefInv
    <2>8. running[Irq!V] # NONE => running[Irq!V] = irqArg'[Irq!V]
      BY <1>1, <1>3 DEF IrqInv, RunInv
    <2>9. trigger'[Irq!V] = IF -1 = 0 THEN Irq!Fd ELSE NONE
      BY <1>1, <1>3, <1>4
    <2> QED
      BY <1>3, <2>2, <2>4, <2>5, <2>7, <2>8, <2>9, WorkKept
  <1> QED
    BY <1>8, <1>9

\* request_irq: the handler may run from here on.
LEMMA RequestKept ==
  ASSUME IrqInv, Irq!Request
  PROVE  IrqInv'
  <1> USE DEF Irq!ctxs, Irq!users, Irq!At
  <1>1. /\ call.at = "request"
        /\ irqArg' = [irqArg EXCEPT ![Irq!V] = call.new]
        /\ call' = [call EXCEPT !.at = "store"]
        /\ UNCHANGED <<trigger, named, running, refs, fdOpen, opens>>
    BY DEF Irq!Request
  <1>2. "request" \in InSignal /\ "store" \in InSignal
    BY DEF InSignal
  <1>3. /\ Working /\ call \in Calls /\ WorkInv /\ Irq!V \in Irq!Vectors
        /\ call.new \in Values /\ NONE \in Values /\ call.at # "next"
    BY <1>1, <1>2, PlaceFacts
  <1>4. /\ trigger[Irq!V] = NONE /\ irqArg[Irq!V] = NONE
        /\ Irq!Fd # NONE /\ named[Irq!V] /\ call.new = Irq!Fd
    BY <1>1, <1>3 DEF WorkInv
  <1>5. CallTo("store", call.ret, call.new)
    BY <1>1, <1>2, <1>3, CallUpdates
  <1>6. OnlyV /\ irqArg'[Irq!V] = call.new
    BY <1>1, <1>3 DEF OnlyV, IrqInv, IrqTypes
  <1>7. Works("store", call.ret, call.new)
    BY <1>2, <1>5, <1>6 DEF Works
  <1>8. /\ Irq!V' = Irq!V /\ call'.at = "store" /\ call'.new = call.new
        /\ Irq!Fd' = Irq!Fd /\ Inside'
    BY <1>3, <1>7, WorksSame DEF IrqInv
  <1>9. WorkInv'
    BY <1>1, <1>4, <1>6, <1>8 DEF WorkInv
  <1>10. RefInv'
    BY <1>1, <1>3, <1>8, SameTied DEF IrqInv, RefInv, Working
  <1>11. running[Irq!V] = NONE
    BY <1>1, <1>3, <1>4 DEF IrqInv, RunInv
  <1>12. refs' \in [Evts -> Int]
    BY <1>1 DEF IrqInv, IrqTypes
  <1> QED
    BY <1>3, <1>7, <1>9, <1>10, <1>11, <1>12, WorkKept

\* The trigger is stored: the call's reference becomes the vector's.
LEMMA StoreKept ==
  ASSUME IrqInv, Irq!Store
  PROVE  IrqInv'
  <1> USE DEF Irq!ctxs, Irq!users, Irq!At
  <1>1. /\ call.at = "store"
        /\ trigger' = [trigger EXCEPT ![Irq!V] = call.new]
        /\ call' = [call EXCEPT !.at = "next", !.new = NONE]
        /\ UNCHANGED <<named, irqArg, running, refs, fdOpen, opens>>
    BY DEF Irq!Store
  <1>2. "next" \in InSignal /\ "store" \in InSignal
    BY DEF InSignal
  <1>3. /\ Working /\ call \in Calls /\ WorkInv /\ Irq!V \in Irq!Vectors
        /\ call.new \in Values /\ NONE \in Values /\ call.at # "next"
        /\ Irq!Fd # NONE => call.ret = 0
    BY <1>1, <1>2, PlaceFacts
  <1>4. /\ trigger[Irq!V] = NONE /\ irqArg[Irq!V] = call.new
        /\ Irq!Fd # NONE /\ named[Irq!V] /\ call.new = Irq!Fd
    BY <1>1, <1>3 DEF WorkInv
  <1>5. CallTo("next", call.ret, NONE)
    BY <1>1, <1>2, <1>3, CallUpdates
  <1>6. OnlyV /\ trigger'[Irq!V] = call.new
    BY <1>1, <1>3 DEF OnlyV, IrqInv, IrqTypes
  <1>7. Works("next", call.ret, NONE)
    BY <1>2, <1>5, <1>6 DEF Works
  <1>8. Irq!V' = Irq!V /\ call'.at = "next" /\ call'.new = NONE
    BY <1>3, <1>7, WorksSame DEF IrqInv
  <1>9. WorkInv'
    <2>1. named[Irq!V] \in BOOLEAN
      BY <1>3 DEF IrqInv, IrqTypes
    <2> QED
      BY <1>1, <1>4, <1>6, <1>8, <2>1 DEF WorkInv, Agree
  <1>10. ASSUME NEW e \in Evts
         PROVE  refs'[e] = (IF fdOpen'[e] THEN 1 ELSE 0) + Cardinality(Tied(e)')
                           + (IF Inside' /\ call'.new = e THEN 1 ELSE 0)
    <2>1. e # NONE
      BY FeatureAssumption
    <2>2. refs[e] = (IF fdOpen[e] THEN 1 ELSE 0) + Cardinality(Tied(e))
                    + (IF call.new = e THEN 1 ELSE 0)
      BY <1>3 DEF IrqInv, RefInv, Working
    <2>3. /\ Cardinality(Tied(e)) \in Nat /\ Cardinality(Tied(e)') \in Nat
          /\ call.new = e => Cardinality(Tied(e)') = Cardinality(Tied(e)) + 1
          /\ call.new # e => Cardinality(Tied(e)') = Cardinality(Tied(e))
      BY <1>3, <1>4, <1>6, <2>1, TiedCount DEF IrqInv
    <2>4. refs[e] = (IF fdOpen[e] THEN 1 ELSE 0) + Cardinality(Tied(e)') + 0
      BY <2>2, <2>3, SMT
    <2> QED
      BY <1>1, <1>8, <2>1, <2>4
  <1>11. RefInv'
    BY <1>10 DEF RefInv
  <1>12. running[Irq!V] # NONE => running[Irq!V] = irqArg'[Irq!V]
    BY <1>1, <1>3 DEF IrqInv, RunInv
  <1>13. trigger'[Irq!V] = IF call.ret = 0 THEN Irq!Fd ELSE NONE
    BY <1>3, <1>4, <1>6
  <1>14. refs' \in [Evts -> Int]
    BY <1>1 DEF IrqInv, IrqTypes
  <1> QED
    BY <1>3, <1>7, <1>9, <1>11, <1>12, <1>13, <1>14, WorkKept

\* Between two vectors, and between calls, nothing is in work: a step that
\* moves the call on changes nothing else.
LEMMA QuietKept ==
  ASSUME IrqInv, \A v \in Irq!Vectors : Agree(v),
         Inside => call.at # "put" /\ call.new = NONE,
         UNCHANGED <<trigger, named, irqArg, running, refs, fdOpen>>,
         opens' \in {0, 1}, ClosedInv',
         \/ call' = Irq!Idle
         \/ /\ call' \in Calls /\ call'.at \in {"vector", "done"}
            /\ call'.new = NONE /\ LoopInv' /\ BlockInv'
  PROVE  IrqInv'
  <1>1. IrqTypes'
    BY DEF IrqInv, IrqTypes
  <1>2. LoopInv' /\ BlockInv'
    BY DEF LoopInv, BlockInv, Inside
  <1>3. \A v \in Irq!Vectors : Agree(v)'
    BY DEF Agree
  <1>4. Working' => Irq!V' \in Irq!Vectors /\ call'.at = "vector"
    <2> SUFFICES ASSUME Working' PROVE Irq!V' \in Irq!Vectors
      BY DEF Working, Inside
    <2>1. (IrqTypes /\ LoopInv /\ Working => Irq!V \in Irq!Vectors)'
      BY WorkFacts, PTL
    <2> QED
      BY <1>1, <1>2, <2>1
  <1>5. Inside' => call'.new = NONE
    BY DEF Inside
  <1>6. LineInv'
    BY <1>3, <1>4, <1>5 DEF LineInv, WorkInv, Agree, Working
  <1>7. RunInv'
    BY DEF IrqInv, RunInv
  <1>8. RefInv'
    BY <1>5, SameTied, FeatureAssumption DEF IrqInv, RefInv
  <1> QED
    BY <1>1, <1>2, <1>6, <1>7, <1>8 DEF IrqInv

\* The loops of fpga_msix_set_block.
NextTo(at, j, undo) ==
  /\ call' \in Calls /\ SameBlock
  /\ call'.at = at /\ call'.j = j /\ call'.undo = undo
  /\ call'.ret = call.ret /\ call'.new = call.new

\* The call after it went on from a vector: to the next one, back or to its end.
LEMMA AfterUpdates ==
  ASSUME call \in Calls, call' = Irq!After(call)
  PROVE  IF call.undo
         THEN NextTo(IF call.j - 1 >= call.start THEN "vector" ELSE "done",
                     call.j - 1, TRUE)
         ELSE IF call.ret # 0 THEN NextTo("vector", call.j, TRUE)
         ELSE IF call.j + 1 < call.start + call.count
         THEN NextTo("vector", call.j + 1, FALSE)
         ELSE NextTo("done", call.j, FALSE)
  <1>1. /\ call.j \in Int /\ call.j + 1 \in Int /\ call.j - 1 \in Int
        /\ call.undo \in BOOLEAN
    <2>1. call.j \in Int /\ call.undo \in BOOLEAN
      BY DEF Calls
    <2> QED
      BY <2>1, SMT
  <1>2. "vector" \in InSignal
    BY DEF InSignal
  <1> USE DEF NextTo, SameBlock, Calls
  <1>3. CASE call.undo
    <2> DEFINE at == IF call.j - 1 >= call.start THEN "vector" ELSE "done"
    <2>1. call' = [call EXCEPT !.at = at, !.j = call.j - 1]
      BY <1>3 DEF Irq!After, Irq!BackWhile
    <2>2. at \in InSignal \cup {"done"}
      BY <1>2
    <2> HIDE DEF at
    <2>3. NextTo(at, call.j - 1, call.undo)
      BY <1>1, <2>1, <2>2
    <2>4. call.undo = TRUE
      BY <1>1, <1>3
    <2> QED
      BY <1>3, <2>3, <2>4 DEF at
  <1>4. CASE ~call.undo /\ call.ret # 0
    <2>1. call' = [call EXCEPT !.at = "vector", !.undo = TRUE]
      BY <1>4 DEF Irq!After, Irq!Onward
    <2>2. NextTo("vector", call.j, TRUE)
      BY <1>2, <2>1
    <2> QED
      BY <1>4, <2>2
  <1>5. CASE ~call.undo /\ call.ret = 0
    <2>1. call.undo = FALSE
      BY <1>1, <1>5
    <2>2. CASE call.j + 1 < call.start + call.count
      <3>1. call' = [call EXCEPT !.at = "vector", !.j = call.j + 1]
        BY <1>5, <2>2 DEF Irq!After, Irq!Onward
      <3>2. NextTo("vector", call.j + 1, call.undo)
        BY <1>1, <1>2, <3>1
      <3> QED
        BY <1>5, <2>1, <2>2, <3>2
    <2>3. CASE ~(call.j + 1 < call.start + call.count)
      <3>1. call' = [call EXCEPT !.at = "done"]
        BY <1>5, <2>3 DEF Irq!After, Irq!Onward
      <3>2. NextTo("done", call.j, call.undo)
        BY <3>1
      <3> QED
        BY <1>5, <2>1, <2>3, <3>2
    <2> QED
      BY <2>2, <2>3
  <1> QED
    BY <1>3, <1>4, <1>5

\* Going on to the next vector keeps what has been done with the block.
LEMMA NextBlock ==
  ASSUME IrqInv, Irq!NextVector
  PROVE  /\ call' \in Calls /\ call'.at \in {"vector", "done"}
         /\ call'.new = call.new /\ SameBlock
         /\ LoopInv' /\ BlockInv'
  <1>1. call.at = "next" /\ call' = Irq!After(call) /\ trigger' = trigger
    BY DEF Irq!NextVector, Irq!At, Irq!ctxs
  <1>2. Working /\ call \in Calls /\ call.ret \in {0, -1}
    BY <1>1, PlaceFacts DEF InSignal
  <1>3. /\ call.j \in Int /\ call.start \in Nat /\ call.count \in Nat
        /\ call.undo \in BOOLEAN
    BY <1>2 DEF Calls
  <1>4. /\ call.count > 0 /\ call.start + call.count <= Irq!CtxNum(call.f)
        /\ call.j \in InBlock
        /\ \A i \in 0 .. call.count - 1 : call.fds = <<>> \/ call.fds[i] \in Values
        /\ call.ret # 0 => call.fds # <<>>
        /\ call.undo => call.ret # 0
    BY <1>2 DEF IrqInv, LoopInv, Working, InBlock
  <1>5. PICK at \in {"vector", "done"}, j \in Int, undo \in BOOLEAN :
          /\ NextTo(at, j, undo)
          /\ at # "done" => j \in InBlock
          /\ undo <=> call.ret # 0
          /\ undo =>
               \/ call.undo /\ j = call.j - 1 /\ (at = "done" => j < call.start)
               \/ at = "vector" /\ j = call.j
          /\ ~undo =>
               \/ at = "vector" /\ j = call.j + 1
               \/ at = "done" /\ j = call.j /\ j + 1 >= call.start + call.count
    <2>1. CASE call.undo
      <3> DEFINE a == IF call.j - 1 >= call.start THEN "vector" ELSE "done"
      <3>1. NextTo(a, call.j - 1, TRUE)
        BY <1>1, <1>2, <2>1, AfterUpdates
      <3>2. /\ call.j - 1 \in Int /\ a \in {"vector", "done"}
            /\ a # "done" => call.j - 1 \in InBlock
            /\ a = "done" => call.j - 1 < call.start
        BY <1>3, <1>4, SMT DEF InBlock
      <3> HIDE DEF a
      <3> QED
        BY <1>4, <2>1, <3>1, <3>2
    <2>2. CASE ~call.undo /\ call.ret # 0
      <3>1. NextTo("vector", call.j, TRUE)
        BY <1>1, <1>2, <2>2, AfterUpdates
      <3> QED
        BY <1>3, <1>4, <2>2, <3>1
    <2>3. CASE ~call.undo /\ call.ret = 0 /\ call.j + 1 < call.start + call.count
      <3>1. NextTo("vector", call.j + 1, FALSE)
        BY <1>1, <1>2, <2>3, AfterUpdates
      <3>2. call.j + 1 \in Int /\ call.j + 1 \in InBlock
        BY <1>3, <1>4, <2>3, SMT DEF InBlock
      <3> QED
        BY <2>3, <3>1, <3>2
    <2>4. CASE ~call.undo /\ call.ret = 0 /\ ~(call.j + 1 < call.start + call.count)
      <3>1. NextTo("done", call.j, FALSE)
        BY <1>1, <1>2, <2>4, AfterUpdates
      <3>2. call.j + 1 >= call.start + call.count
        BY <1>3, <2>4, SMT
      <3> QED
        BY <1>3, <2>4, <3>1, <3>2
    <2> QED
      BY <2>1, <2>2, <2>3, <2>4
  <1>6. /\ call' \in Calls /\ SameBlock /\ call'.at = at /\ call'.j = j
        /\ call'.undo = undo /\ call'.ret = call.ret /\ call'.new = call.new
    BY <1>5 DEF NextTo
  <1>7. Inside'
    BY <1>6, CallsInside DEF Inside
  <1>8. /\ call'.f = call.f /\ call'.start = call.start
        /\ call'.count = call.count
        /\ call'.fds = call.fds /\ call'.before = call.before
    BY <1>6 DEF SameBlock
  <1>9. LoopInv'
    <2>1. /\ at # "done" => j \in call.start .. call.start + call.count - 1
      BY <1>5 DEF InBlock
    <2> QED
      BY <1>4, <1>5, <1>6, <1>8, <2>1 DEF LoopInv
  <1>10. /\ InBlock' = InBlock
         /\ \A i \in InBlock : /\ Want(i)' = Want(i) /\ Old(i)' = Old(i)
                               /\ Now(i)' = Now(i)
         /\ Irq!Block(call)' = Irq!Block(call)
    BY <1>1, <1>8 DEF InBlock, Want, Old, Now, Irq!Block
  <1>11. \A v \in Irq!Vectors \ Irq!Block(call)' : trigger'[v] = call'.before[v]
    BY <1>1, <1>2, <1>8, <1>10 DEF IrqInv, BlockInv, Working
  <1>12. \A i \in InBlock : i \in Int /\ i >= call.start /\ i < call.start + call.count
    BY <1>3, SMT DEF InBlock
  <1>13. CASE ~undo
    <2>1. call.ret = 0 /\ call'.ret = 0
      BY <1>5, <1>6, <1>13
    <2>2. /\ \A i \in InBlock : /\ i < call.j => Now(i) = Want(i)
                                /\ i > call.j => Now(i) = Old(i)
          /\ Now(call.j) = Want(call.j)
      BY <1>1, <1>2, <2>1 DEF IrqInv, BlockInv, Working
    <2>3. CASE at = "vector" /\ j = call.j + 1
      <3>1. \A i \in InBlock : /\ i < j => i < call.j \/ i = call.j
                               /\ i > j => i > call.j
        BY <1>3, <1>12, <2>3, SMT
      <3>2. \A i \in InBlock : /\ i < j => Now(i) = Want(i)
                               /\ i > j => Now(i) = Old(i)
        BY <2>2, <3>1
      <3>3. \A i \in InBlock' : /\ i < call'.j => Now(i)' = Want(i)'
                                /\ i > call'.j => Now(i)' = Old(i)'
        BY <1>6, <1>10, <3>2
      <3> QED
        BY <1>6, <1>7, <1>11, <2>1, <2>3, <3>3, <1>9 DEF BlockInv
    <2>4. CASE at = "done" /\ j = call.j /\ j + 1 >= call.start + call.count
      <3>1. \A i \in InBlock : i < call.j \/ i = call.j
        BY <1>3, <1>12, <2>4, SMT
      <3>2. \A i \in InBlock' : Now(i)' = Want(i)'
        BY <1>10, <2>2, <3>1
      <3> QED
        BY <1>6, <1>7, <1>9, <1>11, <2>1, <2>4, <3>2 DEF BlockInv
    <2> QED
      BY <1>5, <1>6, <1>9, <1>13, <2>3, <2>4
  <1>14. CASE undo
    <2>1. call.ret # 0 /\ call'.ret # 0
      BY <1>5, <1>6, <1>14
    <2>2. PICK k \in InBlock : /\ call.j <= k
                               /\ \A i \in InBlock :
                                    /\ i > k => Now(i) = Old(i)
                                    /\ call.j < i /\ i <= k => Now(i) = NONE
      BY <1>2, <1>1, <2>1 DEF IrqInv, BlockInv, Working
    <2>3. Now(call.j) = NONE
      BY <1>1, <1>2, <2>1 DEF IrqInv, BlockInv, Working
    <2>4. CASE at # "done"
      <3>1. /\ j <= k
            /\ \A i \in InBlock : j < i => call.j < i \/ i = call.j
        BY <1>3, <1>5, <1>12, <1>14, <2>2, SMT
      <3>2. \A i \in InBlock : /\ i > k => Now(i) = Old(i)
                               /\ j < i /\ i <= k => Now(i) = NONE
        BY <2>2, <2>3, <3>1
      <3>3. \E l \in InBlock' : /\ call'.j <= l
                                /\ \A i \in InBlock' :
                                     /\ i > l => Now(i)' = Old(i)'
                                     /\ call'.j < i /\ i <= l => Now(i)' = NONE
        <4>1. k \in InBlock' /\ call'.j <= k
          BY <1>6, <1>10, <3>1
        <4>2. \A i \in InBlock' : /\ i > k => Now(i)' = Old(i)'
                                  /\ call'.j < i /\ i <= k => Now(i)' = NONE
          BY <1>6, <1>10, <3>2
        <4> QED
          BY <4>1, <4>2
      <3> QED
        BY <1>5, <1>6, <1>7, <1>9, <1>11, <2>1, <2>4, <3>3 DEF BlockInv
    <2>5. CASE at = "done"
      <3>1. \A i \in InBlock : /\ call.j < i \/ i = call.j
                               /\ i > k \/ i <= k
        BY <1>3, <1>5, <1>12, <1>14, <2>5, SMT
      <3>2. \A i \in InBlock : Now(i) = IF i <= k THEN NONE ELSE Old(i)
        BY <2>2, <2>3, <3>1
      <3>3. \E l \in InBlock' : \A i \in InBlock' :
              Now(i)' = IF i <= l THEN NONE ELSE Old(i)'
        BY <1>10, <3>2
      <3> QED
        BY <1>5, <1>6, <1>7, <1>9, <1>11, <2>1, <2>5, <3>3 DEF BlockInv
    <2> QED
      BY <2>4, <2>5
  <1> QED
    BY <1>13, <1>14

\* Going on from a vector keeps the invariant.
LEMMA NextVectorKept ==
  ASSUME IrqInv, Irq!NextVector
  PROVE  IrqInv'
  <1>1. /\ call.at = "next"
        /\ UNCHANGED <<trigger, named, irqArg, running, refs, fdOpen, opens>>
    BY DEF Irq!NextVector, Irq!At, Irq!ctxs, Irq!users
  <1>2. Working /\ WorkInv
    BY <1>1, PlaceFacts DEF InSignal
  <1>3. call.new = NONE /\ \A v \in Irq!Vectors : Agree(v)
    BY <1>1, <1>2 DEF IrqInv, LineInv, WorkInv
  <1>4. /\ call' \in Calls /\ call'.at \in {"vector", "done"}
        /\ call'.new = call.new /\ SameBlock /\ LoopInv' /\ BlockInv'
    BY NextBlock
  <1>5. ClosedInv'
    <2>1. Inside' /\ Inside
      BY <1>2, <1>4, CallsInside DEF Inside, Working
    <2> QED
      BY <1>1, <1>4, <2>1 DEF IrqInv, ClosedInv, SameBlock
  <1>6. opens' \in {0, 1}
    BY <1>1 DEF IrqInv, IrqTypes
  <1> QED
    BY <1>1, <1>3, <1>4, <1>5, <1>6, QuietKept

----------------------------------------------------------------------------
(* The begin and the end of a call *)

\* Between calls all vectors agree and the call holds no reference.
LEMMA QuietFacts ==
  ASSUME IrqInv, call = Irq!Idle \/ call.at = "done"
  PROVE  /\ \A v \in Irq!Vectors : Agree(v)
         /\ Inside => call.at # "put" /\ call.new = NONE
  BY DEF IrqInv, LineInv, Working, Inside

\* A block inside of its feature starts with its first vector.
LEMMA StartKept ==
  ASSUME IrqInv, call = Irq!Idle \/ call.at = "done",
         NEW f \in Irq!Features, NEW start \in Nat, NEW count \in Nat,
         NEW fds \in FdArrays,
         count > 0, start + count <= Irq!CtxNum(f),
         \A i \in 0 .. count - 1 : fds = <<>> \/ fds[i] \in Values,
         call' = Irq!Call(f, start, count, fds),
         UNCHANGED <<trigger, named, irqArg, running, refs, fdOpen>>,
         opens' \in {0, 1},
         opens' = 0 =>
           /\ fds = <<>> /\ start = 0 /\ count = Irq!CtxNum(f)
           /\ f = "uint" =>
                \A v \in Irq!Vectors : v[1] = "err" => trigger[v] = NONE
  PROVE  IrqInv'
  <1>1. /\ \A v \in Irq!Vectors : Agree(v)
        /\ Inside => call.at # "put" /\ call.new = NONE
    BY QuietFacts
  <1>2. trigger \in [Irq!Vectors -> Values]
    BY DEF IrqInv, IrqTypes
  <1>3. /\ start \in Int /\ "vector" \in InSignal /\ NONE \in Values
    BY SMT DEF InSignal, Values
  <1>4. /\ call' \in Calls
        /\ call'.at = "vector" /\ call'.f = f /\ call'.start = start
        /\ call'.count = count /\ call'.fds = fds /\ call'.j = start
        /\ call'.undo = FALSE /\ call'.ret = 0 /\ call'.new = NONE
        /\ call'.before = trigger
    BY <1>2, <1>3 DEF Irq!Call, Calls
  <1>5. Inside'
    BY <1>4, CallsInside DEF Inside
  <1>6. start \in start .. start + count - 1
    BY SMT
  <1>7. LoopInv'
    BY <1>4, <1>6 DEF LoopInv, InSignal
  <1>8. BlockInv'
    <2>1. \A i \in InBlock' : ~(i < start)
      BY <1>4, SMT DEF InBlock
    <2>2. \A i \in InBlock' : Now(i)' = Old(i)'
      BY <1>4 DEF Now, Old
    <2> QED
      BY <1>4, <2>1, <2>2 DEF BlockInv
  <1>9. ClosedInv'
    BY <1>4, <1>5 DEF ClosedInv
  <1> QED
    BY <1>1, <1>4, <1>7, <1>8, <1>9, QuietKept

\* u32 sums that do not wrap are sums.
LEMMA Sums ==
  ASSUME NEW a \in 0 .. MaxU, NEW b \in 0 .. MaxU
  PROVE  /\ a + b <= MaxU => Irq!Plus(a, b) = a + b
         /\ a + b > MaxU => Irq!Plus(a, b) < a
  <1> DEFINE m == MaxU + 1
             x == a + b
             q == x \div m
             r == x % m
  <1>1. m \in Nat \ {0} /\ x \in Nat /\ x < 2 * m /\ MaxU \in Nat
    BY FeatureAssumption, SMT
  <1>2. q \in Nat /\ r \in Nat /\ r < m /\ x = m * q + r
    <2> HIDE DEF m, x
    <2> QED
      BY <1>1, SMT DEF q, r
  <1>3. q = 0 \/ q = 1
    <2> HIDE DEF m, x, q, r
    <2>1. q >= 2 => m * q >= 2 * m
      BY <1>1, <1>2, SMT
    <2> QED
      BY <1>1, <1>2, <2>1, SMT
  <1>4. r = x \/ r = x - m
    <2> HIDE DEF m, x, q, r
    <2>1. CASE q = 0
      BY <1>1, <1>2, <2>1, SMT
    <2>2. CASE q = 1
      BY <1>1, <1>2, <2>2, SMT
    <2> QED
      BY <1>3, <2>1, <2>2
  <1>5. Irq!Plus(a, b) = r
    BY DEF Irq!Plus
  <1> HIDE DEF r
  <1> QED
    BY <1>1, <1>2, <1>4, <1>5, SMT

\* UAFU_SET_IRQ and ERR_SET_IRQ start with a block inside of their feature.
LEMMA SetIrqKept ==
  ASSUME IrqInv,
         \/ \E start, count \in 0 .. MaxU, fds \in Irq!FdSets :
              Irq!UafuSetIrq(start, count, fds)
         \/ \E fd \in Evts \cup {NONE} : Irq!ErrSetIrq(fd)
  PROVE  IrqInv'
  <1> USE DEF Irq!ctxs, Irq!users
  <1>1. opens \in {0, 1} /\ (opens > 0 => opens = 1) /\ 1 # 0
    <2>1. opens \in {0, 1}
      BY DEF IrqInv, IrqTypes
    <2> QED
      BY <2>1, SMT
  <1>2. /\ Irq!CtxNum("uint") = NumUint /\ Irq!CtxNum("err") = NumErr
        /\ NumUint \in Nat /\ NumErr \in Nat /\ MaxU \in Nat
        /\ "uint" \in Irq!Features /\ "err" \in Irq!Features
    BY FeatureAssumption DEF Irq!CtxNum, Irq!Features
  <1>3. ASSUME NEW start \in 0 .. MaxU, NEW count \in 0 .. MaxU,
               NEW fds \in Irq!FdSets, Irq!UafuSetIrq(start, count, fds)
        PROVE  IrqInv'
    <2>1. /\ opens > 0 /\ call = Irq!Idle
          /\ ~(Irq!Plus(start, count) > NumUint)
          /\ ~(Irq!Plus(start, count) < start) /\ count # 0
          /\ call' = Irq!Call("uint", start, count, fds)
          /\ UNCHANGED <<trigger, named, irqArg, running, refs, fdOpen, opens>>
      BY <1>3 DEF Irq!UafuSetIrq, Irq!SetBlock
    <2>2. /\ start + count <= MaxU => Irq!Plus(start, count) = start + count
          /\ start + count > MaxU => Irq!Plus(start, count) < start
      BY Sums
    <2>3. /\ start \in Nat /\ count \in Nat /\ count > 0
          /\ start + count <= NumUint
      BY <1>2, <2>1, <2>2, SMT
    <2>4. fds \in FdArrays /\ \A i \in 0 .. count - 1 : fds[i] \in Values
      <3>1. \A i \in 0 .. count - 1 : i \in 0 .. NumUint - 1
        BY <1>2, <2>3, SMT
      <3> QED
        BY <3>1 DEF FdArrays, Irq!FdSets, Values
    <2> QED
      BY <1>1, <1>2, <2>1, <2>3, <2>4, StartKept
  <1>4. ASSUME NEW fd \in Evts \cup {NONE}, Irq!ErrSetIrq(fd)
        PROVE  IrqInv'
    <2> DEFINE fds == [i \in {0} |-> fd]
    <2>1. /\ opens > 0 /\ NumErr > 0 /\ call = Irq!Idle
          /\ call' = Irq!Call("err", 0, 1, fds)
          /\ UNCHANGED <<trigger, named, irqArg, running, refs, fdOpen, opens>>
      BY <1>4 DEF Irq!ErrSetIrq, Irq!SetBlock
    <2>2. /\ 0 \in Nat /\ 1 \in Nat /\ 1 > 0 /\ 0 + 1 <= NumErr
          /\ \A i \in 0 .. 1 - 1 : i = 0
      BY <1>2, <2>1, SMT
    <2>3. fds \in FdArrays /\ fds[0] \in Values
      BY DEF FdArrays, Values
    <2> HIDE DEF fds
    <2>4. \A i \in 0 .. 1 - 1 : fds[i] \in Values
      BY <2>2, <2>3
    <2> QED
      BY <1>1, <1>2, <2>1, <2>2, <2>3, <2>4, StartKept
  <1> QED
    BY <1>3, <1>4

\* At the end of a call of the last close its feature has no tied vector.
LEMMA DoneUntied ==
  ASSUME IrqInv, call.at = "done", opens = 0
  PROVE  /\ Inside /\ call.fds = <<>>
         /\ call.f = "uint" =>
              \A v \in Irq!Vectors : v[1] = "err" => trigger[v] = NONE
         /\ \A v \in Irq!Vectors : v[1] = call.f => trigger[v] = NONE
  <1>1. Inside
    BY CallsInside DEF Inside
  <1>2. /\ call.fds = <<>> /\ call.start = 0 /\ call.count = Irq!CtxNum(call.f)
        /\ call.f = "uint" =>
             \A v \in Irq!Vectors : v[1] = "err" => trigger[v] = NONE
    BY <1>1 DEF IrqInv, ClosedInv
  <1>3. call.ret = 0
    BY <1>1, <1>2 DEF IrqInv, LoopInv
  <1>4. \A i \in InBlock : Now(i) = NONE
    BY <1>1, <1>2, <1>3 DEF IrqInv, BlockInv, Want
  <1>5. ASSUME NEW v \in Irq!Vectors, v[1] = call.f PROVE trigger[v] = NONE
    <2>1. /\ v = <<call.f, v[2]>> /\ v[2] \in Int
          /\ 0 <= v[2] /\ v[2] < Irq!CtxNum(call.f)
      BY <1>5, VectorFacts
    <2>2. Irq!CtxNum(call.f) \in Nat
      BY FeatureAssumption DEF Irq!CtxNum
    <2>3. v[2] \in InBlock
      BY <1>2, <2>1, <2>2, SMT DEF InBlock
    <2> QED
      BY <1>4, <2>1, <2>3 DEF Now
  <1> QED
    BY <1>1, <1>2, <1>5

\* The last close starts with one feature and goes on with the other.
LEMMA CloseKept ==
  ASSUME IrqInv, (\E f \in Irq!Features : Irq!Close(f)) \/ Irq!CloseNext
  PROVE  IrqInv'
  <1> USE DEF Irq!ctxs, Irq!users
  <1>1. /\ Irq!CtxNum("uint") = NumUint /\ Irq!CtxNum("err") = NumErr
        /\ NumUint \in Nat /\ NumErr \in Nat
        /\ "uint" \in Irq!Features /\ "err" \in Irq!Features
        /\ <<>> \in FdArrays
    BY FeatureAssumption DEF Irq!CtxNum, Irq!Features, FdArrays
  <1>2. CASE \E f \in Irq!Features : Irq!Close(f)
    <2>1. PICK f \in Irq!Features : Irq!Close(f)
      BY <1>2
    <2>2. /\ call = Irq!Idle /\ opens' = 0
          /\ f = IF NumErr > 0 THEN "err" ELSE "uint"
          /\ ~(0 >= Irq!CtxNum(f))
          /\ call' = Irq!Call(f, 0, Irq!CtxNum(f), <<>>)
          /\ UNCHANGED <<trigger, named, irqArg, running, refs, fdOpen>>
      BY <2>1 DEF Irq!Close, Irq!SetBlock, Irq!BlockRefused
    <2>3. Irq!CtxNum(f) \in Nat
      BY FeatureAssumption DEF Irq!CtxNum
    <2>4. 0 \in Nat /\ Irq!CtxNum(f) > 0 /\ 0 + Irq!CtxNum(f) <= Irq!CtxNum(f)
      BY <2>2, <2>3, SMT
    <2>5. f = "uint" => \A v \in Irq!Vectors : v[1] # "err"
      <3> SUFFICES ASSUME f = "uint", NEW v \in Irq!Vectors, v[1] = "err"
                   PROVE  FALSE
        OBVIOUS
      <3>1. ~(NumErr > 0)
        BY <2>2
      <3>2. v[2] \in Int /\ 0 <= v[2] /\ v[2] < NumErr
        BY <1>1, VectorFacts
      <3> QED
        BY <1>1, <3>1, <3>2, SMT
    <2> QED
      BY <1>1, <2>2, <2>3, <2>4, <2>5, StartKept
  <1>3. CASE Irq!CloseNext
    <2>1. /\ call.at = "done" /\ call.f = "err" /\ NumUint > 0
          /\ call' = Irq!Call("uint", 0, NumUint, <<>>)
          /\ UNCHANGED <<trigger, named, irqArg, running, refs, fdOpen, opens>>
      BY <1>3 DEF Irq!CloseNext
    <2>2. 0 \in Nat /\ 0 + NumUint <= NumUint
      BY <1>1, SMT
    <2>3. opens = 0 => \A v \in Irq!Vectors : v[1] = "err" => trigger[v] = NONE
      BY <2>1, DoneUntied
    <2>4. opens' \in {0, 1}
      BY <2>1 DEF IrqInv, IrqTypes
    <2> QED
      BY <1>1, <2>1, <2>2, <2>3, <2>4, StartKept
  <1> QED
    BY <1>2, <1>3

\* The call ends; after the last close no vector is tied.
LEMMA ReturnKept ==
  ASSUME IrqInv, Irq!Return
  PROVE  IrqInv'
  <1>1. /\ call.at = "done" /\ call' = Irq!Idle
        /\ ~(call.fds = <<>> /\ call.f = "err" /\ NumUint > 0)
        /\ UNCHANGED <<trigger, named, irqArg, running, refs, fdOpen, opens>>
    BY DEF Irq!Return, Irq!At, Irq!ctxs, Irq!users
  <1>2. ASSUME opens = 0, NEW v \in Irq!Vectors PROVE trigger[v] = NONE
    <2>1. /\ Inside /\ call.fds = <<>>
          /\ call.f = "uint" =>
               \A w \in Irq!Vectors : w[1] = "err" => trigger[w] = NONE
          /\ \A w \in Irq!Vectors : w[1] = call.f => trigger[w] = NONE
      BY <1>1, <1>2, DoneUntied
    <2>2. call.f \in {"uint", "err"} /\ v[1] \in {"uint", "err"}
      <3>1. call \in Calls
        BY <2>1 DEF IrqInv, IrqTypes, Inside
      <3> QED
        BY <3>1, VectorFacts DEF Calls, Irq!Features
    <2>3. call.f = "err" => v[1] # "uint"
      <3> SUFFICES ASSUME call.f = "err", v[1] = "uint" PROVE FALSE
        OBVIOUS
      <3>1. ~(NumUint > 0) /\ NumUint \in Nat
        BY <1>1, <2>1, FeatureAssumption
      <3>2. v[2] \in Int /\ 0 <= v[2] /\ v[2] < NumUint
        BY VectorFacts DEF Irq!CtxNum
      <3> QED
        BY <3>1, <3>2, SMT
    <2> QED
      BY <2>1, <2>2, <2>3
  <1>3. ClosedInv'
    BY <1>1, <1>2 DEF ClosedInv, Inside
  <1>4. /\ \A v \in Irq!Vectors : Agree(v)
        /\ Inside => call.at # "put" /\ call.new = NONE
    BY <1>1, QuietFacts
  <1>5. opens' \in {0, 1}
    BY <1>1 DEF IrqInv, IrqTypes
  <1> QED
    BY <1>1, <1>3, <1>4, <1>5, QuietKept
\* Steps that leave the call and the triggers alone leave the block as it is.
LEMMA BlockRests ==
  ASSUME BlockInv, UNCHANGED <<call, trigger>>
  PROVE  BlockInv'
  <1>1. Irq!Block(call)' = Irq!Block(call)
    BY DEF Irq!Block
  <1>2. InBlock' = InBlock /\ Inside' = Inside
    BY DEF InBlock, Inside
  <1>3. \A i : Now(i)' = Now(i) /\ Old(i)' = Old(i) /\ Want(i)' = Want(i)
    BY DEF Now, Old, Want
  <1>4. Now(call.j)' = Now(call.j) /\ Want(call.j)' = Want(call.j)
    BY DEF Now, Want
  <1> HIDE DEF Now, Old, Want, InBlock
  <1> QED
    BY <1>1, <1>2, <1>3, <1>4 DEF BlockInv


----------------------------------------------------------------------------
(* User programs and the hardware run beside the call *)

\* Opening and closing an eventfd changes its references only.
LEMMA EventfdKept ==
  ASSUME IrqInv, NEW e \in Evts, Irq!OpenEventfd(e) \/ Irq!CloseEventfd(e)
  PROVE  IrqInv'
  <1>1. UNCHANGED <<trigger, named, irqArg, running, opens, call>>
    BY DEF Irq!OpenEventfd, Irq!CloseEventfd, Irq!ctxs
  <1>2. /\ refs \in [Evts -> Int] /\ fdOpen \in [Evts -> BOOLEAN]
        /\ \A x \in Evts : Cardinality(Tied(x)) \in Nat
    <2>1. \A x \in Evts : Tied(x) \subseteq Irq!Vectors
      BY DEF Tied
    <2>2. \A x \in Evts : IsFiniteSet(Tied(x))
      BY <2>1, VectorFacts, FS_Subset
    <2> QED
      BY <2>2, FS_CardinalityType DEF IrqInv, IrqTypes
  <1>3. \A x \in Evts : refs[x] = (IF fdOpen[x] THEN 1 ELSE 0)
           + Cardinality(Tied(x)) + (IF Inside /\ call.new = x THEN 1 ELSE 0)
    BY DEF IrqInv, RefInv
  <1>4. /\ refs' \in [Evts -> Int] /\ fdOpen' \in [Evts -> BOOLEAN]
        /\ \A x \in Evts : refs'[x] = (IF fdOpen'[x] THEN 1 ELSE 0)
             + Cardinality(Tied(x)) + (IF Inside /\ call.new = x THEN 1 ELSE 0)
    <2>1. CASE Irq!OpenEventfd(e)
      <3>1. /\ ~fdOpen[e] /\ refs[e] = 0
            /\ fdOpen' = [fdOpen EXCEPT ![e] = TRUE]
            /\ refs' = [refs EXCEPT ![e] = 1]
        BY <2>1 DEF Irq!OpenEventfd
      <3>2. /\ refs' \in [Evts -> Int] /\ fdOpen' \in [Evts -> BOOLEAN]
            /\ refs'[e] = 1 /\ fdOpen'[e]
            /\ \A x \in Evts \ {e} : refs'[x] = refs[x] /\ fdOpen'[x] = fdOpen[x]
        BY <1>2, <3>1, SMT
      <3>3. 1 = 1 + Cardinality(Tied(e)) + (IF Inside /\ call.new = e THEN 1 ELSE 0)
        BY <1>2, <1>3, <3>1, SMT
      <3> QED
        BY <1>3, <3>2, <3>3
    <2>2. CASE Irq!CloseEventfd(e)
      <3>1. /\ fdOpen[e]
            /\ fdOpen' = [fdOpen EXCEPT ![e] = FALSE]
            /\ refs' = [refs EXCEPT ![e] = refs[e] - 1]
        BY <2>2 DEF Irq!CloseEventfd
      <3>2. /\ refs' \in [Evts -> Int] /\ fdOpen' \in [Evts -> BOOLEAN]
            /\ refs'[e] = refs[e] - 1 /\ ~fdOpen'[e]
            /\ \A x \in Evts \ {e} : refs'[x] = refs[x] /\ fdOpen'[x] = fdOpen[x]
        BY <1>2, <3>1, SMT
      <3>3. refs[e] - 1 = 0 + Cardinality(Tied(e))
                          + (IF Inside /\ call.new = e THEN 1 ELSE 0)
        BY <1>2, <1>3, <3>1, SMT
      <3> QED
        BY <1>3, <3>2, <3>3
    <2> QED
      BY <2>1, <2>2
  <1>5. IrqTypes'
    BY <1>1, <1>4 DEF IrqInv, IrqTypes
  <1>6. RefInv'
    BY <1>1, <1>4, SameTied DEF RefInv, Inside
  <1>7. LoopInv' /\ LineInv'
    BY <1>1 DEF IrqInv, LoopInv, LineInv, WorkInv, Agree, Working, Inside,
                Irq!V, Irq!Fd
  <1>8. RunInv'
    BY <1>1 DEF IrqInv, RunInv, Inside, Irq!V
  <1>9. BlockInv' /\ ClosedInv'
    BY <1>1, BlockRests DEF IrqInv, ClosedInv, Inside
  <1> QED
    BY <1>5, <1>6, <1>7, <1>8, <1>9 DEF IrqInv

\* A handler starts and ends; a file is opened.
LEMMA HandlerKept ==
  ASSUME IrqInv,
         \/ \E v \in Irq!Vectors : Irq!Interrupt(v) \/ Irq!Signal(v)
         \/ Irq!Open
  PROVE  IrqInv'
  <1> USE DEF Irq!ctxs, Irq!users
  <1>1. UNCHANGED <<trigger, named, irqArg, refs, fdOpen, call>>
    BY DEF Irq!Interrupt, Irq!Signal, Irq!Open
  <1>2. /\ running \in [Irq!Vectors -> Values] /\ opens \in {0, 1}
        /\ irqArg \in [Irq!Vectors -> Values] /\ NONE \in Values
    BY DEF IrqInv, IrqTypes, Values
  <1>3. /\ running' \in [Irq!Vectors -> Values]
        /\ \A v \in Irq!Vectors :
             running'[v] \in {running[v], irqArg[v], NONE}
    BY <1>2 DEF Irq!Interrupt, Irq!Signal, Irq!Open
  <1>4. opens' = opens \/ opens' = 1
    <2>1. opens < 1 => opens + 1 = 1
      BY <1>2, SMT
    <2> QED
      BY <2>1 DEF Irq!Interrupt, Irq!Signal, Irq!Open
  <1>5. 1 # 0
    BY SMT
  <1>6. IrqTypes'
    BY <1>1, <1>2, <1>3, <1>4 DEF IrqInv, IrqTypes
  <1>7. LoopInv' /\ LineInv'
    BY <1>1 DEF IrqInv, LoopInv, LineInv, WorkInv, Agree, Working, Inside,
                Irq!V, Irq!Fd
  <1>8. RunInv'
    BY <1>1, <1>3 DEF IrqInv, RunInv, Inside, Irq!V
  <1>9. RefInv' /\ BlockInv'
    BY <1>1, SameTied, BlockRests DEF IrqInv, RefInv, Inside
  <1>10. ClosedInv'
    BY <1>1, <1>4, <1>5 DEF IrqInv, ClosedInv, Inside
  <1> QED
    BY <1>6, <1>7, <1>8, <1>9, <1>10 DEF IrqInv

----------------------------------------------------------------------------
\* Nothing is tied at first.
LEMMA IrqInit == Irq!Init => IrqInv
  <1> SUFFICES ASSUME Irq!Init PROVE IrqInv
    OBVIOUS
  <1> USE DEF Irq!Init
  <1>1. ~Inside /\ ~Working
    BY DEF Inside, Working
  <1>2. IrqTypes
    <2>1. 0 \in Int /\ NONE \in Values
      BY SMT DEF Values
    <2> QED
      BY <2>1 DEF IrqTypes
  <1>3. LineInv /\ RunInv
    BY <1>1 DEF LineInv, RunInv, Agree
  <1>4. RefInv
    <2>1. \A e \in Evts : Tied(e) = {}
      BY FeatureAssumption DEF Tied
    <2>2. Cardinality({}) = 0 /\ 0 = 0 + 0 + 0
      BY FS_EmptySet, SMT
    <2> QED
      BY <1>1, <2>1, <2>2 DEF RefInv
  <1>5. LoopInv /\ BlockInv /\ ClosedInv
    BY <1>1 DEF LoopInv, BlockInv, ClosedInv
  <1> QED
    BY <1>2, <1>3, <1>4, <1>5 DEF IrqInv

\* Every step keeps the invariant.
LEMMA IrqStep == IrqInv /\ Irq!Next => IrqInv'
  <1> SUFFICES ASSUME IrqInv, Irq!Next PROVE IrqInv'
    OBVIOUS
  <1>1. CASE Irq!CallStep
    BY <1>1, MoveKept, FreeIrqKept, PutKept, NameKept, NewKept, RequestKept,
       StoreKept, NextVectorKept, CloseKept, ReturnKept
       DEF Irq!CallStep, Irq!VectorStep
  <1> QED
    BY <1>1, EventfdKept, HandlerKept, SetIrqKept, CloseKept DEF Irq!Next

\* ... and a step of another feature does not touch it.
LEMMA IrqRests == IrqInv /\ UNCHANGED irqVars => IrqInv'
  <1> SUFFICES ASSUME IrqInv, UNCHANGED irqVars PROVE IrqInv'
    OBVIOUS
  <1> USE DEF irqVars
  <1>1. IrqTypes' /\ RunInv'
    BY DEF IrqInv, IrqTypes, RunInv, Inside, Irq!V
  <1>2. LoopInv' /\ LineInv'
    BY DEF IrqInv, LoopInv, LineInv, WorkInv, Agree, Working, Inside,
           Irq!V, Irq!Fd
  <1>3. RefInv' /\ BlockInv'
    BY SameTied, BlockRests DEF IrqInv, RefInv, Inside
  <1>4. ClosedInv'
    BY DEF IrqInv, ClosedInv, Inside
  <1> QED
    BY <1>1, <1>2, <1>3, <1>4 DEF IrqInv

\* The invariant of the vectors holds in every reachable state.
LEMMA IrqInvHolds == FeatSpec => []IrqInv
  <1>1. FeatInit => IrqInv
    BY IrqInit DEF FeatInit
  <1>2. IrqInv /\ [FeatNext]_allVars => IrqInv'
    BY IrqStep, IrqRests DEF FeatNext, allVars
  <1> QED
    BY <1>1, <1>2, PTL DEF FeatSpec

\* For any vectors and eventfds and any interleaving of calls, handlers and
\* user programs: no handler signals a released eventfd, and between calls the
\* references and the three records of every vector agree.
THEOREM EventfdsAlwaysRight == FeatSpec => []EventfdsRight
  <1>1. IrqInv => Irq!SignalAlive
    <2> SUFFICES ASSUME IrqInv, NEW v \in Irq!Vectors, running[v] # NONE
                 PROVE  refs[running[v]] > 0
      BY DEF Irq!SignalAlive
    <2> DEFINE e == running[v]
    <2>1. e \in Evts
      BY DEF IrqInv, IrqTypes, Values
    <2> HIDE DEF e
    <2>2. trigger[v] = e \/ (Inside /\ call.new = e)
      <3>1. CASE Working /\ v = Irq!V /\ irqArg[v] = e
        <4>1. call.at \in InSignal /\ WorkInv
          BY <3>1 DEF IrqInv, IrqTypes, LineInv, Working, Inside, Calls
        <4>2. e # NONE
          BY DEF e
        <4> QED
          BY <3>1, <4>1, <4>2 DEF WorkInv, InSignal, Agree, Working
      <3>2. CASE irqArg[v] = e /\ ~(Working /\ v = Irq!V)
        BY <3>2 DEF IrqInv, LineInv, Agree
      <3> QED
        BY <3>1, <3>2 DEF IrqInv, RunInv, e
    <2>3. IsFiniteSet(Tied(e)) /\ (trigger[v] = e => v \in Tied(e))
      <3>1. Tied(e) \subseteq Irq!Vectors
        BY DEF Tied
      <3> QED
        BY <3>1, VectorFacts, FS_Subset DEF Tied
    <2>4. Cardinality(Tied(e)) \in Nat
      BY <2>3, FS_CardinalityType
    <2>5. trigger[v] = e => Cardinality(Tied(e)) # 0
      BY <2>3, FS_EmptySet
    <2>6. refs[e] = (IF fdOpen[e] THEN 1 ELSE 0) + Cardinality(Tied(e))
                    + (IF Inside /\ call.new = e THEN 1 ELSE 0)
      BY <2>1 DEF IrqInv, RefInv
    <2>7. refs[e] > 0
      BY <2>2, <2>4, <2>5, <2>6, SMT
    <2> QED
      BY <2>7 DEF e
  <1>2. IrqInv => Irq!Accounted
    <2> SUFFICES ASSUME IrqInv, call = Irq!Idle PROVE Irq!Accounted
      BY DEF Irq!Accounted
    <2>1. ~Inside /\ ~Working
      BY DEF Inside, Working
    <2>2. \A v \in Irq!Vectors : Agree(v)
      BY <2>1 DEF IrqInv, LineInv
    <2>3. ASSUME NEW e \in Evts
          PROVE  refs[e] = (IF fdOpen[e] THEN 1 ELSE 0) + Cardinality(Tied(e))
      <3>1. refs[e] = (IF fdOpen[e] THEN 1 ELSE 0) + Cardinality(Tied(e)) + 0
        BY <2>1 DEF IrqInv, RefInv
      <3>2. Cardinality(Tied(e)) \in Nat
        <4>1. Tied(e) \subseteq Irq!Vectors
          BY DEF Tied
        <4> QED
          BY <4>1, VectorFacts, FS_Subset, FS_CardinalityType
      <3> QED
        BY <3>1, <3>2, SMT
    <2>4. \A v \in Irq!Vectors : irqArg[v] = trigger[v]
                                 /\ named[v] = (trigger[v] # NONE)
      BY <2>2 DEF Agree
    <2>5. \A e \in Evts :
            refs[e] = (IF fdOpen[e] THEN 1 ELSE 0)
                      + Cardinality({v \in Irq!Vectors : trigger[v] = e})
      BY <2>3 DEF Tied
    <2>6. \A S : Irq!Cardinality(S) = Cardinality(S)
      BY DEF Irq!Cardinality, Cardinality
    <2> QED
      BY <2>4, <2>5, <2>6 DEF Irq!Accounted
  <1> QED
    BY <1>1, <1>2, IrqInvHolds, PTL DEF EventfdsRight

\* A call ties its block, or unties a beginning of it when it fails, and
\* changes no other vector, whatever block a user names and whichever step
\* fails; the last close leaves nothing tied.
THEOREM VectorsAlwaysRight == FeatSpec => []VectorsRight
  <1>1. IrqInv => Irq!BlockOutcome
    <2> SUFFICES ASSUME IrqInv, call.at = "done" PROVE Irq!BlockOutcome
      BY DEF Irq!BlockOutcome, Irq!At
    <2>1. Inside /\ call \in Calls
      BY CallsInside DEF IrqInv, IrqTypes, Inside
    <2>2. /\ call.f \in Irq!Features /\ call.start \in Nat /\ call.count \in Nat
          /\ call.start + call.count <= Irq!CtxNum(call.f)
          /\ Irq!CtxNum(call.f) \in Nat
      BY <2>1, FeatureAssumption DEF IrqInv, LoopInv, Calls, Irq!CtxNum
    <2>3. \A i \in InBlock : i \in Int /\ 0 <= i /\ i < Irq!CtxNum(call.f)
      BY <2>2, SMT DEF InBlock
    <2>4. Irq!Block(call) = {<<call.f, i>> : i \in InBlock}
      BY DEF Irq!Block, InBlock
    <2>5. Irq!Block(call) \subseteq Irq!Vectors
      BY <2>2, <2>3, <2>4, VectorFacts
    <2>6. \A v \in Irq!Block(call) : v[2] \in InBlock /\ v = <<call.f, v[2]>>
      BY <2>4, SMT
    <2>7. \A v \in Irq!Vectors \ Irq!Block(call) : trigger[v] = call.before[v]
      BY <2>1 DEF IrqInv, BlockInv
    <2>8. CASE call.ret = 0
      <3>1. \A i \in InBlock : Now(i) = Want(i)
        BY <2>1, <2>8 DEF IrqInv, BlockInv
      <3>2. \A v \in Irq!Block(call) : trigger[v] = Want(v[2])
        BY <2>6, <3>1 DEF Now
      <3> QED
        BY <2>5, <2>7, <2>8, <3>2 DEF Irq!BlockOutcome, Want
    <2>9. CASE call.ret # 0
      <3>1. PICK k \in InBlock : \A i \in InBlock :
              Now(i) = IF i <= k THEN NONE ELSE Old(i)
        BY <2>1, <2>9 DEF IrqInv, BlockInv
      <3>2. <<call.f, k>> \in Irq!Block(call) /\ <<call.f, k>>[2] = k
        BY <2>4
      <3>3. \A v \in Irq!Block(call) :
              trigger[v] = IF v[2] <= k THEN NONE ELSE call.before[v]
        BY <2>6, <3>1 DEF Now, Old
      <3>4. \E l \in Irq!Block(call) : \A v \in Irq!Block(call) :
              trigger[v] = IF v[2] <= l[2] THEN NONE ELSE call.before[v]
        BY <3>2, <3>3
      <3> QED
        BY <2>5, <2>7, <2>9, <3>4 DEF Irq!BlockOutcome
    <2> QED
      BY <2>8, <2>9
  <1>2. IrqInv => Irq!NothingTiedWhenClosed
    BY DEF IrqInv, ClosedInv, Inside, Irq!NothingTiedWhenClosed
  <1> QED
    BY <1>1, <1>2, IrqInvHolds, PTL DEF VectorsRight
=============================================================================
