------------------------------ MODULE NorLock -------------------------------
(***************************************************************************)
(* Block protection of a SPI NOR flash: stm_lock and stm_unlock of         *)
(* spi-nor.c.  The flash protects a power-of-two fraction of itself, at    *)
(* its top or, where its status register has a TB bit, at its bottom.  The *)
(* three BP bits are a number 0..7; the calls run under the flash's lock.  *)
(***************************************************************************)
EXTENDS Integers, FiniteSetsExt

CONSTANTS
    LogSize,     \* the flash has 2^LogSize units of protection
    HasTB,       \* SNOR_F_HAS_SR_TB
    Edges        \* bound: where the ranges of calls begin and end

VARIABLES
    bp, tb, srwd,  \* fields of the status register
    last           \* the last call: its kind, range and return code

vars == <<bp, tb, srwd, last>>

Size == 2^LogSize
Region(ofs, len) == ofs .. ofs + len - 1

Init == bp = 0 /\ tb = FALSE /\ srwd = FALSE /\ last = [k |-> "none", ret |-> 0]

\* stm_get_locked_range: the units protected.
LockedRange(b, bottom) ==
    IF b = 0 THEN {}
    ELSE LET len == Size \div 2^(7 - b)
         IN  IF HasTB /\ bottom THEN Region(0, len) ELSE Region(Size - len, len)

Locked == LockedRange(bp, tb)

\* stm_check_lock_status_sr
IsLocked(region) == region \subseteq Locked
IsUnlocked(region) == region \cap Locked = {}

Below(ofs) == Region(0, ofs)
Above(ofs, len) == Region(ofs + len, Size - (ofs + len))

\* ilog2 and order_base_2
FloorLog2(n) == CHOOSE k \in 0..LogSize : 2^k <= n /\ n < 2^(k + 1)
CeilLog2(n) == IF n = 0 THEN 0 ELSE Min({k \in 0..LogSize : n <= 2^k})

Returns(k, ofs, len, r) ==
    last' = [k |-> k, region |-> Region(ofs, len), ret |-> r]

\* write_sr, unless nothing changes or the new field fails the check.
WriteSr(b, bottom, wd, ok) ==
    IF [b |-> b, t |-> bottom, w |-> wd] = [b |-> bp, t |-> tb, w |-> srwd]
    THEN UNCHANGED <<bp, tb, srwd>>
    ELSE ok /\ bp' = b /\ tb' = bottom /\ srwd' = wd

\* The BP field that locks no more than n units.
Protect(n) == 7 - (LogSize - FloorLog2(n))

Grows(b) == b >= bp

\* stm_lock
Lock(ofs, len) ==
    LET region == Region(ofs, len)
        canBottom == HasTB /\ IsLocked(Below(ofs))
        canTop == IsLocked(Above(ofs, len))
        useTop == canTop
        lockLen == IF useTop THEN Size - ofs ELSE ofs + len
        b == Protect(lockLen)
    IN  IF IsLocked(region)
        THEN Returns("lock", ofs, len, 0) /\ UNCHANGED <<bp, tb, srwd>>
        ELSE \/ /\ canBottom \/ canTop
                /\ b \in 1..7
                /\ WriteSr(b, ~useTop, TRUE, Grows(b))
                /\ Returns("lock", ofs, len, 0)
             \/ /\ \/ ~(canBottom \/ canTop) \/ b \notin 1..7
                   \/ ~Grows(b)
                /\ Returns("lock", ofs, len, -1)
                /\ UNCHANGED <<bp, tb, srwd>>

\* Mutant: what remains locked is rounded down.
RemainDown(n) == IF n = 0 THEN 0 ELSE 7 - (LogSize - FloorLog2(n))

\* The BP field that keeps n units locked.
Remain(n) == IF n = 0 THEN 0 ELSE 7 - (LogSize - CeilLog2(n))

Shrinks(b) == b <= bp

\* stm_unlock
Unlock(ofs, len) ==
    LET region == Region(ofs, len)
        canTop == IsUnlocked(Below(ofs))
        canBottom == HasTB /\ IsUnlocked(Above(ofs, len))
        useTop == canTop
        lockLen == IF useTop THEN Size - (ofs + len) ELSE ofs
        b == Remain(lockLen)
    IN  IF IsUnlocked(region)
        THEN Returns("unlock", ofs, len, 0) /\ UNCHANGED <<bp, tb, srwd>>
        ELSE \/ /\ canBottom \/ canTop
                /\ b \in 0..7
                /\ WriteSr(b, ~useTop, srwd /\ lockLen # 0, Shrinks(b))
                /\ Returns("unlock", ofs, len, 0)
             \/ /\ \/ ~(canBottom \/ canTop) \/ b \notin 0..7
                   \/ ~Shrinks(b)
                /\ Returns("unlock", ofs, len, -1)
                /\ UNCHANGED <<bp, tb, srwd>>

Next ==
    \E ofs, end \in Edges :
        ofs < end /\ (Lock(ofs, end - ofs) \/ Unlock(ofs, end - ofs))

Spec == Init /\ [][Next]_vars

-----------------------------------------------------------------------------
(* A lock protects nothing outside its range that was not protected, and   *)
(* an unlock opens nothing outside its range ("length of region that       *)
(* should remain locked"), with one exception: where no more than 1/128 of *)
(* the flash is to remain locked, its BP value is 0 and all is opened.     *)
WithinRange ==
    /\ last'.k = "lock" => Locked' \subseteq Locked \cup last'.region
    /\ last'.k = "unlock" =>
         LET rest == Locked \ last'.region
         IN  \/ rest \subseteq Locked'
             \/ bp' = 0 /\ Cardinality(rest) * 128 <= Size
OnlyRange == [][WithinRange]_vars

(* Stronger, and false where a 128th of the flash is a unit: an unlock     *)
(* opens nothing outside its range.                                        *)
RemainsLocked ==
    [][last'.k = "unlock" => (Locked \ last'.region) \subseteq Locked']_vars

(* False with TB.  "Only modify protection if it will not unlock other     *)
(* areas": a lock leaves everything protected that was.                    *)
LockKeepsLocked == [][last'.k = "lock" => Locked \subseteq Locked']_vars

(* False with TB.  "Only modify protection if it will not lock other       *)
(* areas": an unlock protects nothing that was not protected.              *)
UnlockLocksNothing == [][last'.k = "unlock" => Locked' \subseteq Locked]_vars

(* False, for the length is rounded down.  "length of region that should   *)
(* end up locked": a lock that returned 0 protects its range.              *)
LockCovers ==
    [][last'.k = "lock" /\ last'.ret = 0 => last'.region \subseteq Locked']_vars

=============================================================================
