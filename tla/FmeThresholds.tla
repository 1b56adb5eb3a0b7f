--------------------------- MODULE FmeThresholds ---------------------------
(***************************************************************************)
(* The thermal and power thresholds of the FME (fme-main.c).  All thermal  *)
(* thresholds, their enables and the policy are fields of one register,    *)
(* both power thresholds of another.  A sysfs store reads the register,    *)
(* validates the value and writes the register back, under pdata->lock.    *)
(* Threshold fields are seven bits wide; values are written as a u8.       *)
(***************************************************************************)
EXTENDS Integers

CONSTANTS Users,
          Values,     \* bytes the users store
          NONE

Width == 2^7
ThermalMax == 100
PWR_THRESHOLD_MAX == 2^7 - 1

Thermal == {"thshold1", "thshold2"}
Power   == {"threshold1", "threshold2"}
Fields  == Thermal \cup {"policy"} \cup Power

VARIABLES reg,        \* the fields of both registers
          enable,     \* the enable bits of the thermal thresholds
          lockBit,    \* lock_bit of the FME capability
          lock, op,
          stored      \* per field: the value of the last store that succeeded

regs == <<reg, enable, lockBit>>
vars == <<regs, lock, op, stored>>

Idle == [at |-> "idle"]

Init ==
  /\ reg = [f \in Fields |-> 0]
  /\ enable = [f \in Thermal |-> FALSE]
  /\ lockBit \in BOOLEAN
  /\ lock = NONE
  /\ op = [u \in Users |-> Idle]
  /\ stored = reg

\* Mutant: the lock is not taken.
EnterUnlocked(u, f, v) ==
  /\ op[u] = Idle
  /\ op' = [op EXCEPT ![u] = [at |-> "store", field |-> f, value |-> v,
                              cur |-> reg, en |-> enable]]
  /\ UNCHANGED <<regs, lock, stored>>

\* mutex_lock, then the register is read.
Enter(u, f, v) ==
  /\ op[u] = Idle
  /\ lock = NONE
  /\ lock' = u
  /\ op' = [op EXCEPT ![u] = [at |-> "store", field |-> f, value |-> v,
                              cur |-> reg, en |-> enable]]
  /\ UNCHANGED <<regs, stored>>

Leave(u) == lock' = NONE /\ op' = [op EXCEPT ![u] = Idle]

Refuse(u) == Leave(u) /\ UNCHANGED <<regs, stored>>

\* The registers have other fields than the one stored: these are written
\* back as they were read.
SameRegister(f) == IF f \in Power THEN Power ELSE Thermal \cup {"policy"}

Write(u, en) ==
  LET c == op[u] IN
  /\ reg' = [f \in Fields |-> IF f = c.field THEN c.value % Width
                              ELSE IF f \in SameRegister(c.field) THEN c.cur[f]
                              ELSE reg[f]]
  /\ enable' = en
  /\ stored' = [stored EXCEPT ![c.field] = c.value]
  /\ Leave(u)
  /\ UNCHANGED lockBit

Storing(u, f) == op[u].at = "store" /\ op[u].field = f

\* thermal_threshold1_store and thermal_threshold2_store: zero disables.
ThermalRefused(v) == lockBit \/ v > ThermalMax

ThermalStore(u, f) ==
  /\ Storing(u, f)
  /\ IF ThermalRefused(op[u].value)
     THEN Refuse(u)
     ELSE Write(u, [op[u].en EXCEPT ![f] = op[u].value # 0])

thermal_threshold1_store(u) == ThermalStore(u, "thshold1")
thermal_threshold2_store(u) == ThermalStore(u, "thshold2")

thermal_threshold1_policy_store(u) ==
  /\ Storing(u, "policy")
  /\ IF op[u].value \in {0, 1} THEN Write(u, op[u].en) ELSE Refuse(u)

PowerStore(u, f) ==
  /\ Storing(u, f)
  /\ IF op[u].value <= PWR_THRESHOLD_MAX THEN Write(u, enable) ELSE Refuse(u)

pwr_threshold1_store(u) == PowerStore(u, "threshold1")
pwr_threshold2_store(u) == PowerStore(u, "threshold2")

Next ==
  \E u \in Users :
    \/ \E f \in Fields, v \in Values : Enter(u, f, v)
    \/ thermal_threshold1_store(u) \/ thermal_threshold2_store(u)
    \/ thermal_threshold1_policy_store(u)
    \/ pwr_threshold1_store(u) \/ pwr_threshold2_store(u)

Spec == Init /\ [][Next]_vars

----------------------------------------------------------------------------
(* Properties *)

\* Every field reads back as the last value whose store reported success: no
\* store of another field of the register undoes it, and no value accepted is
\* cut off by the width of the field.  A temperature threshold is enabled
\* exactly when the value stored is not zero.
AsStored ==
  /\ reg = stored
  /\ \A f \in Thermal : enable[f] <=> stored[f] # 0
=============================================================================
