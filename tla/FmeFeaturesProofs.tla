-------------------------- MODULE FmeFeaturesProofs -------------------------
(***************************************************************************)
(* For any threads, errors, monitors, events and values: thresholds read   *)
(* back as stored, counters are those asked for, and clearing the FME's    *)
(* errors loses none.  All three rest on one idea, pdata->lock: what its   *)
(* owner has read is what the register holds when it writes it back.       *)
(***************************************************************************)
EXTENDS FmeFeatures, TLAPS

USE ZenonT(30)

(* Thresholds.  Only the owner of the lock is in a store, so what it read  *)
(* is what the registers still hold when it writes.                        *)
Enables == [Thr!Thermal -> BOOLEAN]
Stores  == [at : {"store"}, field : Thr!Fields, value : Values,
            cur : [Thr!Fields -> Nat], en : Enables]

ThrInv ==
  /\ thrReg \in [Thr!Fields -> Nat] /\ enable \in Enables
  /\ op \in [Threads -> Stores \cup {Thr!Idle}]
  /\ \A u \in Threads : op[u] # Thr!Idle =>
       lock = u /\ op[u].cur = thrReg /\ op[u].en = enable
  /\ AsStored

----------------------------------------------------------------------------
(* Monitors M.  From the lock on a call owns the control register.         *)
Controls == [event : Events, freeze : BOOLEAN, port : Objs]
Kinds    == {"show", "freeze", "enable"}
Owning   == {"read", "write", "wait", "sample", "return"}
Waiting  == {"wait", "sample", "return"}
ArgFits(c) ==
  /\ c.kind = "show" => c.arg \in Events
  /\ c.kind = "freeze" => c.arg \in BOOLEAN
  /\ c.kind = "enable" => c.arg \in Objs

PerfCalls(M) == [at : {"lock"} \cup Owning, kind : Kinds, mon : M,
                 arg : Events \cup BOOLEAN \cup Objs, obj : Objs \cup {NONE},
                 cur : Controls \cup {NONE}, got : Events \cup {NONE},
                 got1 : Events \cup {NONE}]

PerfTypes(M) ==
  /\ perfCtl \in [M -> Controls] /\ ctr \in [M -> Events] /\ ctr1 \in Events
  /\ perfOp \in [Threads -> PerfCalls(M) \cup {Perf(M)!Idle}]
  /\ frozen \in [M -> BOOLEAN] /\ counted \in [M -> Objs]

(* What a call c that owns the registers of its monitor knows of them.     *)
Knows(c) ==
  /\ c.at = "write" => c.cur = perfCtl[c.mon]
  /\ c.at \in Waiting => c.kind = "show" /\ perfCtl[c.mon].event = c.arg
  /\ c.at = "sample" => ctr[c.mon] = c.arg
  /\ c.at = "return" => c.got = c.arg /\ (c.mon # "cache" => c.got1 = c.arg)
  /\ c.kind = "show" /\ c.mon \in {"fab", "dfab"} => perfCtl[c.mon].port = c.obj

PerfInv(M) ==
  /\ PerfTypes(M)
  /\ \A u \in Threads : perfOp[u] # Perf(M)!Idle =>
       /\ ArgFits(perfOp[u])
       /\ perfOp[u].at \in Owning => perfLock = u /\ Knows(perfOp[u])
  /\ Perf(M)!NoLostUpdate

----------------------------------------------------------------------------
(* Errors s.  While the register of a clear is masked it does not change.  *)
Masked   == {"read", "first", "next", "write", "write_first", "write_next",
             "unmask"}
Compared == {"first", "next", "write"}
Cleared  == {"write_first", "write_next"}

Reading  == {"next", "write", "write_first"}
OfFme    == {"first", "next", "write_first", "write_next"}

Low(s)  == s.errs \cup {MBP}
Bits(s) == s.errs \cup {MBP} \cup s.high

ErrTypes(s) ==
  /\ errBits \in [Err(s)!Regs -> SUBSET Bits(s)]
  /\ mask \in [Err(s)!Regs -> SUBSET Bits(s)]
  /\ errPc \in [Threads -> {"idle"} \cup Masked]
  /\ errReg \in [Threads -> Err(s)!Regs]
  /\ val \in [Threads -> SUBSET Bits(s)]
  /\ curErr \in [Threads -> SUBSET Bits(s)]
  /\ DOMAIN curFirst = Threads

(* What a clear has read is what the user has seen and, of the bits it has *)
(* masked, what the register still holds.                                  *)
MaskInv(s) ==
  /\ \A u \in Threads : errPc[u] # "idle" => errLock = u
  /\ \A r \in Err(s)!Regs :
       mask[r] = IF \E u \in Threads : errPc[u] # "idle" /\ errReg[u] = r
                 THEN Low(s) ELSE Err(s)!DefaultMask(r)
  /\ \A u \in Threads : errPc[u] \in Compared =>
       /\ curErr[u] \cap Low(s) = errBits[errReg[u]] \cap Low(s)
       /\ curErr[u] = val[u]

(* A record that clear u finds is still there when u drops it, or there    *)
(* was none and only an error u cannot mask has been recorded since.       *)
ClearInv(s, u) ==
  /\ errPc[u] \in OfFme => errReg[u] = "fme_err"
  /\ errPc[u] \in Reading /\ errReg[u] = "fme_err" =>
       \/ curFirst[u] = first
       \/ curFirst[u] = NONE /\ \A e \in Low(s) : first # <<"fme_err", e>>
  /\ errPc[u] \in Cleared => errBits["fme_err"] \cap Low(s) = {}

(* The record of an error of fme_err names a pending one, but for the time *)
(* between the two writes of a clear.                                      *)
RecordInv(s) ==
  /\ first = NONE => errBits["fme_err"] \cap Low(s) = {}
  /\ \A e \in Bits(s) : first = <<"fme_err", e>> =>
       \/ e \in errBits["fme_err"]
       \/ \E u \in Threads : errPc[u] = "write_first" /\ curFirst[u] = first

FirstInv(s) == RecordInv(s) /\ \A u \in Threads : ClearInv(s, u)

ErrInv(s) == ErrTypes(s) /\ MaskInv(s) /\ FirstInv(s)

FeatInv ==
  /\ part \in Parts
  /\ \A s \in ErrSetups : part = <<"errors", s>> => ErrInv(s)
  /\ \A M \in MonSets : part = <<"perf", M>> => PerfInv(M)
  /\ ThrInv

----------------------------------------------------------------------------
(* Thresholds *)

\* Fields have the names the stores use, and values fit in seven bits.
LEMMA ThrFacts ==
  /\ 0 \in Nat /\ Values \subseteq Nat
  /\ \A v \in Values : v <= 127 => v % Thr!Width = v
  /\ \A v \in Values : v <= Thr!ThermalMax => v <= 127
  /\ \A v \in {0, 1} : v <= 127
  /\ Thr!PWR_THRESHOLD_MAX = 127
  /\ "policy" \in Thr!Fields \ Thr!Thermal
  /\ Thr!Thermal \subseteq Thr!Fields /\ Thr!Power \subseteq Thr!Fields
  /\ \A f \in Thr!Power : f \notin Thr!Thermal
  <1> USE FmeAssumption DEF Thr!Width, Thr!ThermalMax, Thr!PWR_THRESHOLD_MAX,
          Thr!Fields, Thr!Thermal, Thr!Power
  <1>1. Values \subseteq Nat /\ 0 \in Nat
    BY SMT
  <1>2. 2^7 = 128
    BY SMT
  <1>3. \A v \in Values : v <= 127 => v % 128 = v
    BY SMT
  <1>4. \A v \in Values : v <= 100 => v <= 127
    BY SMT
  <1>5. (\A v \in {0, 1} : v <= 127) /\ 2^7 - 1 = 127
    BY SMT
  <1>6. "policy" \in Thr!Fields \ Thr!Thermal
    BY SMT
  <1>7. /\ Thr!Thermal \subseteq Thr!Fields /\ Thr!Power \subseteq Thr!Fields
        /\ \A f \in Thr!Power : f \notin Thr!Thermal
    BY SMT
  <1> QED
    BY <1>1, <1>2, <1>3, <1>4, <1>5, <1>6, <1>7

\* No store has begun and the registers hold what was stored.
LEMMA ThrInit == Thr!Init => ThrInv
  <1> SUFFICES ASSUME Thr!Init PROVE ThrInv
    OBVIOUS
  <1>1. \A f \in Thr!Thermal : enable[f] = FALSE /\ stored[f] = 0
    BY ThrFacts DEF Thr!Init
  <1> QED
    BY <1>1, ThrFacts DEF Thr!Init, ThrInv, Enables, AsStored, Thr!AsStored

\* A store takes the lock and reads both registers.
LEMMA ThrEnter ==
  ASSUME ThrInv, NEW u \in Threads, NEW f \in Thr!Fields, NEW v \in Values,
         Thr!Enter(u, f, v)
  PROVE  ThrInv'
  <1> DEFINE c == [at |-> "store", field |-> f, value |-> v,
                   cur |-> thrReg, en |-> enable]
  <1>1. /\ lock = NONE /\ lock' = u /\ op' = [op EXCEPT ![u] = c]
        /\ UNCHANGED <<thrReg, enable, stored>>
    BY DEF Thr!Enter, Thr!regs
  <1>2. c \in Stores /\ c.cur = thrReg /\ c.en = enable
    BY DEF ThrInv, Stores
  <1> HIDE DEF c
  <1>3. op' \in [Threads -> Stores \cup {Thr!Idle}]
    BY <1>1, <1>2 DEF ThrInv
  <1>4. \A w \in Threads : w # u => op[w] = Thr!Idle
    BY <1>1, FmeAssumption DEF ThrInv
  <1>5. ASSUME NEW w \in Threads, op'[w] # Thr!Idle
        PROVE  lock' = w /\ op'[w].cur = thrReg' /\ op'[w].en = enable'
    BY <1>1, <1>2, <1>4, <1>5 DEF ThrInv
  <1>6. AsStored'
    BY <1>1 DEF ThrInv, AsStored, Thr!AsStored
  <1> QED
    BY <1>1, <1>3, <1>5, <1>6 DEF ThrInv

\* What every store has in hand when it ends.
LEMMA ThrHolder ==
  ASSUME ThrInv, NEW u \in Threads, NEW f \in Thr!Fields, Thr!Storing(u, f)
  PROVE  /\ op[u] \in Stores /\ op[u].field = f /\ op[u].value \in Values
         /\ op[u].cur = thrReg /\ op[u].en = enable
         /\ \A w \in Threads : w # u => op[w] = Thr!Idle
  <1>1. op[u] # Thr!Idle
    <2>1. Thr!Idle.at = "idle" /\ op[u].at = "store"
      BY DEF Thr!Storing, Thr!Idle
    <2> QED
      BY <2>1, SMT
  <1>2. op[u] \in Stores /\ lock = u
    BY <1>1 DEF ThrInv
  <1> QED
    BY <1>1, <1>2 DEF ThrInv, Thr!Storing, Stores

\* A store that is refused changes nothing.
LEMMA ThrRefuse ==
  ASSUME ThrInv, NEW u \in Threads, NEW f \in Thr!Fields, Thr!Storing(u, f),
         Thr!Refuse(u)
  PROVE  ThrInv'
  <1>1. /\ op' = [op EXCEPT ![u] = Thr!Idle]
        /\ UNCHANGED <<thrReg, enable, stored>>
    BY DEF Thr!Refuse, Thr!Leave, Thr!regs
  <1>2. /\ op' \in [Threads -> Stores \cup {Thr!Idle}]
        /\ \A w \in Threads : op'[w] = Thr!Idle
    BY <1>1, ThrHolder DEF ThrInv
  <1>3. AsStored'
    BY <1>1 DEF ThrInv, AsStored, Thr!AsStored
  <1> QED
    BY <1>1, <1>2, <1>3 DEF ThrInv

\* A store that writes changes its field and, for a temperature, its enable.
LEMMA ThrWrite ==
  ASSUME ThrInv, NEW u \in Threads, NEW f \in Thr!Fields, Thr!Storing(u, f),
         op[u].value <= 127, NEW en \in Enables, Thr!Write(u, en),
         \A g \in Thr!Thermal :
           en[g] = IF g = f THEN op[u].value # 0 ELSE enable[g]
  PROVE  ThrInv'
  <1> DEFINE v == op[u].value
  <1>1. /\ op' = [op EXCEPT ![u] = Thr!Idle] /\ enable' = en
        /\ stored' = [stored EXCEPT ![op[u].field] = v]
        /\ thrReg' = [g \in Thr!Fields |->
                        IF g = op[u].field THEN v % Thr!Width
                        ELSE IF g \in Thr!SameRegister(op[u].field) THEN op[u].cur[g]
                        ELSE thrReg[g]]
    BY DEF Thr!Write, Thr!Leave
  <1>2. v \in Values /\ v % Thr!Width = v /\ v \in Nat
    BY ThrHolder, ThrFacts
  <1> HIDE DEF v
  <1>3. thrReg' = [g \in Thr!Fields |-> IF g = f THEN v ELSE thrReg[g]]
    BY <1>1, <1>2, ThrHolder
  <1>4. stored' = [thrReg EXCEPT ![f] = v]
    BY <1>1, ThrHolder DEF ThrInv, AsStored, Thr!AsStored
  <1>5. thrReg' = stored' /\ thrReg' \in [Thr!Fields -> Nat]
    BY <1>2, <1>3, <1>4 DEF ThrInv
  <1>6. \A g \in Thr!Thermal : enable'[g] <=> stored'[g] # 0
    <2> TAKE g \in Thr!Thermal
    <2>1. g \in Thr!Fields /\ stored'[g] = IF g = f THEN v ELSE thrReg[g]
      BY <1>3, <1>5, ThrFacts
    <2>2. enable'[g] = IF g = f THEN v # 0 ELSE enable[g]
      BY <1>1 DEF v
    <2>3. enable[g] <=> thrReg[g] # 0
      BY DEF ThrInv, AsStored, Thr!AsStored
    <2> QED
      BY <2>1, <2>2, <2>3
  <1>7. /\ op' \in [Threads -> Stores \cup {Thr!Idle}]
        /\ \A w \in Threads : op'[w] = Thr!Idle
    BY <1>1, ThrHolder DEF ThrInv
  <1> QED
    BY <1>1, <1>5, <1>6, <1>7 DEF ThrInv, AsStored, Thr!AsStored

\* Every step of a store keeps the invariant.
LEMMA ThrStep == ThrInv /\ Thr!Next => ThrInv'
  <1> SUFFICES ASSUME ThrInv, NEW u \in Threads,
                      \/ \E f \in Thr!Fields, v \in Values : Thr!Enter(u, f, v)
                      \/ \E f \in Thr!Thermal : Thr!ThermalStore(u, f)
                      \/ Thr!thermal_threshold1_policy_store(u)
                      \/ \E f \in Thr!Power : Thr!PowerStore(u, f)
               PROVE  ThrInv'
    BY DEF Thr!Next, Thr!thermal_threshold1_store, Thr!thermal_threshold2_store,
           Thr!pwr_threshold1_store, Thr!pwr_threshold2_store, Thr!Thermal,
           Thr!Power
  <1>1. ASSUME NEW f \in Thr!Thermal, Thr!ThermalStore(u, f) PROVE ThrInv'
    <2> DEFINE en == [op[u].en EXCEPT ![f] = op[u].value # 0]
    <2>1. Thr!Storing(u, f) /\ f \in Thr!Fields
      BY <1>1, ThrFacts DEF Thr!ThermalStore
    <2>2. /\ en \in Enables
          /\ \A g \in Thr!Thermal :
               en[g] = IF g = f THEN op[u].value # 0 ELSE enable[g]
      BY <2>1, <1>1, ThrHolder DEF ThrInv, Enables
    <2>3. CASE Thr!ThermalRefused(op[u].value)
      BY <1>1, <2>1, <2>3, ThrRefuse DEF Thr!ThermalStore
    <2>4. CASE ~Thr!ThermalRefused(op[u].value)
      <3>1. Thr!Write(u, en)
        BY <1>1, <2>4 DEF Thr!ThermalStore
      <3>2. op[u].value \in Values /\ ~(op[u].value > Thr!ThermalMax)
        BY <2>1, <2>4, ThrHolder DEF Thr!ThermalRefused
      <3>3. \A v \in Values : ~(v > Thr!ThermalMax) => v <= 127
        BY FmeAssumption, SMT DEF Thr!ThermalMax
      <3> HIDE DEF en
      <3> QED
        BY <2>1, <2>2, <3>1, <3>2, <3>3, ThrWrite
    <2> QED
      BY <2>3, <2>4
  <1>2. ASSUME Thr!thermal_threshold1_policy_store(u) PROVE ThrInv'
    <2>1. Thr!Storing(u, "policy") /\ "policy" \in Thr!Fields
      BY <1>2, ThrFacts DEF Thr!thermal_threshold1_policy_store
    <2>2. CASE op[u].value \in {0, 1}
      <3>1. Thr!Write(u, op[u].en) /\ op[u].value <= 127
        BY <1>2, <2>2, ThrFacts DEF Thr!thermal_threshold1_policy_store
      <3>2. /\ op[u].en \in Enables
            /\ \A g \in Thr!Thermal : op[u].en[g] = enable[g] /\ g # "policy"
        BY <2>1, ThrHolder, ThrFacts DEF ThrInv
      <3> QED
        BY <2>1, <3>1, <3>2, ThrWrite
    <2>3. CASE op[u].value \notin {0, 1}
      BY <1>2, <2>1, <2>3, ThrRefuse DEF Thr!thermal_threshold1_policy_store
    <2> QED
      BY <2>2, <2>3
  <1>3. ASSUME NEW f \in Thr!Power, Thr!PowerStore(u, f) PROVE ThrInv'
    <2>1. Thr!Storing(u, f) /\ f \in Thr!Fields /\ f \notin Thr!Thermal
      BY <1>3, ThrFacts DEF Thr!PowerStore
    <2>2. CASE op[u].value <= Thr!PWR_THRESHOLD_MAX
      <3>1. Thr!Write(u, enable) /\ op[u].value <= 127
        BY <1>3, <2>2, ThrFacts DEF Thr!PowerStore
      <3>2. enable \in Enables /\ \A g \in Thr!Thermal : g # f
        BY <2>1 DEF ThrInv
      <3> QED
        BY <2>1, <3>1, <3>2, ThrWrite
    <2>3. CASE ~(op[u].value <= Thr!PWR_THRESHOLD_MAX)
      BY <1>3, <2>1, <2>3, ThrRefuse DEF Thr!PowerStore
    <2> QED
      BY <2>2, <2>3
  <1> QED
    BY <1>1, <1>2, <1>3, ThrEnter

\* The other parts leave the thresholds alone.
LEMMA ThrRests == ThrInv /\ UNCHANGED thrVars => ThrInv'
  BY DEF ThrInv, thrVars, AsStored, Thr!AsStored

\* The invariant of the thresholds holds in every reachable state.
LEMMA ThrInvHolds == FmeSpec => []ThrInv
  <1>1. FmeInit => ThrInv
    BY ThrInit DEF FmeInit
  <1>2. ThrInv /\ [FmeNext]_allVars => ThrInv'
    BY ThrStep, ThrRests DEF FmeNext, ThrNext, allVars
  <1> QED
    BY <1>1, <1>2, PTL DEF FmeSpec

\* Every threshold reads back as the last value stored with success: whatever
\* the other threads store, no store is undone by one of another field of the
\* same register, and no value accepted is cut off (fme-main.c).
THEOREM ThresholdsAsStored == FmeSpec => []AsStored
  <1>1. ThrInv => AsStored
    BY DEF ThrInv
  <1> QED
    BY <1>1, ThrInvHolds, PTL

----------------------------------------------------------------------------
(* Monitors *)

\* A thread at some place of a call is in a call.
LEMMA InCall ==
  ASSUME NEW M \in MonSets, PerfInv(M), NEW u \in Threads,
         perfOp[u].at \in {"lock"} \cup Owning
  PROVE  /\ perfOp[u] # Perf(M)!Idle /\ perfOp[u] \in PerfCalls(M)
         /\ ArgFits(perfOp[u]) /\ perfOp[u].mon \in M
         /\ perfOp[u].kind \in Kinds
         /\ perfOp[u].at \in Owning => /\ perfLock = u /\ Knows(perfOp[u])
                                       /\ \A w \in Threads : w # u =>
                                            \/ perfOp[w] = Perf(M)!Idle
                                            \/ perfOp[w].at \notin Owning
  <1>1. perfOp[u] # Perf(M)!Idle
    <2>1. Perf(M)!Idle.at = "idle"
      BY DEF Perf!Idle
    <2>2. "idle" \notin {"lock"} \cup Owning
      BY SMT DEF Owning
    <2> QED
      BY <2>1, <2>2
  <1>2. perfOp[u] \in PerfCalls(M)
    BY <1>1 DEF PerfInv, PerfTypes
  <1>3. perfOp[u].mon \in M /\ perfOp[u].kind \in Kinds
    BY <1>2 DEF PerfCalls
  <1> QED
    BY <1>1, <1>2, <1>3 DEF PerfInv

\* A step that changes the call of one thread, and the lock, but no register.
LEMMA OpMoved ==
  ASSUME NEW M \in MonSets, PerfInv(M), NEW u \in Threads,
         NEW c \in PerfCalls(M) \cup {Perf(M)!Idle},
         perfOp' = [perfOp EXCEPT ![u] = c],
         UNCHANGED <<perfCtl, ctr, ctr1, frozen, counted>>,
         perfLock' = perfLock \/ perfLock = NONE \/ perfLock = u,
         c # Perf(M)!Idle =>
           ArgFits(c) /\ (c.at \in Owning => perfLock' = u /\ Knows(c))
  PROVE  PerfInv(M)'
  <1>1. PerfTypes(M)'
    BY DEF PerfInv, PerfTypes, Perf!Idle
  <1>2. Perf(M)!NoLostUpdate'
    BY DEF PerfInv, Perf!NoLostUpdate
  <1>3. ASSUME NEW w \in Threads, perfOp'[w] # Perf(M)!Idle
        PROVE  /\ ArgFits(perfOp'[w])
               /\ perfOp'[w].at \in Owning => perfLock' = w /\ Knows(perfOp'[w])
    <2>1. CASE w = u
      BY <1>3, <2>1 DEF PerfInv, PerfTypes
    <2>2. CASE w # u
      <3>1. perfOp'[w] = perfOp[w]
        BY <2>2 DEF PerfInv, PerfTypes
      <3> QED
        BY <1>3, <2>2, <3>1, FmeAssumption DEF PerfInv
    <2> QED
      BY <2>1, <2>2
  <1>4. \A w \in Threads :
          /\ Knows(perfOp[w])' <=> Knows(perfOp'[w])
          /\ ArgFits(perfOp[w])' <=> ArgFits(perfOp'[w])
    BY DEF Knows, ArgFits
  <1>5. Perf(M)!Idle' = Perf(M)!Idle
    BY DEF Perf!Idle
  <1> QED
    BY <1>1, <1>2, <1>3, <1>4, <1>5 DEF PerfInv

\* The counters report the event selected.
LEMMA PerfHw ==
  ASSUME NEW M \in MonSets, PerfInv(M),
         (\E m \in M : Perf(M)!HwReport(m)) \/ Perf(M)!HwReport1
  PROVE  PerfInv(M)'
  <1>1. UNCHANGED <<perfCtl, perfLock, perfOp, frozen, counted>>
    BY DEF Perf!HwReport, Perf!HwReport1, Perf!hist
  <1>2. /\ ctr' \in [M -> Events] /\ ctr1' \in Events
        /\ \A m \in M : ctr'[m] \in {ctr[m], perfCtl[m].event}
    <2>1. \A m \in M : perfCtl[m].event \in Events
      BY DEF PerfInv, PerfTypes, Controls
    <2>2. ctr \in [M -> Events] /\ ctr1 \in Events
      BY DEF PerfInv, PerfTypes
    <2>3. CASE Perf(M)!HwReport1
      BY <2>1, <2>2, <2>3 DEF Perf!HwReport1
    <2>4. ASSUME NEW m \in M, Perf(M)!HwReport(m)
          PROVE  ctr' = [ctr EXCEPT ![m] = perfCtl[m].event] /\ ctr1' = ctr1
      BY <2>4 DEF Perf!HwReport
    <2> QED
      BY <2>1, <2>2, <2>3, <2>4
  <1>3. PerfTypes(M)'
    BY <1>1, <1>2 DEF PerfInv, PerfTypes, Perf!Idle
  <1>4. Perf(M)!NoLostUpdate'
    BY <1>1 DEF PerfInv, Perf!NoLostUpdate
  <1>5. ASSUME NEW w \in Threads, perfOp[w] # Perf(M)!Idle,
               perfOp[w].at \in Owning
        PROVE  Knows(perfOp[w])'
    <2> DEFINE c == perfOp[w]
    <2>1. /\ c.mon \in M /\ Knows(c)
          /\ c.at = "sample" => perfCtl[c.mon].event = c.arg
      BY <1>5, InCall DEF Knows, Waiting
    <2> QED
      BY <1>1, <1>2, <2>1 DEF Knows
  <1>6. Perf(M)!Idle' = Perf(M)!Idle
    BY DEF Perf!Idle
  <1> QED
    BY <1>1, <1>3, <1>4, <1>5, <1>6 DEF PerfInv, ArgFits

\* A call begins: shows, freezing and enabling alike wait for the lock.
LEMMA PerfStart ==
  ASSUME NEW M \in MonSets, PerfInv(M), NEW u \in Threads, Perf(M)!Start(u)
  PROVE  PerfInv(M)'
  <1> DEFINE Base(kind, m, x) ==
        [at |-> "lock", kind |-> kind, mon |-> m, arg |-> x, obj |-> NONE,
         cur |-> NONE, got |-> NONE, got1 |-> NONE]
  <1>1. \E c \in PerfCalls(M) : c.at = "lock" /\ ArgFits(c) /\ Perf(M)!Begin(u, c)
    <2>1. ASSUME NEW m \in M, NEW e \in Events, NEW o \in Objs,
                 Perf(M)!Show(u, m, e, o)
          PROVE  <1>1!:
      <3> DEFINE c == [Base("show", m, e) EXCEPT !.obj = o]
      <3>1. Perf(M)!Begin(u, c)
        BY <2>1 DEF Perf!Show, Perf!Call
      <3>2. c \in PerfCalls(M) /\ c.at = "lock" /\ c.kind = "show" /\ c.arg = e
        BY DEF PerfCalls, Kinds, Owning
      <3>3. ArgFits(c)
        BY <3>2 DEF ArgFits
      <3> HIDE DEF c
      <3> QED
        BY <3>1, <3>2, <3>3
    <2>2. ASSUME NEW m \in M, NEW x \in BOOLEAN, Perf(M)!Freeze(u, m, x)
          PROVE  <1>1!:
      <3> DEFINE c == Base("freeze", m, x)
      <3>1. Perf(M)!Begin(u, c)
        BY <2>2 DEF Perf!Freeze, Perf!Call
      <3>2. c \in PerfCalls(M) /\ c.at = "lock" /\ c.kind = "freeze" /\ c.arg = x
        BY DEF PerfCalls, Kinds, Owning
      <3>3. ArgFits(c)
        BY <3>2 DEF ArgFits
      <3> HIDE DEF c
      <3> QED
        BY <3>1, <3>2, <3>3
    <2>3. ASSUME NEW m \in {"fab", "dfab"}, NEW o \in Objs, Perf(M)!Enable(u, m, o)
          PROVE  <1>1!:
      <3> DEFINE c == Base("enable", m, o)
      <3>1. Perf(M)!Begin(u, c) /\ m \in M
        BY <2>3 DEF Perf!Enable, Perf!Call
      <3>2. c \in PerfCalls(M) /\ c.at = "lock" /\ c.kind = "enable" /\ c.arg = o
        BY <3>1 DEF PerfCalls, Kinds, Owning
      <3>3. ArgFits(c)
        BY <3>2 DEF ArgFits
      <3> HIDE DEF c
      <3> QED
        BY <3>1, <3>2, <3>3
    <2>4. CASE \/ Perf(M)!CacheShow(u) \/ Perf(M)!SipShow(u) \/ Perf(M)!VtdShow(u)
               \/ Perf(M)!FabShow(u) \/ Perf(M)!DfabShow(u)
      BY <2>1, <2>4, FmeAssumption DEF Perf!CacheShow, Perf!SipShow,
         Perf!VtdShow, Perf!FabShow, Perf!DfabShow
    <2>5. CASE \/ Perf(M)!CacheFreeze(u) \/ Perf(M)!VtdFreeze(u)
               \/ Perf(M)!FabFreeze(u) \/ Perf(M)!DfabFreeze(u)
      BY <2>2, <2>5 DEF Perf!CacheFreeze, Perf!VtdFreeze, Perf!FabFreeze,
         Perf!DfabFreeze
    <2>6. CASE Perf(M)!FabEnable(u) \/ Perf(M)!DfabEnable(u)
      BY <2>3, <2>6 DEF Perf!FabEnable, Perf!DfabEnable
    <2> QED
      BY <2>4, <2>5, <2>6 DEF Perf!Start
  <1>2. PICK c \in PerfCalls(M) : c.at = "lock" /\ ArgFits(c) /\ Perf(M)!Begin(u, c)
    BY <1>1
  <1>3. /\ perfOp' = [perfOp EXCEPT ![u] = c] /\ perfLock' = perfLock
        /\ UNCHANGED <<perfCtl, ctr, ctr1, frozen, counted>>
    BY <1>2 DEF Perf!Begin, Perf!Set, Perf!regs, Perf!hist
  <1>4. c.at \notin Owning
    BY <1>2 DEF Owning
  <1> QED
    BY <1>2, <1>3, <1>4, OpMoved

\* The lock is taken, or the object turns out not to be counted.
LEMMA PerfLocked ==
  ASSUME NEW M \in MonSets, PerfInv(M), NEW u \in Threads, Perf(M)!Locked(u)
  PROVE  PerfInv(M)'
  <1> DEFINE c == perfOp[u]
             d == [c EXCEPT !.at = "read"]
  <1>1. /\ c.at = "lock" /\ perfLock = NONE
        /\ UNCHANGED <<perfCtl, ctr, ctr1, frozen, counted>>
        /\ \/ perfOp' = [perfOp EXCEPT ![u] = Perf(M)!Idle]
           \/ /\ perfLock' = u /\ perfOp' = [perfOp EXCEPT ![u].at = "read"]
              /\ c.kind = "show" /\ c.mon \in Perf(M)!Fabrics
                   => Perf(M)!Enabled(c.mon, c.obj)
    BY DEF Perf!Locked, Perf!At, Perf!Set, Perf!Goto, Perf!regs, Perf!hist
  <1>2. /\ c \in PerfCalls(M) /\ ArgFits(c) /\ c.mon \in M
    BY <1>1, InCall
  <1>3. CASE perfOp' = [perfOp EXCEPT ![u] = Perf(M)!Idle]
    BY <1>1, <1>3, OpMoved
  <1>4. CASE /\ perfLock' = u /\ perfOp' = [perfOp EXCEPT ![u].at = "read"]
             /\ c.kind = "show" /\ c.mon \in Perf(M)!Fabrics
                  => Perf(M)!Enabled(c.mon, c.obj)
    <2>1. perfOp' = [perfOp EXCEPT ![u] = d]
      BY <1>4
    <2>2. /\ d \in PerfCalls(M) /\ d.at = "read" /\ d.kind = c.kind
          /\ d.mon = c.mon /\ d.obj = c.obj /\ d.arg = c.arg
      BY <1>2 DEF PerfCalls, Owning
    <2>3. ArgFits(d)
      BY <1>2, <2>2 DEF ArgFits
    <2>4. c.mon \in {"fab", "dfab"} => c.mon \in Perf(M)!Fabrics
      BY <1>2 DEF Perf!Fabrics
    <2>5. "read" \notin Waiting /\ "read" # "write" /\ "read" # "sample"
          /\ "read" # "return"
      BY SMT DEF Waiting
    <2>6. Knows(d)
      BY <1>4, <2>2, <2>4, <2>5 DEF Knows, Perf!Enabled
    <2> HIDE DEF d, c
    <2> QED
      BY <1>1, <1>4, <2>1, <2>2, <2>3, <2>6, OpMoved
  <1> QED
    BY <1>1, <1>3, <1>4

\* The steps of the owner that change no register.
LEMMA PerfOwner ==
  ASSUME NEW M \in MonSets, PerfInv(M), NEW u \in Threads,
         \/ Perf(M)!ReadCtl(u) \/ Perf(M)!Wait(u) \/ Perf(M)!Timeout(u)
         \/ Perf(M)!Sample(u) \/ Perf(M)!Return(u)
  PROVE  PerfInv(M)'
  <1> DEFINE c == perfOp[u]
  <1>1. UNCHANGED <<perfCtl, ctr, ctr1, frozen, counted>>
    BY DEF Perf!ReadCtl, Perf!Wait, Perf!Timeout, Perf!Sample, Perf!Return,
           Perf!regs, Perf!hist
  <1>2. c.at \in Owning
    BY DEF Perf!ReadCtl, Perf!Wait, Perf!Timeout, Perf!Sample, Perf!Return,
           Perf!At, Owning
  <1>3. /\ c \in PerfCalls(M) /\ ArgFits(c) /\ c.mon \in M /\ perfLock = u
        /\ Knows(c)
    BY <1>2, InCall
  <1>4. perfCtl[c.mon] \in Controls /\ ctr[c.mon] \in Events /\ ctr1 \in Events
    BY <1>3 DEF PerfInv, PerfTypes
  <1>5. CASE perfOp' = [perfOp EXCEPT ![u] = Perf(M)!Idle]
    BY <1>1, <1>3, <1>5, OpMoved
  <1>6. ASSUME NEW d \in PerfCalls(M), perfOp' = [perfOp EXCEPT ![u] = d],
               perfLock' = perfLock, d.kind = c.kind, d.mon = c.mon,
               d.arg = c.arg, d.obj = c.obj,
               d.at = "write" => d.cur = perfCtl[c.mon],
               d.at \in Waiting => c.at \in Waiting,
               d.at = "sample" => ctr[c.mon] = c.arg,
               d.at = "return" =>
                 d.got = c.arg /\ (c.mon # "cache" => d.got1 = c.arg)
        PROVE  PerfInv(M)'
    <2>1. ArgFits(d) /\ Knows(d)
      BY <1>3, <1>6 DEF ArgFits, Knows
    <2> HIDE DEF c
    <2> QED
      BY <1>1, <1>3, <1>6, <2>1, OpMoved
  <1>7. CASE Perf(M)!ReadCtl(u)
    <2> DEFINE d == [c EXCEPT !.at = "write", !.cur = perfCtl[c.mon]]
    <2>1. perfOp' = [perfOp EXCEPT ![u] = d] /\ perfLock' = perfLock
      BY <1>7 DEF Perf!ReadCtl, Perf!Set
    <2>2. /\ d \in PerfCalls(M) /\ d.at = "write" /\ d.cur = perfCtl[c.mon]
          /\ d.kind = c.kind /\ d.mon = c.mon /\ d.arg = c.arg /\ d.obj = c.obj
      BY <1>3, <1>4 DEF PerfCalls, Owning
    <2>3. "write" \notin Waiting /\ "write" # "sample" /\ "write" # "return"
      BY SMT DEF Waiting
    <2> HIDE DEF c, d
    <2> QED
      BY <1>6, <2>1, <2>2, <2>3
  <1>8. CASE Perf(M)!Wait(u)
    <2> DEFINE d == [c EXCEPT !.at = "sample"]
    <2>1. /\ perfOp' = [perfOp EXCEPT ![u] = d] /\ perfLock' = perfLock
          /\ c.at = "wait" /\ ctr[c.mon] = c.arg
      BY <1>8 DEF Perf!Wait, Perf!Goto, Perf!At
    <2>2. /\ d \in PerfCalls(M) /\ d.at = "sample"
          /\ d.kind = c.kind /\ d.mon = c.mon /\ d.arg = c.arg /\ d.obj = c.obj
      BY <1>3 DEF PerfCalls, Owning
    <2>3. "wait" \in Waiting /\ "sample" # "write" /\ "sample" # "return"
      BY SMT DEF Waiting
    <2> HIDE DEF c, d
    <2> QED
      BY <1>6, <2>1, <2>2, <2>3
  <1>9. CASE Perf(M)!Sample(u)
    <2> DEFINE g1 == IF c.mon = "cache" THEN ctr1 ELSE ctr[c.mon]
               d == [c EXCEPT !.at = "return", !.got = ctr[c.mon], !.got1 = g1]
    <2>1. /\ perfOp' = [perfOp EXCEPT ![u] = d] /\ perfLock' = perfLock
          /\ c.at = "sample"
      BY <1>9 DEF Perf!Sample, Perf!Set, Perf!At
    <2>2. /\ g1 \in Events /\ ctr[c.mon] = c.arg
          /\ c.mon # "cache" => g1 = c.arg
      BY <1>3, <1>4, <2>1 DEF Knows
    <2> HIDE DEF g1
    <2>3. /\ d \in PerfCalls(M) /\ d.at = "return" /\ d.got = ctr[c.mon]
          /\ d.got1 = g1
          /\ d.kind = c.kind /\ d.mon = c.mon /\ d.arg = c.arg /\ d.obj = c.obj
      BY <1>3, <1>4, <2>2 DEF PerfCalls, Owning
    <2>4. "sample" \in Waiting /\ "return" # "write" /\ "return" # "sample"
      BY SMT DEF Waiting
    <2> HIDE DEF c, d
    <2> QED
      BY <1>6, <2>1, <2>2, <2>3, <2>4
  <1> QED
    BY <1>5, <1>7, <1>8, <1>9 DEF Perf!Timeout, Perf!Return, Perf!Set

\* The control register is written back with one field replaced: the others
\* are what they were, since the owner of the lock has read them.
LEMMA PerfWrite ==
  ASSUME NEW M \in MonSets, PerfInv(M), NEW u \in Threads, Perf(M)!WriteCtl(u)
  PROVE  PerfInv(M)'
  <1> DEFINE c == perfOp[u]
             m == c.mon
             x == Perf(M)!Replaced(c)
             d == [c EXCEPT !.at = "wait"]
  <1>1. /\ c.at = "write" /\ UNCHANGED <<ctr, ctr1>>
        /\ perfCtl' = [perfCtl EXCEPT ![m] = x]
        /\ frozen' = IF c.kind = "freeze" THEN [frozen EXCEPT ![m] = c.arg] ELSE frozen
        /\ counted' = IF c.kind = "enable" THEN [counted EXCEPT ![m] = c.arg] ELSE counted
        /\ perfOp' = [perfOp EXCEPT ![u] = IF c.kind = "show" THEN d ELSE Perf(M)!Idle]
        /\ c.kind = "show" => perfLock' = perfLock
    BY DEF Perf!WriteCtl, Perf!Set, Perf!Goto, Perf!At
  <1>2. /\ c \in PerfCalls(M) /\ ArgFits(c) /\ m \in M /\ perfLock = u
        /\ Knows(c) /\ c.kind \in Kinds
        /\ \A w \in Threads : w # u =>
             perfOp[w] = Perf(M)!Idle \/ perfOp[w].at \notin Owning
    BY <1>1, InCall DEF Owning
  <1>3. c.cur = perfCtl[m] /\ perfCtl[m] \in Controls
    BY <1>1, <1>2 DEF Knows, PerfInv, PerfTypes
  <1>4. /\ x \in Controls
        /\ c.kind = "show" => x.event = c.arg
        /\ x.freeze = IF c.kind = "freeze" THEN c.arg ELSE perfCtl[m].freeze
        /\ x.port = IF c.kind = "enable" THEN c.arg ELSE perfCtl[m].port
    <2>1. CASE c.kind = "show"
      <3>1. x = [perfCtl[m] EXCEPT !.event = c.arg] /\ c.arg \in Events
        BY <1>2, <1>3, <2>1 DEF Perf!Replaced, ArgFits
      <3> QED
        BY <1>3, <2>1, <3>1 DEF Controls
    <2>2. CASE c.kind = "freeze"
      <3>1. x = [perfCtl[m] EXCEPT !.freeze = c.arg] /\ c.arg \in BOOLEAN
        BY <1>2, <1>3, <2>2 DEF Perf!Replaced, ArgFits
      <3> QED
        BY <1>3, <2>2, <3>1 DEF Controls
    <2>3. CASE c.kind = "enable"
      <3>1. x = [perfCtl[m] EXCEPT !.port = c.arg] /\ c.arg \in Objs
        BY <1>2, <1>3, <2>3 DEF Perf!Replaced, ArgFits
      <3> QED
        BY <1>3, <2>3, <3>1 DEF Controls
    <2> QED
      BY <1>2, <2>1, <2>2, <2>3 DEF Kinds
  <1>5. /\ d \in PerfCalls(M) /\ d.at = "wait" /\ d.kind = c.kind /\ d.mon = m
        /\ d.arg = c.arg /\ d.obj = c.obj
    BY <1>2 DEF PerfCalls, Owning
  <1> HIDE DEF x, d
  <1>6. /\ frozen' \in [M -> BOOLEAN] /\ counted' \in [M -> Objs]
        /\ perfCtl' \in [M -> Controls]
        /\ frozen'[m] = IF c.kind = "freeze" THEN c.arg ELSE frozen[m]
        /\ counted'[m] = IF c.kind = "enable" THEN c.arg ELSE counted[m]
        /\ perfCtl'[m] = x
        /\ \A k \in M \ {m} : /\ frozen'[k] = frozen[k]
                              /\ counted'[k] = counted[k]
                              /\ perfCtl'[k] = perfCtl[k]
    <2>1. /\ frozen \in [M -> BOOLEAN] /\ counted \in [M -> Objs]
          /\ perfCtl \in [M -> Controls]
          /\ c.kind = "freeze" => c.arg \in BOOLEAN
          /\ c.kind = "enable" => c.arg \in Objs
      BY <1>2 DEF PerfInv, PerfTypes, ArgFits
    <2> HIDE DEF c, m
    <2> QED
      BY <1>1, <1>2, <1>4, <2>1
  <1>7. PerfTypes(M)'
    <2>1. perfOp' \in [Threads -> PerfCalls(M) \cup {Perf(M)!Idle}]
      BY <1>1, <1>5 DEF PerfInv, PerfTypes
    <2>2. ctr' \in [M -> Events] /\ ctr1' \in Events
      BY <1>1 DEF PerfInv, PerfTypes
    <2> QED
      BY <1>6, <2>1, <2>2 DEF PerfTypes, Perf!Idle
  <1>8. Perf(M)!NoLostUpdate'
    <2>1. \A k \in M : perfCtl[k].freeze = frozen[k] /\ perfCtl[k].port = counted[k]
      BY DEF PerfInv, PerfTypes, Perf!NoLostUpdate
    <2>2. ASSUME NEW k \in M
          PROVE  perfCtl'[k].freeze = frozen'[k] /\ perfCtl'[k].port = counted'[k]
      <3>1. CASE k = m
        BY <1>2, <1>4, <1>6, <2>1, <3>1
      <3>2. CASE k # m
        BY <1>6, <2>1, <3>2
      <3> QED
        BY <3>1, <3>2
    <2>3. DOMAIN perfCtl' = M
      BY <1>6
    <2> QED
      BY <2>2, <2>3 DEF Perf!NoLostUpdate
  <1>9. ASSUME NEW w \in Threads, perfOp'[w] # Perf(M)!Idle
        PROVE  /\ ArgFits(perfOp'[w])
               /\ perfOp'[w].at \in Owning => perfLock' = w /\ Knows(perfOp[w])'
    <2>1. CASE w = u
      <3>1. perfOp'[w] = d /\ c.kind = "show" /\ perfLock' = u
        BY <1>1, <1>2, <1>9, <2>1 DEF PerfInv, PerfTypes
      <3>2. ArgFits(d)
        BY <1>2, <1>5 DEF ArgFits
      <3>3. "wait" # "write" /\ "wait" # "sample" /\ "wait" # "return"
        BY SMT
      <3>4. m \in {"fab", "dfab"} => x.port = c.obj
        BY <1>2, <1>4, <3>1 DEF Knows
      <3>5. Knows(perfOp[w])'
        BY <1>4, <1>5, <1>6, <3>1, <3>3, <3>4 DEF Knows
      <3> QED
        BY <2>1, <3>1, <3>2, <3>5
    <2>2. CASE w # u
      <3>1. perfOp'[w] = perfOp[w]
        BY <1>1, <2>2 DEF PerfInv, PerfTypes
      <3>2. perfOp'[w].at \notin Owning
        BY <1>2, <1>9, <2>2, <3>1
      <3> QED
        BY <1>9, <3>1, <3>2 DEF PerfInv
    <2> QED
      BY <2>1, <2>2
  <1> QED
    BY <1>7, <1>8, <1>9 DEF PerfInv, ArgFits, Perf!Idle

\* Every step of the monitors keeps their invariant.
LEMMA PerfStep ==
  ASSUME NEW M \in MonSets, PerfInv(M), Perf(M)!Next
  PROVE  PerfInv(M)'
  BY PerfHw, PerfStart, PerfLocked, PerfOwner, PerfWrite DEF Perf!Next, Perf!Step

\* The other parts leave the monitors alone.
LEMMA PerfRests ==
  ASSUME NEW M \in MonSets, PerfInv(M), UNCHANGED perfVars
  PROVE  PerfInv(M)'
  <1>1. PerfTypes(M)' /\ Perf(M)!NoLostUpdate'
    BY DEF PerfInv, PerfTypes, Perf!NoLostUpdate, Perf!Idle, perfVars
  <1> QED
    BY <1>1 DEF PerfInv, perfVars, Perf!Idle, ArgFits, Knows

\* Nobody has called yet, and the counters follow their registers.
LEMMA PerfInit ==
  ASSUME NEW M \in MonSets, Perf(M)!Init
  PROVE  PerfInv(M)
  <1>1. PICK e \in Events :
          /\ perfCtl = [m \in M |-> [event |-> e, freeze |-> FALSE, port |-> ROOT]]
          /\ ctr = [m \in M |-> e] /\ ctr1 = e
    BY DEF Perf!Init
  <1>2. /\ perfOp = [u \in Threads |-> Perf(M)!Idle]
        /\ frozen = [m \in M |-> FALSE] /\ counted = [m \in M |-> ROOT]
    BY DEF Perf!Init
  <1>3. PerfTypes(M)
    BY <1>1, <1>2, FmeAssumption DEF PerfTypes, Controls
  <1>4. Perf(M)!NoLostUpdate
    BY <1>1, <1>2 DEF Perf!NoLostUpdate
  <1> QED
    BY <1>2, <1>3, <1>4 DEF PerfInv

\* The setup of a part is fixed by its name.
LEMMA PartNames ==
  /\ \A s, t : <<"errors", s>> = <<"errors", t>> => s = t
  /\ \A s, t : <<"perf", s>> = <<"perf", t>> => s = t
  /\ \A s : <<"errors", s>>[1] = "errors" /\ <<"perf", s>>[1] = "perf"
  BY SMT

PerfPart == \A M \in MonSets : part = <<"perf", M>> => PerfInv(M)

\* The invariant of the monitors holds in every reachable state.
LEMMA PerfInvHolds == FmeSpec => []PerfPart
  <1>1. FmeInit => PerfPart
    BY PerfInit, PartNames DEF FmeInit, PerfPart
  <1>2. PerfPart /\ [FmeNext]_allVars => PerfPart'
    <2> SUFFICES ASSUME PerfPart, [FmeNext]_allVars, NEW M \in MonSets,
                        part' = <<"perf", M>>
                 PROVE  PerfInv(M)'
      BY DEF PerfPart
    <2>1. part' = part /\ PerfInv(M)
      BY DEF FmeNext, allVars, PerfPart
    <2>2. CASE PerfNext
      BY <2>1, <2>2, PerfStep, PartNames DEF PerfNext
    <2>3. CASE UNCHANGED perfVars
      BY <2>1, <2>3, PerfRests
    <2> QED
      BY <2>2, <2>3 DEF FmeNext, allVars
  <1> QED
    BY <1>1, <1>2, PTL DEF FmeSpec

\* For any monitors, events and objects and any interleaving of readers, of
\* freezing and of enabling: a counter that is shown is that of the event and
\* of the object asked for, but for the second of the two cache counters, which
\* the hardware may report late; and no register write undoes another
\* (fme-iperf.c, fme-dperf.c).
THEOREM CountersAlwaysRight == FmeSpec => []CountersRight
  <1>1. ASSUME NEW M \in MonSets, PerfInv(M)
        PROVE  Perf(M)!RightEvent /\ Perf(M)!CountedObject /\ Perf(M)!NoLostUpdate
    <2>1. "return" \in Owning
      BY DEF Owning
    <2>2. \A u \in Threads : Perf(M)!Shown(u) =>
            perfOp[u].kind = "show" /\ perfOp[u].at = "return" /\ Knows(perfOp[u])
      BY <1>1, <2>1, InCall DEF Perf!Shown, Perf!At
    <2>3. Perf(M)!RightEvent
      BY <2>2 DEF Perf!RightEvent, Knows, Waiting
    <2>4. Perf(M)!CountedObject
      BY <2>2 DEF Perf!CountedObject, Perf!Fabrics, Perf!Enabled, Knows
    <2> QED
      BY <1>1, <2>3, <2>4 DEF PerfInv
  <1>2. PerfPart => CountersRight
    BY <1>1 DEF PerfPart, CountersRight
  <1> QED
    BY <1>2, PerfInvHolds, PTL

----------------------------------------------------------------------------
(* Errors *)

\* The clear that runs is the only one.
LEMMA OneClear ==
  ASSUME NEW s \in ErrSetups, ErrInv(s), NEW u \in Threads, errPc[u] # "idle"
  PROVE  /\ errLock = u /\ \A w \in Threads : w # u => errPc[w] = "idle"
         /\ errReg[u] \in Err(s)!Regs
  BY DEF ErrInv, ErrTypes, MaskInv

\* A step of the clear that runs, between masking and unmasking.
LEMMA ClearMoved ==
  ASSUME NEW s \in ErrSetups, ErrInv(s), NEW u \in Threads, errPc[u] # "idle",
         NEW to \in Masked, errPc' = [errPc EXCEPT ![u] = to],
         UNCHANGED <<mask, errLock, errReg, val>>,
         errBits' \in [Err(s)!Regs -> SUBSET Bits(s)],
         curErr' \in [Threads -> SUBSET Bits(s)],
         DOMAIN curFirst' = Threads,
         to \in Compared =>
           /\ curErr'[u] \cap Low(s) = errBits'[errReg[u]] \cap Low(s)
           /\ curErr'[u] = val[u],
         ClearInv(s, u)', RecordInv(s)'
  PROVE  ErrInv(s)'
  <1>1. /\ "idle" \notin Masked /\ "idle" \notin Compared /\ "idle" \notin Cleared
        /\ "idle" \notin Reading /\ "idle" \notin OfFme
    BY SMT DEF Masked, Compared, Cleared, Reading, OfFme
  <1>2. /\ errPc' \in [Threads -> {"idle"} \cup Masked]
        /\ errPc'[u] = to /\ to # "idle"
        /\ \A w \in Threads : w # u => errPc'[w] = "idle"
    BY <1>1, OneClear DEF ErrInv, ErrTypes
  <1>3. Err(s)!Regs' = Err(s)!Regs
    BY DEF Err!Regs, Err!FmeErr
  <1>4. ErrTypes(s)'
    BY <1>2, <1>3 DEF ErrInv, ErrTypes, Bits
  <1>5. MaskInv(s)'
    <2>1. \A w \in Threads : errPc'[w] # "idle" => errLock' = w
      BY <1>2, OneClear
    <2>2. \A r : (\E w \in Threads : errPc'[w] # "idle" /\ errReg'[w] = r)
                 <=> (\E w \in Threads : errPc[w] # "idle" /\ errReg[w] = r)
      BY <1>2, OneClear
    <2>3. \A r \in Err(s)!Regs :
            mask'[r] = IF \E w \in Threads : errPc'[w] # "idle" /\ errReg'[w] = r
                       THEN Low(s) ELSE Err(s)!DefaultMask(r)
      BY <2>2 DEF ErrInv, MaskInv
    <2>4. \A w \in Threads : errPc'[w] \in Compared =>
            /\ curErr'[w] \cap Low(s) = errBits'[errReg'[w]] \cap Low(s)
            /\ curErr'[w] = val'[w]
      BY <1>1, <1>2
    <2> QED
      BY <1>3, <2>1, <2>3, <2>4 DEF MaskInv, Low, Err!DefaultMask, Err!FmeErr
  <1>6. \A w \in Threads : ClearInv(s, w)'
    <2>1. ASSUME NEW w \in Threads, w # u PROVE ClearInv(s, w)'
      BY <1>1, <1>2, <2>1 DEF ClearInv
    <2> QED
      BY <2>1
  <1> QED
    BY <1>4, <1>5, <1>6 DEF ErrInv, FirstInv

\* The value read is what the register holds until the clear ends: it goes on
\* only if that is what the user has seen.
LEMMA ReadKept ==
  ASSUME NEW s \in ErrSetups, ErrInv(s), NEW u \in Threads, Err(s)!Read(u)
  PROVE  ErrInv(s)'
  <1> DEFINE e == errBits[errReg[u]]
             to == IF val[u] # e THEN "unmask"
                   ELSE IF errReg[u] = "fme_err" THEN "first" ELSE "write"
  <1>1. /\ errPc[u] = "read" /\ errPc' = [errPc EXCEPT ![u] = to]
        /\ curErr' = [curErr EXCEPT ![u] = e]
        /\ UNCHANGED <<errBits, first, mask, errLock, errReg, val, curFirst>>
    BY DEF Err!Read, Err!Goto, Err!hw, Err!FmeErr
  <1>2. errPc[u] # "idle"
    BY <1>1
  <1>3. /\ errReg[u] \in Err(s)!Regs /\ e \in SUBSET Bits(s)
        /\ \A w \in Threads : errPc[w] # "write_first"
    BY <1>1, <1>2, OneClear DEF ErrInv, ErrTypes
  <1>4. /\ curErr' \in [Threads -> SUBSET Bits(s)] /\ curErr'[u] = e
        /\ errBits' \in [Err(s)!Regs -> SUBSET Bits(s)]
        /\ DOMAIN curFirst' = Threads /\ errPc'[u] = to
    BY <1>1, <1>3 DEF ErrInv, ErrTypes
  <1>5. /\ to \in Masked /\ to \notin Cleared
        /\ to \in Compared => e = val[u]
        /\ to \in OfFme => errReg[u] = "fme_err"
        /\ to \in Reading => errReg[u] # "fme_err"
    <2>1. /\ "unmask" \notin Compared /\ "unmask" \notin OfFme
          /\ "unmask" \notin Reading
          /\ "write" \notin OfFme /\ "first" \notin Reading
      BY SMT DEF Compared, OfFme, Reading
    <2>2. /\ {"unmask", "first", "write"} \subseteq Masked
          /\ \A x \in {"unmask", "first", "write"} : x \notin Cleared
      BY SMT DEF Masked, Cleared
    <2> HIDE DEF e
    <2> QED
      BY <2>1, <2>2
  <1> HIDE DEF to
  <1>6. ClearInv(s, u)'
    BY <1>1, <1>4, <1>5 DEF ClearInv
  <1>7. RecordInv(s)'
    BY <1>1, <1>3 DEF ErrInv, FirstInv, RecordInv, Bits, Low
  <1> QED
    BY <1>1, <1>2, <1>4, <1>5, <1>6, <1>7, ClearMoved

\* The two records are read, and the bits read are written back.
LEMMA RecordsKept ==
  ASSUME NEW s \in ErrSetups, ErrInv(s), NEW u \in Threads,
         \/ Err(s)!ReadFirst(u) \/ Err(s)!ReadNext(u) \/ Err(s)!WriteNext(u)
  PROVE  ErrInv(s)'
  <1> DEFINE to == IF errPc[u] = "first" THEN "next"
                   ELSE IF errPc[u] = "next" THEN "write" ELSE "unmask"
  <1>1. /\ errPc[u] \in {"first", "next", "write_next"}
        /\ errPc' = [errPc EXCEPT ![u] = to]
        /\ UNCHANGED <<errBits, first, mask, errLock, errReg, val, curErr>>
        /\ curFirst' = IF errPc[u] = "first" THEN [curFirst EXCEPT ![u] = first]
                       ELSE curFirst
    <2>1. "first" # "next" /\ "first" # "write_next" /\ "next" # "write_next"
      BY SMT
    <2> QED
      BY <2>1 DEF Err!ReadFirst, Err!ReadNext, Err!WriteNext, Err!Goto, Err!hw
  <1>2. errPc[u] # "idle" /\ errPc[u] # "write_first"
    BY <1>1, SMT
  <1>3. \A w \in Threads : errPc[w] # "write_first"
    BY <1>2, OneClear
  <1>4. /\ errBits' \in [Err(s)!Regs -> SUBSET Bits(s)]
        /\ curErr' \in [Threads -> SUBSET Bits(s)]
        /\ DOMAIN curFirst' = Threads /\ (errPc[u] = "first" => curFirst'[u] = first)
    BY <1>1 DEF ErrInv, ErrTypes
  <1>5. /\ to \in Masked
        /\ to \in Compared => errPc[u] \in Compared
        /\ to \notin Cleared
        /\ to \in OfFme => errPc[u] \in OfFme
        /\ to \in Reading => errPc[u] = "first" \/ errPc[u] \in Reading
        /\ errPc[u] = "next" => errPc[u] # "first"
    BY <1>1, SMT DEF Masked, Compared, Cleared, OfFme, Reading
  <1>6. errPc'[u] = to
    BY <1>1 DEF ErrInv, ErrTypes
  <1> HIDE DEF to
  <1>7. to \in Compared =>
          /\ curErr'[u] \cap Low(s) = errBits'[errReg[u]] \cap Low(s)
          /\ curErr'[u] = val[u]
    BY <1>1, <1>5 DEF ErrInv, MaskInv
  <1>8. ClearInv(s, u)'
    <2>1. ClearInv(s, u)
      BY DEF ErrInv, FirstInv
    <2>2. errPc[u] # "first" => curFirst'[u] = curFirst[u]
      BY <1>1
    <2>3. ASSUME to \in Reading, errReg[u] = "fme_err"
          PROVE  \/ curFirst'[u] = first
                 \/ curFirst'[u] = NONE /\ \A e \in Low(s) : first # <<"fme_err", e>>
      <3>1. CASE errPc[u] = "first"
        BY <1>4, <3>1
      <3>2. CASE errPc[u] # "first"
        BY <1>5, <2>1, <2>2, <2>3, <3>2 DEF ClearInv
      <3> QED
        BY <3>1, <3>2
    <2>4. to \in OfFme => errReg[u] = "fme_err"
      BY <1>5, <2>1 DEF ClearInv
    <2> QED
      BY <1>1, <1>5, <1>6, <2>3, <2>4 DEF ClearInv, Low
  <1>9. RecordInv(s)'
    BY <1>1, <1>3 DEF ErrInv, FirstInv, RecordInv, Bits, Low
  <1> QED
    BY <1>1, <1>2, <1>4, <1>5, <1>7, <1>8, <1>9, ClearMoved

\* The bits written are the maskable ones the register has, so none is left;
\* if the first error was one of them, its record is the one that was read.
LEMMA WriteErrorKept ==
  ASSUME NEW s \in ErrSetups, ErrInv(s), NEW u \in Threads, Err(s)!WriteError(u)
  PROVE  ErrInv(s)'
  <1> DEFINE r == errReg[u]
             to == IF r = "fme_err" THEN "write_first" ELSE "unmask"
  <1>1. /\ errPc[u] = "write" /\ errPc' = [errPc EXCEPT ![u] = to]
        /\ errBits' = [errBits EXCEPT ![r] = errBits[r] \ (curErr[u] \cap Low(s))]
        /\ UNCHANGED <<first, mask, errLock, errReg, val, curErr, curFirst>>
    BY DEF Err!WriteError, Err!Goto, Err!FmeErr, Err!Maskable, Low
  <1>2. errPc[u] # "idle" /\ "write" \in Compared /\ "write" \in Reading
    BY <1>1 DEF Compared, Reading
  <1>3. r \in Err(s)!Regs /\ curErr[u] \cap Low(s) = errBits[r] \cap Low(s)
    BY <1>1, <1>2, OneClear DEF ErrInv, MaskInv
  <1>4. /\ errBits' \in [Err(s)!Regs -> SUBSET Bits(s)]
        /\ errBits'[r] = errBits[r] \ Low(s)
        /\ r # "fme_err" => errBits'["fme_err"] = errBits["fme_err"]
    <2>1. errBits \in [Err(s)!Regs -> SUBSET Bits(s)]
      BY DEF ErrInv, ErrTypes
    <2>2. errBits[r] \ (curErr[u] \cap Low(s)) = errBits[r] \ Low(s)
      BY <1>3
    <2>3. "fme_err" \in Err(s)!Regs
      BY DEF Err!Regs, Err!FmeErr
    <2> HIDE DEF r
    <2> QED
      BY <1>1, <1>3, <2>1, <2>2, <2>3
  <1>5. /\ to \in Masked /\ to \notin Compared /\ errPc'[u] = to
        /\ r = "fme_err" => to = "write_first"
        /\ r # "fme_err" => to \notin Cleared /\ to \notin Reading /\ to \notin OfFme
    <2>1. /\ "write_first" \in Masked \ Compared /\ "unmask" \in Masked \ Compared
          /\ "unmask" \notin Cleared /\ "unmask" \notin Reading
          /\ "unmask" \notin OfFme
      BY SMT DEF Masked, Compared, Cleared, Reading, OfFme
    <2>2. errPc'[u] = to
      BY <1>1 DEF ErrInv, ErrTypes
    <2> HIDE DEF r
    <2> QED
      BY <2>1, <2>2
  <1>6. r = "fme_err" =>
          \/ curFirst[u] = first
          \/ curFirst[u] = NONE /\ \A e \in Low(s) : first # <<"fme_err", e>>
    BY <1>1, <1>2 DEF ErrInv, FirstInv, ClearInv
  <1>7. DOMAIN curFirst' = Threads /\ curErr' \in [Threads -> SUBSET Bits(s)]
    BY <1>1 DEF ErrInv, ErrTypes
  <1>8. errReg'[u] = r /\ curFirst'[u] = curFirst[u] /\ first' = first
    BY <1>1
  <1> HIDE DEF to, r
  <1>9. ClearInv(s, u)'
    <2>1. CASE r = "fme_err"
      BY <1>4, <1>6, <1>8, <2>1 DEF ClearInv, Low
    <2>2. CASE r # "fme_err"
      BY <1>5, <2>2 DEF ClearInv
    <2> QED
      BY <2>1, <2>2
  <1>10. RecordInv(s)'
    <2>1. /\ \A w \in Threads : errPc[w] # "write_first"
          /\ RecordInv(s)
      BY <1>1, <1>2, OneClear DEF ErrInv, FirstInv
    <2>2. first = NONE => errBits'["fme_err"] \cap Low(s) = {}
      BY <1>4, <2>1 DEF RecordInv
    <2>3. ASSUME NEW e \in Bits(s), first = <<"fme_err", e>>,
                 e \notin errBits'["fme_err"]
          PROVE  errPc'[u] = "write_first" /\ curFirst'[u] = first
      <3>1. e \in errBits["fme_err"]
        BY <2>1, <2>3 DEF RecordInv
      <3>2. r = "fme_err" /\ e \in Low(s)
        BY <1>4, <2>3, <3>1
      <3> QED
        BY <1>5, <1>6, <1>8, <2>3, <3>2
    <2> QED
      BY <1>8, <2>2, <2>3 DEF RecordInv, Bits, Low
  <1> QED
    BY <1>1, <1>2, <1>4, <1>5, <1>7, <1>9, <1>10, ClearMoved DEF r

\* A clear drops the record of the first error that it has read.
LEMMA WriteFirstKept ==
  ASSUME NEW s \in ErrSetups, ErrInv(s), NEW u \in Threads, Err(s)!WriteFirst(u)
  PROVE  ErrInv(s)'
  <1>1. /\ errPc[u] = "write_first" /\ errPc' = [errPc EXCEPT ![u] = "write_next"]
        /\ first' = IF first = curFirst[u] THEN NONE ELSE first
        /\ UNCHANGED <<errBits, mask, errLock, errReg, val, curErr, curFirst>>
    BY DEF Err!WriteFirst, Err!Goto
  <1>2. /\ errPc[u] # "idle" /\ "write_first" \in Cleared /\ "write_first" \in OfFme
        /\ "write_first" \in Reading
        /\ "write_next" \in Masked /\ "write_next" \notin Compared
        /\ "write_next" \notin Reading /\ "write_next" # "write_first"
    BY <1>1, SMT DEF Cleared, Masked, Compared, Reading, OfFme
  <1>3. /\ errReg[u] = "fme_err" /\ errBits["fme_err"] \cap Low(s) = {}
        /\ RecordInv(s)
    BY <1>1, <1>2 DEF ErrInv, FirstInv, ClearInv
  <1>4. /\ errBits' \in [Err(s)!Regs -> SUBSET Bits(s)]
        /\ curErr' \in [Threads -> SUBSET Bits(s)]
        /\ DOMAIN curFirst' = Threads /\ errPc'[u] = "write_next"
    BY <1>1 DEF ErrInv, ErrTypes
  <1>5. ClearInv(s, u)'
    BY <1>1, <1>2, <1>3, <1>4 DEF ClearInv, Low
  <1>6. RecordInv(s)'
    <2>1. \A w \in Threads : errPc[w] = "write_first" => w = u
      BY <1>1, <1>2, OneClear
    <2>2. ASSUME NEW e \in Bits(s), first' = <<"fme_err", e>>
          PROVE  e \in errBits["fme_err"]
      <3>1. NONE # <<"fme_err", e>>
        BY FmeAssumption DEF Bits
      <3>2. first' = first /\ first # curFirst[u]
        BY <1>1, <2>2, <3>1
      <3> QED
        BY <1>3, <2>1, <2>2, <3>2 DEF RecordInv
    <2> QED
      BY <1>1, <1>3, <2>2 DEF RecordInv, Bits, Low
  <1> QED
    BY <1>1, <1>2, <1>4, <1>5, <1>6, ClearMoved

\* An error is captured only if no clear has masked it.
LEMMA HwErrorKept ==
  ASSUME NEW s \in ErrSetups, ErrInv(s), NEW r \in Err(s)!Regs,
         NEW e \in Bits(s), Err(s)!HwError(r, e)
  PROVE  ErrInv(s)'
  <1>1. /\ e \notin mask[r] /\ errBits' = [errBits EXCEPT ![r] = errBits[r] \cup {e}]
        /\ first' = IF first = NONE THEN <<r, e>> ELSE first
        /\ UNCHANGED <<mask, errLock, errPc, errReg, val, curErr, curFirst>>
    BY DEF Err!HwError, Err!local
  <1>2. \A w \in Threads : errPc[w] # "idle" => errReg[w] # r \/ e \notin Low(s)
    BY <1>1 DEF ErrInv, MaskInv
  <1>3. /\ errBits' \in [Err(s)!Regs -> SUBSET Bits(s)]
        /\ errBits'[r] = errBits[r] \cup {e}
        /\ \A x \in Err(s)!Regs \ {r} : errBits'[x] = errBits[x]
    BY <1>1 DEF ErrInv, ErrTypes
  <1>4. Err(s)!Regs' = Err(s)!Regs /\ "fme_err" \in Err(s)!Regs
    BY DEF Err!Regs, Err!FmeErr
  <1>5. ErrTypes(s)'
    BY <1>1, <1>3, <1>4 DEF ErrInv, ErrTypes, Bits
  <1>6. \A w \in Threads : errPc[w] # "idle" =>
          errBits'[errReg[w]] \cap Low(s) = errBits[errReg[w]] \cap Low(s)
    <2> SUFFICES ASSUME NEW w \in Threads, errPc[w] # "idle"
                 PROVE  errBits'[errReg[w]] \cap Low(s) = errBits[errReg[w]] \cap Low(s)
      OBVIOUS
    <2>1. errReg[w] \in Err(s)!Regs
      BY DEF ErrInv, ErrTypes
    <2>2. CASE errReg[w] = r
      BY <1>2, <1>3, <2>2
    <2>3. CASE errReg[w] # r
      BY <1>3, <2>1, <2>3
    <2> QED
      BY <2>2, <2>3
  <1>7. MaskInv(s)'
    <2>1. "idle" \notin Compared
      BY SMT DEF Compared
    <2>2. \A w \in Threads : errPc[w] \in Compared =>
            /\ curErr[w] \cap Low(s) = errBits'[errReg[w]] \cap Low(s)
            /\ curErr[w] = val[w]
      BY <1>6, <2>1 DEF ErrInv, MaskInv
    <2> QED
      BY <1>1, <1>4, <2>2 DEF ErrInv, MaskInv, Low, Err!DefaultMask, Err!FmeErr
  <1>8. ASSUME NEW w \in Threads PROVE ClearInv(s, w)'
    <2>1. ClearInv(s, w)
      BY DEF ErrInv, FirstInv
    <2>2. "idle" \notin Reading /\ "idle" \notin Cleared /\ Cleared \subseteq OfFme
      BY SMT DEF Reading, Cleared, OfFme
    <2>3. errPc[w] \in Cleared => errBits'["fme_err"] \cap Low(s) = {}
      BY <1>6, <2>1, <2>2 DEF ClearInv
    <2>4. ASSUME errPc[w] \in Reading, errReg[w] = "fme_err"
          PROVE  \/ curFirst[w] = first'
                 \/ curFirst[w] = NONE /\ \A x \in Low(s) : first' # <<"fme_err", x>>
      <3>1. CASE first # NONE
        BY <1>1, <2>1, <2>4, <3>1 DEF ClearInv
      <3>2. CASE first = NONE
        <4>1. curFirst[w] = NONE /\ first' = <<r, e>>
          BY <1>1, <2>1, <2>4, <3>2 DEF ClearInv
        <4>2. r # "fme_err" \/ e \notin Low(s)
          BY <1>2, <2>2, <2>4
        <4>3. \A x \in Low(s) : <<r, e>> # <<"fme_err", x>>
          BY <4>2, SMT
        <4> QED
          BY <4>1, <4>3
      <3> QED
        BY <3>1, <3>2
    <2> QED
      BY <1>1, <2>1, <2>3, <2>4 DEF ClearInv, Low
  <1>9. RecordInv(s)'
    <2>1. RecordInv(s)
      BY DEF ErrInv, FirstInv
    <2>2. first' = NONE => errBits'["fme_err"] \cap Low(s) = {}
      <3> SUFFICES ASSUME first' = NONE
                   PROVE  errBits'["fme_err"] \cap Low(s) = {}
        OBVIOUS
      <3>1. first = NONE /\ <<r, e>> = NONE
        BY <1>1
      <3>2. r # "fme_err"
        BY <3>1, FmeAssumption DEF Bits
      <3> QED
        BY <1>3, <1>4, <2>1, <3>1, <3>2 DEF RecordInv
    <2>3. \A x \in errBits["fme_err"] : x \in errBits'["fme_err"]
      BY <1>3, <1>4
    <2>4. ASSUME NEW x \in Bits(s), first' = <<"fme_err", x>>
          PROVE  \/ x \in errBits'["fme_err"]
                 \/ \E w \in Threads : errPc[w] = "write_first" /\ curFirst[w] = first'
      <3>1. CASE first # NONE
        BY <1>1, <2>1, <2>3, <2>4, <3>1 DEF RecordInv
      <3>2. CASE first = NONE
        <4>1. <<r, e>> = <<"fme_err", x>>
          BY <1>1, <2>4, <3>2
        <4>2. r = "fme_err" /\ e = x
          BY <4>1, SMT
        <4> QED
          BY <1>3, <4>2
      <3> QED
        BY <3>1, <3>2
    <2> QED
      BY <1>1, <2>2, <2>4 DEF RecordInv, Bits, Low
  <1> QED
    BY <1>5, <1>7, <1>8, <1>9 DEF ErrInv, FirstInv

\* A file is read, or an error injected: the clear that runs is not disturbed.
LEMMA ShownKept ==
  ASSUME NEW s \in ErrSetups, ErrInv(s), NEW u \in Threads,
         \/ Err(s)!ErrorsShow(u) \/ Err(s)!PcieErrorsShow(u)
         \/ \E data \in {0, 7, 8} : Err(s)!InjectError(u, data)
  PROVE  ErrInv(s)'
  <1>1. /\ errPc[u] = "idle"
        /\ UNCHANGED <<errBits, first, mask, errLock, errPc, curErr, curFirst>>
    BY DEF Err!ErrorsShow, Err!PcieErrorsShow, Err!InjectError, Err!Shown,
           Err!hw, Err!local
  <1>2. \/ errReg' = errReg /\ val' = val
        \/ \E r \in Err(s)!Regs : /\ errReg' = [errReg EXCEPT ![u] = r]
                                  /\ val' = [val EXCEPT ![u] = errBits[r]]
    BY DEF Err!ErrorsShow, Err!PcieErrorsShow, Err!InjectError, Err!Shown,
           Err!local, Err!Regs
  <1>3. /\ errReg' \in [Threads -> Err(s)!Regs]
        /\ val' \in [Threads -> SUBSET Bits(s)]
        /\ \A w \in Threads : w # u => errReg'[w] = errReg[w] /\ val'[w] = val[w]
    BY <1>2 DEF ErrInv, ErrTypes
  <1>4. \A w \in Threads : errPc[w] # "idle" => errReg'[w] = errReg[w] /\ val'[w] = val[w]
    BY <1>1, <1>3
  <1>5. Err(s)!Regs' = Err(s)!Regs
    BY DEF Err!Regs, Err!FmeErr
  <1>6. ErrTypes(s)'
    BY <1>1, <1>3, <1>5 DEF ErrInv, ErrTypes, Bits
  <1>7. MaskInv(s)'
    <2>1. "idle" \notin Compared
      BY SMT DEF Compared
    <2>2. \A r : (\E w \in Threads : errPc[w] # "idle" /\ errReg'[w] = r)
                 <=> (\E w \in Threads : errPc[w] # "idle" /\ errReg[w] = r)
      BY <1>4
    <2>3. \A r \in Err(s)!Regs :
            mask[r] = IF \E w \in Threads : errPc[w] # "idle" /\ errReg'[w] = r
                      THEN Low(s) ELSE Err(s)!DefaultMask(r)
      BY <2>2 DEF ErrInv, MaskInv
    <2>4. \A w \in Threads : errPc[w] \in Compared =>
            /\ curErr[w] \cap Low(s) = errBits[errReg'[w]] \cap Low(s)
            /\ curErr[w] = val'[w]
      BY <1>4, <2>1 DEF ErrInv, MaskInv
    <2>5. \A w \in Threads : errPc[w] # "idle" => errLock = w
      BY DEF ErrInv, MaskInv
    <2> QED
      BY <1>1, <1>5, <2>3, <2>4, <2>5 DEF MaskInv, Low, Err!DefaultMask, Err!FmeErr
  <1>8. FirstInv(s)'
    <2>1. "idle" \notin Reading /\ "idle" \notin Cleared /\ "idle" \notin OfFme
      BY SMT DEF Reading, Cleared, OfFme
    <2>2. RecordInv(s)'
      BY <1>1 DEF ErrInv, FirstInv, RecordInv, Bits, Low
    <2>3. ASSUME NEW w \in Threads PROVE ClearInv(s, w)'
      <3>1. CASE errPc[w] = "idle"
        BY <1>1, <2>1, <3>1 DEF ClearInv
      <3>2. CASE errPc[w] # "idle"
        BY <1>1, <1>4, <3>2 DEF ErrInv, FirstInv, ClearInv, Low
      <3> QED
        BY <3>1, <3>2
    <2> QED
      BY <2>2, <2>3 DEF FirstInv
  <1> QED
    BY <1>6, <1>7, <1>8 DEF ErrInv

\* A clear takes the lock and masks its register.
LEMMA LockedKept ==
  ASSUME NEW s \in ErrSetups, ErrInv(s), NEW u \in Threads,
         Err(s)!ClearStore(u) \/ Err(s)!PcieStore(u)
  PROVE  ErrInv(s)'
  <1>1. /\ errLock = NONE /\ errLock' = u /\ errPc[u] = "idle"
        /\ errPc' = [errPc EXCEPT ![u] = "read"]
        /\ mask' = [mask EXCEPT ![errReg[u]] = Low(s)]
        /\ UNCHANGED <<errBits, first, errReg, val, curErr, curFirst>>
    BY DEF Err!ClearStore, Err!PcieStore, Err!Locked, Err!Goto, Err!hw,
           Err!Maskable, Low
  <1>2. \A w \in Threads : errPc[w] = "idle"
    BY <1>1, FmeAssumption DEF ErrInv, MaskInv
  <1>3. /\ "read" # "idle" /\ "read" \in Masked /\ "read" \notin Compared
        /\ "read" \notin Reading /\ "read" \notin Cleared /\ "read" \notin OfFme
        /\ "idle" \notin Compared /\ "idle" \notin Cleared
        /\ "idle" \notin Reading /\ "idle" \notin OfFme /\ "idle" # "write_first"
    BY SMT DEF Masked, Compared, Cleared, Reading, OfFme
  <1>4. /\ errPc' \in [Threads -> {"idle"} \cup Masked] /\ errPc'[u] = "read"
        /\ \A w \in Threads : w # u => errPc'[w] = "idle"
    BY <1>1, <1>2, <1>3 DEF ErrInv, ErrTypes
  <1>5. /\ mask' \in [Err(s)!Regs -> SUBSET Bits(s)]
        /\ mask'[errReg[u]] = Low(s)
        /\ \A r \in Err(s)!Regs : r # errReg[u] => mask'[r] = mask[r]
    BY <1>1 DEF ErrInv, ErrTypes, Low, Bits
  <1>6. Err(s)!Regs' = Err(s)!Regs
    BY DEF Err!Regs, Err!FmeErr
  <1>7. ErrTypes(s)'
    BY <1>1, <1>4, <1>5, <1>6 DEF ErrInv, ErrTypes, Bits
  <1>8. MaskInv(s)'
    <2>1. \A r \in Err(s)!Regs : mask[r] = Err(s)!DefaultMask(r)
      BY <1>2 DEF ErrInv, MaskInv
    <2>2. \A r : (\E w \in Threads : errPc'[w] # "idle" /\ errReg[w] = r)
                 <=> r = errReg[u]
      BY <1>3, <1>4
    <2>3. \A r \in Err(s)!Regs :
            mask'[r] = IF \E w \in Threads : errPc'[w] # "idle" /\ errReg[w] = r
                       THEN Low(s) ELSE Err(s)!DefaultMask(r)
      BY <1>5, <2>1, <2>2
    <2> QED
      BY <1>1, <1>3, <1>4, <1>6, <2>3 DEF MaskInv, Low, Err!DefaultMask, Err!FmeErr
  <1>9. FirstInv(s)'
    <2>1. \A w \in Threads : errPc[w] # "write_first"
      BY <1>2, <1>3
    <2>2. RecordInv(s)'
      BY <1>1, <2>1 DEF ErrInv, FirstInv, RecordInv, Bits, Low
    <2>3. \A w \in Threads : ClearInv(s, w)'
      BY <1>3, <1>4 DEF ClearInv
    <2> QED
      BY <2>2, <2>3 DEF FirstInv
  <1> QED
    BY <1>7, <1>8, <1>9 DEF ErrInv

\* The mask is restored, refused or not.
LEMMA ReturnKept ==
  ASSUME NEW s \in ErrSetups, ErrInv(s), NEW u \in Threads, Err(s)!Return(u)
  PROVE  ErrInv(s)'
  <1>1. /\ errPc[u] = "unmask" /\ errPc' = [errPc EXCEPT ![u] = "idle"]
        /\ mask' = [mask EXCEPT ![errReg[u]] = Err(s)!DefaultMask(errReg[u])]
        /\ errReg' = [errReg EXCEPT ![u] = "fme_err"]
        /\ val' = [val EXCEPT ![u] = {}] /\ curErr' = [curErr EXCEPT ![u] = {}]
        /\ curFirst' = [curFirst EXCEPT ![u] = NONE]
        /\ UNCHANGED <<errBits, first>>
    BY DEF Err!Return, Err!Left, Err!Goto, Err!hw, Err!FmeErr
  <1>2. errPc[u] # "idle" /\ errPc[u] # "write_first"
    BY <1>1
  <1>3. errPc' \in [Threads -> {"idle"} \cup Masked]
        /\ \A w \in Threads : errPc'[w] = "idle" /\ errPc[w] # "write_first"
    BY <1>1, <1>2, OneClear DEF ErrInv, ErrTypes
  <1>4. "fme_err" \in Err(s)!Regs /\ Err(s)!Regs' = Err(s)!Regs
    BY DEF Err!Regs, Err!FmeErr
  <1>5. \A r \in Err(s)!Regs : Err(s)!DefaultMask(r) \in SUBSET Bits(s)
    BY DEF Err!DefaultMask, Bits
  <1>6. ErrTypes(s)'
    <2>1. mask' \in [Err(s)!Regs -> SUBSET Bits(s)]
      BY <1>1, <1>2, <1>5, OneClear DEF ErrInv, ErrTypes
    <2>2. errReg' \in [Threads -> Err(s)!Regs]
      BY <1>1, <1>4 DEF ErrInv, ErrTypes
    <2>3. /\ val' \in [Threads -> SUBSET Bits(s)]
          /\ curErr' \in [Threads -> SUBSET Bits(s)]
          /\ DOMAIN curFirst' = Threads
      BY <1>1 DEF ErrInv, ErrTypes
    <2>4. errBits' \in [Err(s)!Regs -> SUBSET Bits(s)]
      BY <1>1 DEF ErrInv, ErrTypes
    <2> QED
      BY <1>3, <1>4, <2>1, <2>2, <2>3, <2>4 DEF ErrTypes, Bits
  <1>7. MaskInv(s)'
    <2>1. \A r \in Err(s)!Regs : r # errReg[u] => mask[r] = Err(s)!DefaultMask(r)
      BY <1>2, OneClear DEF ErrInv, MaskInv
    <2>2. \A r \in Err(s)!Regs : mask'[r] = Err(s)!DefaultMask(r)
      BY <1>1, <2>1 DEF ErrInv, ErrTypes
    <2>3. "idle" \notin Compared
      BY SMT DEF Compared
    <2> QED
      BY <1>3, <1>4, <2>2, <2>3 DEF MaskInv, Err!DefaultMask, Err!FmeErr
  <1>8. FirstInv(s)'
    <2>1. "idle" \notin Reading /\ "idle" \notin Cleared /\ "idle" \notin OfFme
      BY SMT DEF Reading, Cleared, OfFme
    <2>2. RecordInv(s)'
      BY <1>1, <1>3 DEF ErrInv, FirstInv, RecordInv, Bits, Low
    <2> QED
      BY <1>3, <2>1, <2>2 DEF FirstInv, ClearInv
  <1> QED
    BY <1>6, <1>7, <1>8 DEF ErrInv

\* Every step of the errors keeps their invariant.
LEMMA ErrStep ==
  ASSUME NEW s \in ErrSetups, ErrInv(s), Err(s)!Next
  PROVE  ErrInv(s)'
  BY HwErrorKept, ShownKept, LockedKept, ReadKept, RecordsKept, WriteErrorKept,
     WriteFirstKept, ReturnKept DEF Err!Next, Err!Maskable, Bits

\* The other parts leave the errors alone.
LEMMA ErrRests ==
  ASSUME NEW s \in ErrSetups, ErrInv(s), UNCHANGED errVars
  PROVE  ErrInv(s)'
  <1>1. ErrTypes(s)' /\ FirstInv(s)'
    BY DEF ErrInv, ErrTypes, FirstInv, RecordInv, ClearInv, Bits, Low, errVars,
           Err!Regs, Err!FmeErr
  <1>2. MaskInv(s)'
    BY DEF ErrInv, MaskInv, Low, errVars, Err!Regs, Err!FmeErr, Err!DefaultMask
  <1> QED
    BY <1>1, <1>2 DEF ErrInv

\* At first there is no error and the masks are the default ones.
LEMMA ErrInit ==
  ASSUME NEW s \in ErrSetups, Err(s)!Init
  PROVE  ErrInv(s)
  <1>1. /\ errBits = [r \in Err(s)!Regs |-> {}]
        /\ mask = [r \in Err(s)!Regs |-> Err(s)!DefaultMask(r)]
        /\ first = NONE /\ errPc = [u \in Threads |-> "idle"]
        /\ errReg = [u \in Threads |-> "fme_err"]
        /\ val = [u \in Threads |-> {}] /\ curErr = [u \in Threads |-> {}]
        /\ curFirst = [u \in Threads |-> NONE]
    BY DEF Err!Init, Err!FmeErr
  <1>2. /\ "fme_err" \in Err(s)!Regs
        /\ \A r : Err(s)!DefaultMask(r) \in SUBSET Bits(s)
    BY DEF Err!Regs, Err!FmeErr, Err!DefaultMask, Bits
  <1>3. ErrTypes(s)
    BY <1>1, <1>2 DEF ErrTypes
  <1>4. /\ "idle" \notin Compared /\ "idle" \notin Cleared
        /\ "idle" \notin Reading /\ "idle" \notin OfFme
    BY SMT DEF Compared, Cleared, Reading, OfFme
  <1>5. MaskInv(s)
    BY <1>1, <1>4 DEF MaskInv
  <1>6. FirstInv(s)
    BY <1>1, <1>2, <1>4, FmeAssumption DEF FirstInv, RecordInv, ClearInv, Bits
  <1> QED
    BY <1>3, <1>5, <1>6 DEF ErrInv

ErrPart == \A s \in ErrSetups : part = <<"errors", s>> => ErrInv(s)

\* The invariant of the errors holds in every reachable state.
LEMMA ErrInvHolds == FmeSpec => []ErrPart
  <1>1. FmeInit => ErrPart
    BY ErrInit, PartNames DEF FmeInit, ErrPart
  <1>2. ErrPart /\ [FmeNext]_allVars => ErrPart'
    <2> SUFFICES ASSUME ErrPart, [FmeNext]_allVars, NEW s \in ErrSetups,
                        part' = <<"errors", s>>
                 PROVE  ErrInv(s)'
      BY DEF ErrPart
    <2>1. part' = part /\ ErrInv(s)
      BY DEF FmeNext, allVars, ErrPart
    <2>2. CASE ErrNext
      BY <2>1, <2>2, ErrStep, PartNames DEF ErrNext
    <2>3. CASE UNCHANGED errVars
      BY <2>1, <2>3, ErrRests
    <2> QED
      BY <2>2, <2>3 DEF FmeNext, allVars
  <1> QED
    BY <1>1, <1>2, PTL DEF FmeSpec

\* For any errors, inside or outside the masks, any PCIe registers and any
\* threads: whenever no clear runs, there is a record if an error of fme_err
\* that a clear can clear is pending, a record of an error of fme_err names a
\* pending one, and every error but MBP is captured, also after a clear that was
\* refused (fme-error.c).
THEOREM FmeErrorsAlwaysRight == FmeSpec => []FmeErrorsRight
  <1>1. ASSUME NEW s \in ErrSetups, ErrInv(s), errLock = NONE
        PROVE  \A w \in Threads : errPc[w] = "idle"
    BY <1>1, FmeAssumption DEF ErrInv, MaskInv
  <1>2. ASSUME NEW s \in ErrSetups, ErrInv(s) PROVE Err(s)!MasksRestored
    <2>1. DOMAIN mask = Err(s)!Regs
      BY <1>2 DEF ErrInv, ErrTypes
    <2> QED
      BY <1>1, <1>2, <2>1 DEF Err!MasksRestored, ErrInv, MaskInv
  <1>3. ASSUME NEW s \in ErrSetups, ErrInv(s) PROVE Err(s)!FirstErrorKept
    <2>1. errLock = NONE => \A w \in Threads : errPc[w] # "write_first"
      BY <1>1, <1>3
    <2>2. RecordInv(s)
      BY <1>3 DEF ErrInv, FirstInv
    <2> QED
      BY <2>1, <2>2 DEF RecordInv, Err!FirstErrorKept, Err!Maskable, Err!FmeErr,
         Low, Bits
  <1>4. ErrPart => FmeErrorsRight
    BY <1>2, <1>3 DEF ErrPart, FmeErrorsRight
  <1> QED
    BY <1>4, ErrInvHolds, PTL

\* An error leaves a register only in a step of a clear whose user has read
\* that error from that register, whatever arrives or is cleared meanwhile.
THEOREM ErrorsOnlyAcknowledged == FmeSpec => OnlyAcknowledged
  <1> DEFINE A == \A s \in ErrSetups : part = <<"errors", s>> => Err(s)!Acknowledged
  <1>1. ErrPart /\ [FmeNext]_allVars => [A]_errVars
    <2> SUFFICES ASSUME ErrPart, [FmeNext]_allVars, NEW s \in ErrSetups,
                        part = <<"errors", s>>, errVars' # errVars
                 PROVE  Err(s)!Acknowledged
      OBVIOUS
    <2>1. ErrInv(s) /\ Err(s)!Next
      BY PartNames DEF ErrPart, FmeNext, ErrNext, allVars
    <2>2. ASSUME NEW u \in Threads, Err(s)!WriteError(u)
          PROVE  Err(s)!Acknowledged
      <3>1. /\ errPc[u] = "write"
            /\ errBits' = [errBits EXCEPT
                 ![errReg[u]] = errBits[errReg[u]] \ (curErr[u] \cap Low(s))]
        BY <2>2 DEF Err!WriteError, Err!Goto, Err!Maskable, Low
      <3>2. curErr[u] = val[u]
        BY <2>1, <3>1 DEF ErrInv, MaskInv, Compared
      <3> QED
        BY <3>1, <3>2 DEF Err!Acknowledged
    <2>3. ASSUME NEW r \in Err(s)!Regs, NEW e, Err(s)!HwError(r, e)
          PROVE  Err(s)!Acknowledged
      BY <2>3 DEF Err!HwError, Err!Acknowledged
    <2>4. ASSUME errBits' = errBits PROVE Err(s)!Acknowledged
      BY <2>4 DEF Err!Acknowledged
    <2> QED
      BY <2>1, <2>2, <2>3, <2>4 DEF Err!Next, Err!InjectError, Err!ErrorsShow,
         Err!PcieErrorsShow, Err!Shown, Err!ClearStore, Err!PcieStore,
         Err!Locked, Err!Read, Err!ReadFirst, Err!ReadNext, Err!WriteFirst,
         Err!WriteNext, Err!Return, Err!Left, Err!hw
  <1>2. ErrPart /\ [FmeNext]_allVars =>
          [\A s \in ErrSetups : part = <<"errors", s>> => Err(s)!Acknowledged]_errVars
    BY <1>1
  <1> QED
    BY <1>2, ErrInvHolds, PTL DEF FmeSpec, OnlyAcknowledged

=============================================================================
