------------------------------ MODULE FmePerf ------------------------------
(***************************************************************************)
(* The performance monitors of the FME (fme-iperf.c, fme-dperf.c).  Each   *)
(* monitor has a control register, in which a reader selects the event it  *)
(* wants counted, and a counter register, which names the event it reports *)
(* after some delay.  The control register also holds the freeze bit and,  *)
(* for the fabric monitors, the port whose events are counted.             *)
(*                                                                         *)
(* The registers are hardware: a counter register follows the selection at *)
(* some later time; the cache monitor has two of them.  What a counter     *)
(* holds is represented by the event it belongs to.                        *)
(***************************************************************************)
EXTENDS Integers

CONSTANTS Users,
          Mons,       \* among "cache", "sip", "vtd", "fab", "dfab"
          Events,
          Objs,       \* performance objects: ROOT and ports
          ROOT, NONE

Fabrics == Mons \cap {"fab", "dfab"}

VARIABLES ctl,        \* control registers
          ctr,        \* counter registers: the event reported
          ctr1,       \* second counter register of the cache monitor
          lock,       \* owner of pdata->lock
          op,         \* per user: the call it is in
          frozen, counted   \* per monitor: last freeze and enable stored

regs == <<ctl, ctr, ctr1>>
hist == <<frozen, counted>>
vars == <<regs, lock, op, hist>>

Idle == [at |-> "idle"]

Init ==
  /\ \E e \in Events :
       /\ ctl = [m \in Mons |-> [event |-> e, freeze |-> FALSE, port |-> ROOT]]
       /\ ctr = [m \in Mons |-> e]
       /\ ctr1 = e
  /\ lock = NONE
  /\ op = [u \in Users |-> Idle]
  /\ frozen = [m \in Mons |-> FALSE]
  /\ counted = [m \in Mons |-> ROOT]

\* The counters start reporting the event selected.
HwReport(m) ==
  /\ ctr[m] # ctl[m].event
  /\ ctr' = [ctr EXCEPT ![m] = ctl[m].event]
  /\ UNCHANGED <<ctl, ctr1, lock, op, hist>>

HwReport1 ==
  /\ "cache" \in Mons
  /\ ctr1 # ctl["cache"].event
  /\ ctr1' = ctl["cache"].event
  /\ UNCHANGED <<ctl, ctr, lock, op, hist>>

----------------------------------------------------------------------------
(* Common steps *)

At(u, place) == op[u].at = place
Set(u, r) == op' = [op EXCEPT ![u] = r]
Goto(u, place) == op' = [op EXCEPT ![u].at = place]

\* fabric_pobj_is_enabled
Enabled(m, obj) == ctl[m].port = obj

\* A call that changes one field of a control register.
Call(kind, m, x) == [at |-> "lock", kind |-> kind, mon |-> m, arg |-> x,
                     obj |-> NONE, cur |-> NONE, got |-> NONE, got1 |-> NONE]

Begin(u, c) == At(u, "idle") /\ Set(u, c) /\ UNCHANGED <<regs, lock, hist>>

Show(u, m, e, obj) == Begin(u, [Call("show", m, e) EXCEPT !.obj = obj])
Freeze(u, m, s)    == Begin(u, Call("freeze", m, s))

\* read_cache_counter
CacheShow(u) == \E e \in Events : "cache" \in Mons /\ Show(u, "cache", e, ROOT)
\* read_iommu_sip_counter
SipShow(u) == \E e \in Events : "sip" \in Mons /\ Show(u, "sip", e, ROOT)
\* read_iommu_counter: the event is offset by the id of the object
VtdShow(u) == \E e \in Events : "vtd" \in Mons /\ Show(u, "vtd", e, ROOT)
\* read_fabric_counter of iperf and of dperf
FabShow(u) ==
  \E e \in Events, o \in Objs : "fab" \in Mons /\ Show(u, "fab", e, o)
DfabShow(u) ==
  \E e \in Events, o \in Objs : "dfab" \in Mons /\ Show(u, "dfab", e, o)

\* freeze_store, vtd_freeze_store, fab_freeze_store of iperf and of dperf
CacheFreeze(u) == \E s \in BOOLEAN : "cache" \in Mons /\ Freeze(u, "cache", s)
VtdFreeze(u)   == \E s \in BOOLEAN : "vtd" \in Mons /\ Freeze(u, "vtd", s)
FabFreeze(u)   == \E s \in BOOLEAN : "fab" \in Mons /\ Freeze(u, "fab", s)
DfabFreeze(u)  == \E s \in BOOLEAN : "dfab" \in Mons /\ Freeze(u, "dfab", s)

\* fab_enable_store: an object that is enabled already, which is looked up
\* without the lock, is left alone.
Enable(u, m, o) ==
  m \in Mons /\ ~Enabled(m, o) /\ Begin(u, Call("enable", m, o))

FabEnable(u)  == \E o \in Objs : Enable(u, "fab", o)
DfabEnable(u) == \E o \in Objs : Enable(u, "dfab", o)

\* Mutant: freezing does not take the lock.
LockedFreezeFree(u) ==
  /\ At(u, "lock") /\ (lock = NONE \/ op[u].kind = "freeze")
  /\ IF op[u].kind = "show" /\ op[u].mon \in Fabrics
        /\ ~Enabled(op[u].mon, op[u].obj)
     THEN lock' = NONE /\ Set(u, Idle)
     ELSE lock' = (IF op[u].kind = "freeze" THEN lock ELSE u) /\ Goto(u, "read")
  /\ UNCHANGED <<regs, hist>>

\* mutex_lock(&pdata->lock); a fabric counter of a disabled object is zero.
Locked(u) ==
  /\ At(u, "lock") /\ lock = NONE
  /\ IF op[u].kind = "show" /\ op[u].mon \in Fabrics
        /\ ~Enabled(op[u].mon, op[u].obj)
     THEN lock' = NONE /\ Set(u, Idle)
     ELSE lock' = u /\ Goto(u, "read")
  /\ UNCHANGED <<regs, hist>>

ReadCtl(u) ==
  /\ At(u, "read")
  /\ Set(u, [op[u] EXCEPT !.at = "write", !.cur = ctl[op[u].mon]])
  /\ UNCHANGED <<regs, lock, hist>>

\* The control register is written back with the field of the call replaced.
Replaced(c) ==
  CASE c.kind = "show"   -> [c.cur EXCEPT !.event = c.arg]
    [] c.kind = "freeze" -> [c.cur EXCEPT !.freeze = c.arg]
    [] c.kind = "enable" -> [c.cur EXCEPT !.port = c.arg]

WriteCtl(u) ==
  LET c == op[u]
      m == c.mon
  IN /\ At(u, "write")
     /\ ctl' = [ctl EXCEPT ![m] = Replaced(c)]
     /\ frozen' = IF c.kind = "freeze" THEN [frozen EXCEPT ![m] = c.arg] ELSE frozen
     /\ counted' = IF c.kind = "enable" THEN [counted EXCEPT ![m] = c.arg] ELSE counted
     /\ IF c.kind = "show" THEN Goto(u, "wait") /\ lock' = lock
        ELSE Set(u, Idle) /\ lock' = NONE
     /\ UNCHANGED <<ctr, ctr1>>

\* fpga_wait_register_field: until the counter names the event, 30 us at most.
Wait(u) ==
  /\ At(u, "wait")
  /\ ctr[op[u].mon] = op[u].arg
  /\ Goto(u, "sample")
  /\ UNCHANGED <<regs, lock, hist>>

Timeout(u) ==
  /\ At(u, "wait")
  /\ ctr[op[u].mon] # op[u].arg
  /\ Set(u, Idle)
  /\ lock' = NONE
  /\ UNCHANGED <<regs, hist>>

\* The counter, or for the cache monitor the sum of both, is read.
Sample(u) ==
  /\ At(u, "sample")
  /\ Set(u, [op[u] EXCEPT !.at = "return", !.got = ctr[op[u].mon],
                          !.got1 = IF op[u].mon = "cache" THEN ctr1
                                   ELSE ctr[op[u].mon]])
  /\ UNCHANGED <<regs, lock, hist>>

Return(u) ==
  /\ At(u, "return")
  /\ Set(u, Idle)
  /\ lock' = NONE
  /\ UNCHANGED <<regs, hist>>

Start(u) ==
  \/ CacheShow(u) \/ SipShow(u) \/ VtdShow(u) \/ FabShow(u) \/ DfabShow(u)
  \/ CacheFreeze(u) \/ VtdFreeze(u) \/ FabFreeze(u) \/ DfabFreeze(u)
  \/ FabEnable(u) \/ DfabEnable(u)

Step(u) ==
  \/ ReadCtl(u) \/ WriteCtl(u) \/ Wait(u) \/ Timeout(u) \/ Sample(u) \/ Return(u)

Next ==
  \/ \E m \in Mons : HwReport(m)
  \/ HwReport1
  \/ \E u \in Users : Start(u) \/ Locked(u) \/ Step(u)

Spec == Init /\ [][Next]_vars

\* A thread that holds the lock is scheduled.
FairSpec == Spec /\ \A u \in Users : WF_vars(Step(u))

----------------------------------------------------------------------------
(* Properties *)

Shown(u) == At(u, "return") /\ op[u].kind = "show"

\* The counter a reader reports is that of the event it was asked for,
\* whatever events other readers select.  The cache monitor adds a second
\* register, whose event read_cache_counter does not look at: that one may still
\* report an earlier event, but only because the hardware is late, since the
\* event asked for is still the one selected.
RightEvent ==
  \A u \in Users : Shown(u) =>
    /\ op[u].got = op[u].arg
    /\ op[u].mon # "cache" => op[u].got1 = op[u].arg
    /\ ctl[op[u].mon].event = op[u].arg

\* A fabric counter is reported for an object only if that object is the one
\* being counted when the counter is read: enabling another object in between
\* cannot pass its events off as those of the first.
CountedObject ==
  \A u \in Users : (Shown(u) /\ op[u].mon \in Fabrics)
                     => Enabled(op[u].mon, op[u].obj)

\* Readers, freezing and enabling write the same control register, yet none
\* undoes another: the register always has the freeze bit and the port last
\* stored.
NoLostUpdate ==
  \A m \in DOMAIN ctl : ctl[m].freeze = frozen[m] /\ ctl[m].port = counted[m]

\* The lock is released again, also when the hardware never reports the event.
LockReleased == (lock # NONE) ~> (lock = NONE)

\* Stronger, and false: both cache counters that are added belong to the event
\* asked for.
CacheEvents ==
  \A u \in Users : (Shown(u) /\ op[u].mon = "cache") => op[u].got1 = op[u].arg
=============================================================================
