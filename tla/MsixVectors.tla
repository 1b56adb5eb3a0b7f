---------------------------- MODULE MsixVectors ----------------------------
(***************************************************************************)
(* Interrupts of a port and of the FME handed to user space: each MSI-X    *)
(* vector of a feature can be tied to an eventfd (fpga_msix_set_block and  *)
(* fpga_set_vector_signal in feature-dev.c), by the ioctls UAFU_SET_IRQ    *)
(* and ERR_SET_IRQ and by the last close of the device, which unties all.  *)
(*                                                                         *)
(* The calls hold pdata->lock, so one is running at a time; interrupt      *)
(* handlers, and user programs that open and close eventfds, run beside    *)
(* it.  The kernel side is external: an eventfd lives as long as it has    *)
(* references, free_irq takes the handler off the line and then waits for  *)
(* one that is running, request_irq and the allocations may fail.          *)
(***************************************************************************)
EXTENDS Integers, FiniteSets

CONSTANTS NumUint,    \* vectors of the UINT feature
          NumErr,     \* vectors of the error feature
          Evts,       \* eventfds
          MaxU,       \* largest value of the u32 fields start and count
          NULL

Features == {"uint", "err"}
CtxNum(f) == IF f = "uint" THEN NumUint ELSE NumErr
Vectors == UNION {{f} \X (0 .. CtxNum(f) - 1) : f \in Features}

VARIABLES trigger,    \* ctx[v].trigger
          named,      \* ctx[v].name is allocated
          irqArg,     \* argument of the handler on the vector's line
          running,    \* argument of a handler that is running
          refs,       \* references of each eventfd
          fdOpen,     \* the user has the eventfd open
          opens,      \* pdata->open_count
          call        \* the call that holds pdata->lock

ctxs  == <<trigger, named>>
users == <<fdOpen, opens>>
vars  == <<ctxs, irqArg, running, refs, users, call>>

Idle == [at |-> "idle"]

Init ==
  /\ trigger = [v \in Vectors |-> NULL]
  /\ named = [v \in Vectors |-> FALSE]
  /\ irqArg = [v \in Vectors |-> NULL]
  /\ running = [v \in Vectors |-> NULL]
  /\ refs = [e \in Evts |-> 0]
  /\ fdOpen = [e \in Evts |-> FALSE]
  /\ opens = 0
  /\ call = Idle

----------------------------------------------------------------------------
(* The user and the hardware *)

OpenEventfd(e) ==
  /\ ~fdOpen[e] /\ refs[e] = 0
  /\ fdOpen' = [fdOpen EXCEPT ![e] = TRUE]
  /\ refs' = [refs EXCEPT ![e] = 1]
  /\ UNCHANGED <<ctxs, irqArg, running, opens, call>>

CloseEventfd(e) ==
  /\ fdOpen[e]
  /\ fdOpen' = [fdOpen EXCEPT ![e] = FALSE]
  /\ refs' = [refs EXCEPT ![e] = @ - 1]
  /\ UNCHANGED <<ctxs, irqArg, running, opens, call>>

\* fpga_msix_handler starts with the argument the line has ...
Interrupt(v) ==
  /\ irqArg[v] # NULL /\ running[v] = NULL
  /\ running' = [running EXCEPT ![v] = irqArg[v]]
  /\ UNCHANGED <<ctxs, irqArg, refs, users, call>>

\* ... and signals it.
Signal(v) ==
  /\ running[v] # NULL
  /\ running' = [running EXCEPT ![v] = NULL]
  /\ UNCHANGED <<ctxs, irqArg, refs, users, call>>

Open ==
  /\ opens < 1
  /\ opens' = opens + 1
  /\ UNCHANGED <<ctxs, irqArg, running, refs, fdOpen, call>>

----------------------------------------------------------------------------
(* fpga_msix_set_block(feature, start, count, fds) *)

\* What the call needs to remember; fds = <<>> stands for NULL.
Call(f, start, count, fds) ==
  [at |-> "vector", f |-> f, start |-> start, count |-> count, fds |-> fds,
   j |-> start, undo |-> FALSE, ret |-> 0, new |-> NULL, before |-> trigger]

\* Sums of u32.
Plus(a, b) == (a + b) % (MaxU + 1)

BlockRefused(f, start, count) ==
  start >= CtxNum(f) \/ Plus(start, count) > CtxNum(f)

SetBlock(f, start, count, fds) ==
  /\ call = Idle
  /\ ~BlockRefused(f, start, count)
  /\ call' = Call(f, start, count, fds)

\* port_afu_set_irq: the sum may not wrap, and a block has vectors.  The fds
\* beyond those of the block are not looked at.
UafuSetIrq(start, count, fds) ==
  /\ opens > 0
  /\ ~(Plus(start, count) > NumUint \/ Plus(start, count) < start \/ count = 0)
  /\ SetBlock("uint", start, count, fds)
  /\ UNCHANGED <<ctxs, irqArg, running, refs, users>>

\* port_err_set_irq and fme_err_set_irq: one vector, if the feature has any.
ErrSetIrq(fd) ==
  /\ opens > 0 /\ NumErr > 0
  /\ SetBlock("err", 0, 1, [i \in {0} |-> fd])
  /\ UNCHANGED <<ctxs, irqArg, running, refs, users>>

\* afu_release, fme_release: the last close unties the vectors of a feature
\* (for a port the error feature first, then the UINT feature).
Close(f) ==
  /\ opens = 1 /\ f = IF NumErr > 0 THEN "err" ELSE "uint"
  /\ SetBlock(f, 0, CtxNum(f), <<>>)
  /\ opens' = 0
  /\ UNCHANGED <<ctxs, irqArg, running, refs, fdOpen>>

CloseNext ==
  /\ call.at = "done" /\ call.fds = <<>> /\ call.f = "err" /\ NumUint > 0
  /\ call' = Call("uint", 0, NumUint, <<>>)
  /\ UNCHANGED <<ctxs, irqArg, running, refs, users>>

----------------------------------------------------------------------------
(* fpga_set_vector_signal for vector call.j *)

V == <<call.f, call.j>>
Fd == IF call.undo \/ call.fds = <<>> THEN NULL
      ELSE call.fds[call.j - call.start]

At(place) == call.at = place

\* Nothing to free; a vector outside of the feature is refused with -EINVAL.
VectorFree ==
  /\ At("vector")
  /\ V \in Vectors => trigger[V] = NULL
  /\ call' = IF V \in Vectors THEN [call EXCEPT !.at = "name"]
             ELSE [call EXCEPT !.at = "next", !.ret = -1]
  /\ UNCHANGED <<ctxs, irqArg, running, refs, users>>

FreeIrq ==
  /\ At("vector") /\ V \in Vectors /\ trigger[V] # NULL
  /\ irqArg' = [irqArg EXCEPT ![V] = NULL]
  /\ call' = [call EXCEPT !.at = "put"]
  /\ UNCHANGED <<ctxs, running, refs, users>>

Forget ==
  /\ named' = [named EXCEPT ![V] = FALSE]
  /\ trigger' = [trigger EXCEPT ![V] = NULL]
  /\ refs' = [refs EXCEPT ![trigger[V]] = @ - 1]
  /\ call' = [call EXCEPT !.at = "name"]

\* Mutant: the eventfd is put without waiting for the handler.
PutTriggerAtOnce ==
  /\ At("put")
  /\ Forget
  /\ UNCHANGED <<irqArg, running, users>>

\* free_irq has returned: the handler is not running any more.
PutTrigger ==
  /\ At("put") /\ running[V] = NULL
  /\ Forget
  /\ UNCHANGED <<irqArg, running, users>>

\* fd < 0: the vector stays untied.
NoFd ==
  /\ At("name") /\ Fd = NULL
  /\ call' = [call EXCEPT !.at = "next"]
  /\ UNCHANGED <<ctxs, irqArg, running, refs, users>>

NoName ==
  /\ At("name") /\ Fd # NULL
  /\ call' = [call EXCEPT !.at = "next", !.ret = -1]
  /\ UNCHANGED <<ctxs, irqArg, running, refs, users>>

Name ==
  /\ At("name") /\ Fd # NULL
  /\ named' = [named EXCEPT ![V] = TRUE]
  /\ call' = [call EXCEPT !.at = "fdget"]
  /\ UNCHANGED <<trigger, irqArg, running, refs, users>>

BadFd ==
  /\ At("fdget") /\ ~fdOpen[Fd]
  /\ named' = [named EXCEPT ![V] = FALSE]
  /\ call' = [call EXCEPT !.at = "next", !.ret = -1]
  /\ UNCHANGED <<trigger, irqArg, running, refs, users>>

FdGet ==
  /\ At("fdget") /\ fdOpen[Fd]
  /\ refs' = [refs EXCEPT ![Fd] = @ + 1]
  /\ call' = [call EXCEPT !.at = "request", !.new = Fd]
  /\ UNCHANGED <<ctxs, irqArg, running, users>>

RequestFails ==
  /\ At("request")
  /\ named' = [named EXCEPT ![V] = FALSE]
  /\ refs' = [refs EXCEPT ![call.new] = @ - 1]
  /\ call' = [call EXCEPT !.at = "next", !.ret = -1, !.new = NULL]
  /\ UNCHANGED <<trigger, irqArg, running, users>>

\* request_irq: from here on the handler may run, before ctx[v].trigger is set.
Request ==
  /\ At("request")
  /\ irqArg' = [irqArg EXCEPT ![V] = call.new]
  /\ call' = [call EXCEPT !.at = "store"]
  /\ UNCHANGED <<ctxs, running, refs, users>>

Store ==
  /\ At("store")
  /\ trigger' = [trigger EXCEPT ![V] = call.new]
  /\ call' = [call EXCEPT !.at = "next", !.new = NULL]
  /\ UNCHANGED <<named, irqArg, running, refs, users>>

----------------------------------------------------------------------------
(* The two loops of fpga_msix_set_block *)

\* Where the loops go after vector j: on to j + 1 while nothing failed; after a
\* failure from j back to start; or out.
Onward(c) ==
  IF c.ret # 0 THEN [c EXCEPT !.at = "vector", !.undo = TRUE]
  ELSE IF c.j + 1 < c.start + c.count
       THEN [c EXCEPT !.at = "vector", !.j = @ + 1]
       ELSE [c EXCEPT !.at = "done"]

BackWhile(c, j, more) ==
  [c EXCEPT !.at = IF more THEN "vector" ELSE "done", !.j = j]

\* Mutant: the loop back stops before the first vector.
AfterFirstKept(c) ==
  IF c.undo THEN BackWhile(c, c.j - 1, c.j - 1 > c.start) ELSE Onward(c)

\* Mutant: the loop back counts with an unsigned number.
AfterUnsigned(c) ==
  LET j == IF c.j = 0 THEN MaxU ELSE c.j - 1
  IN IF c.undo THEN BackWhile(c, j, j >= c.start) ELSE Onward(c)

After(c) ==
  IF c.undo THEN BackWhile(c, c.j - 1, c.j - 1 >= c.start) ELSE Onward(c)

NextVector ==
  /\ At("next")
  /\ call' = After(call)
  /\ UNCHANGED <<ctxs, irqArg, running, refs, users>>

Return ==
  /\ At("done")
  /\ ~(call.fds = <<>> /\ call.f = "err" /\ NumUint > 0)
  /\ call' = Idle
  /\ UNCHANGED <<ctxs, irqArg, running, refs, users>>

VectorStep ==
  \/ VectorFree \/ FreeIrq \/ PutTrigger
  \/ NoFd \/ NoName \/ Name \/ BadFd \/ FdGet
  \/ RequestFails \/ Request \/ Store

CallStep == VectorStep \/ NextVector \/ CloseNext \/ Return

FdSets == [0 .. NumUint - 1 -> Evts \cup {NULL}]

Next ==
  \/ \E e \in Evts : OpenEventfd(e) \/ CloseEventfd(e)
  \/ \E v \in Vectors : Interrupt(v) \/ Signal(v)
  \/ Open
  \/ \E start, count \in 0 .. MaxU, fds \in FdSets : UafuSetIrq(start, count, fds)
  \/ \E fd \in Evts \cup {NULL} : ErrSetIrq(fd)
  \/ \E f \in Features : Close(f)
  \/ CallStep

Spec == Init /\ [][Next]_vars

\* The thread in the call is scheduled, and handlers run to their end.
FairSpec ==
  /\ Spec
  /\ WF_vars(CallStep)
  /\ \A v \in Vectors : WF_vars(Signal(v))

----------------------------------------------------------------------------
(* Properties *)

\* A handler never signals an eventfd that has been released: the reference
\* of a vector is dropped only after its handler can no longer run.
SignalAlive == \A v \in Vectors : running[v] # NULL => refs[running[v]] > 0

\* Between calls every eventfd has exactly the references of the user's
\* descriptor and of the vectors tied to it, and a vector's line, name and
\* trigger agree: no failure path leaks a reference or leaves half a vector.
Accounted ==
  call = Idle =>
    /\ \A e \in Evts :
         refs[e] = (IF fdOpen[e] THEN 1 ELSE 0)
                   + Cardinality({v \in Vectors : trigger[v] = e})
    /\ \A v \in Vectors : irqArg[v] = trigger[v]
                          /\ named[v] = (trigger[v] # NULL)

Block(c) == {<<c.f, i>> : i \in c.start .. c.start + c.count - 1}

\* A call ties every vector of its block to the eventfd given for it or, when
\* a step fails for some vector, leaves that vector and those before it untied
\* and those after it as they were.  No vector outside of the block changes,
\* and the block lies inside the feature.
BlockOutcome ==
  At("done") =>
    /\ Block(call) \subseteq Vectors
    /\ \A v \in Vectors \ Block(call) : trigger[v] = call.before[v]
    /\ IF call.ret = 0
       THEN \A v \in Block(call) :
              trigger[v] = IF call.fds = <<>> THEN NULL
                           ELSE call.fds[v[2] - call.start]
       ELSE \E k \in Block(call) : \A v \in Block(call) :
              trigger[v] = IF v[2] <= k[2] THEN NULL ELSE call.before[v]

\* Once the device is closed for the last time no vector is tied.
NothingTiedWhenClosed ==
  (opens = 0 /\ call = Idle) => \A v \in Vectors : trigger[v] = NULL

\* A call that was accepted returns, interrupts arriving or not.
CallReturns == (call # Idle) ~> (call = Idle)
=============================================================================
