---------------------------- MODULE FmePrProofs ----------------------------
(***************************************************************************)
(* FmePr implements PrService, and its PRs keep to the credits and report  *)
(* their own errors, for any number of ports and PRs, any size of words,   *)
(* images and FIFO, and an engine that may be late at every step.          *)
(***************************************************************************)
EXTENDS FmePr, TLAPS

-----------------------------------------------------------------------------
(* The inductive invariant.                                                *)

\* A port that is, or may still be, written to is not good; without a start
\* request the engine is idle and its FIFO empty.
EngineInv ==
    /\ eng = "load" => reg.start /\ ~good[into]
    /\ reg.start => ~good[reg.region]
    /\ ~reg.start => ~reg.complete /\ fifo = <<>>
    /\ pc # "idle" => ~good[port]

\* What was read of the control register may be old when it is written back,
\* but never loses a start request, and names no good port.
StaleInv ==
    pc \in {"reset_write", "unreset_write", "start_write", "complete_write"} =>
        /\ reg.start => ctl.start
        /\ ctl.start => ~good[ctl.region]
        /\ ctl.complete => ctl.start

\* All words of s are of PR n.
OwnWords(s) == \A i \in 1..Len(s) : s[i] = n

\* The words pushed so far: in the FIFO, and in the port once it is loading.
Pushed == Len(fifo) + (IF eng = "load" THEN Len(image[port]) ELSE 0)

\* The engine has, or will have, exactly the words pushed.
Loading ==
    /\ reg.start /\ reg.region = port
    /\ OwnWords(fifo)
    /\ eng = "load" => into = port /\ OwnWords(image[port])
    /\ count = Bandwidth * (words - Pushed)

Loaded == ~reg.start /\ image[port] = Image(n, words)

PhaseInv ==
    /\ pc \in {"idle_wait", "start_read", "start_write", "credit_read", "push",
               "complete_read", "complete_write", "complete_wait"} =>
         ~reg.reset
    /\ pc \in {"start_write", "complete_write"} => ~ctl.reset
    /\ pc \in {"start_read", "start_write"} =>
         /\ ~reg.start
         /\ count = Bandwidth * words
    /\ pc = "start_write" => ~ctl.complete
    /\ pc \in {"credit_read", "push", "complete_read", "complete_write"} =>
         Loading /\ ~reg.complete
    /\ pc = "complete_write" => ctl.start /\ ctl.region = port
    /\ pc \in InitPcs => count = Bandwidth * words
    /\ pc \in {"complete_read", "complete_write", "complete_wait"} => count = 0
    /\ pc = "complete_wait" => Loading \/ Loaded
    /\ pc = "end" /\ result = "success" => Loaded

ErrInv ==
    /\ pc \in {"start_read", "start_write"} => err = {}
    /\ pc \in {"credit_read", "push", "complete_read", "complete_write",
               "complete_wait"} => err \subseteq {n}
    /\ pc \notin {"idle", "end"} => pr_err = {}
    /\ OwnErrors

IInv == TypeOK /\ EngineInv /\ StaleInv /\ PhaseInv /\ CreditSafe /\ ErrInv

-----------------------------------------------------------------------------
(* Words and their number.                                                 *)

\* A word of PR n pushed behind words of PR n.
LEMMA AppendOwn ==
    ASSUME NEW s \in Seq(Nat), NEW k \in Nat, \A i \in 1..Len(s) : s[i] = k
    PROVE  /\ Append(s, k) \in Seq(Nat) /\ Len(Append(s, k)) = Len(s) + 1
           /\ \A i \in 1..Len(Append(s, k)) : Append(s, k)[i] = k
  OBVIOUS

\* What is left when a word of PR n is taken.
LEMMA TailOwn ==
    ASSUME NEW s \in Seq(Nat), s # <<>>, NEW k \in Nat,
           \A i \in 1..Len(s) : s[i] = k
    PROVE  /\ Head(s) = k /\ Tail(s) \in Seq(Nat) /\ Len(Tail(s)) = Len(s) - 1
           /\ \A i \in 1..Len(Tail(s)) : Tail(s)[i] = k
  OBVIOUS

\* Words that all are of PR n are its image.
LEMMA OwnImage ==
    ASSUME NEW s \in Seq(Nat), NEW k \in Nat, \A i \in 1..Len(s) : s[i] = k
    PROVE  s = Image(k, Len(s))
  BY DEF Image

\* An image is a sequence of words.
LEMMA ImageType ==
    ASSUME NEW k \in Nat, NEW w \in Nat
    PROVE  Image(k, w) \in Seq(Nat)
  BY DEF Image

\* Bytes and words: a word less, none left, and at least one left.
LEMMA WordArith ==
    ASSUME NEW b \in Nat \ {0}, NEW m \in Int
    PROVE  /\ b * m \in Int
           /\ b * (m - 1) = b * m - b
           /\ b * m = 0 => m = 0
           /\ b * m > 0 => b * m >= b
  <1>1. b * m \in Int
    OBVIOUS
  <1>2. b * (m - 1) = b * m - b
    OBVIOUS
  <1>3. m >= 1 => b * m >= b
    OBVIOUS
  <1>4. m <= -1 => b * m <= -b
    OBVIOUS
  <1>5. m = 0 => b * m = 0
    OBVIOUS
  <1> QED
    BY <1>1, <1>2, <1>3, <1>4, <1>5

\* ALIGN(size, bandwidth) is that many whole words.
LEMMA LengthWords ==
    ASSUME NEW size \in Nat
    PROVE  LET w == (size + Bandwidth - 1) \div Bandwidth
           IN  /\ w \in Nat /\ Length(size) \in Nat
               /\ Length(size) = Bandwidth * w
  BY ConstantsFit DEF Length

-----------------------------------------------------------------------------
(* The control register.                                                   *)

\* A write of the control register changes all of it but the acknowledgement.
LEMMA WriteFields ==
    ASSUME reg \in Control, NEW c \in Control, WriteCtl(c)
    PROVE  /\ reg' \in Control /\ reg'.ack = reg.ack
           /\ reg'.reset = c.reset /\ reg'.region = c.region
           /\ reg'.start = c.start /\ reg'.complete = c.complete
  BY DEF WriteCtl, Control

\* Setting or clearing the reset.
LEMMA SetReset ==
    ASSUME NEW c \in Control, NEW b \in BOOLEAN,
           NEW d, d = [c EXCEPT !.reset = b]
    PROVE  /\ d \in Control /\ d.reset = b /\ d.region = c.region
           /\ d.start = c.start /\ d.complete = c.complete
  BY DEF Control

\* Requesting a load into p.
LEMMA SetStart ==
    ASSUME NEW c \in Control, NEW p \in Ports,
           NEW d, d = [c EXCEPT !.region = p, !.start = TRUE]
    PROVE  /\ d \in Control /\ d.reset = c.reset /\ d.region = p
           /\ d.start = TRUE /\ d.complete = c.complete
  <1>1. d = [c EXCEPT !.region = p, !.start = TRUE] OBVIOUS
  <1>2. [c EXCEPT !.region = p] \in Control BY DEF Control
  <1> QED BY <1>2 DEF Control

\* Announcing the end of the words.
LEMMA SetComplete ==
    ASSUME NEW c \in Control, NEW d, d = [c EXCEPT !.complete = TRUE]
    PROVE  /\ d \in Control /\ d.reset = c.reset /\ d.region = c.region
           /\ d.start = c.start /\ d.complete = TRUE
  BY DEF Control

\* The engine acknowledges a reset, or takes that back.
LEMMA SetAck ==
    ASSUME NEW c \in Control, NEW b \in BOOLEAN,
           NEW d, d = [c EXCEPT !.ack = b]
    PROVE  /\ d \in Control /\ d.reset = c.reset /\ d.region = c.region
           /\ d.start = c.start /\ d.complete = c.complete
  BY DEF Control

\* The engine drops the request when it is done.
LEMMA SetIdle ==
    ASSUME NEW c \in Control,
           NEW d, d = [c EXCEPT !.start = FALSE, !.complete = FALSE]
    PROVE  /\ d \in Control /\ d.reset = c.reset /\ d.region = c.region
           /\ d.start = FALSE /\ d.complete = FALSE
  BY DEF Control

\* The engine drops the request when it is reset.
LEMMA SetIdleAck ==
    ASSUME NEW c \in Control,
           NEW d,
           d = [c EXCEPT !.ack = TRUE, !.start = FALSE, !.complete = FALSE]
    PROVE  /\ d \in Control /\ d.reset = c.reset /\ d.region = c.region
           /\ d.start = FALSE /\ d.complete = FALSE
  BY DEF Control

-----------------------------------------------------------------------------
(* Every variable keeps its type.                                          *)

\* One step per action, and per group of variables.
LEMMA TypeStep ==
    ASSUME TypeOK, [Next]_vars
    PROVE  TypeOK'
  <1> USE DEF TypeOK, callVars, mgrVars, outVars, hwVars, InitPcs, WritePcs,
              EndPcs
  <1>1. CASE ReadCtl("reset_read", "reset_write")
    BY <1>1
       DEF ReadCtl, CallType, PortType, EngineType
  <1>2. CASE ReadCtl("unreset_read", "unreset_write")
    BY <1>2
       DEF ReadCtl, CallType, PortType, EngineType
  <1>3. CASE ReadCtl("start_read", "start_write")
    BY <1>3
       DEF ReadCtl, CallType, PortType, EngineType
  <1>4. CASE ReadCtl("complete_read", "complete_write")
    BY <1>4
       DEF ReadCtl, CallType, PortType, EngineType
  <1>5. CASE ResetWrite
    <2>1. CallType'
      BY <1>5 DEF ResetWrite, CallType, EngineType
    <2>2. PortType'
      BY <1>5 DEF ResetWrite, PortType
    <2>3. EngineType'
      BY <1>5, WriteFields, SetReset DEF ResetWrite, EngineType, CallType
    <2> QED
      BY <2>1, <2>2, <2>3
  <1>6. CASE ResetAcked
    BY <1>6 DEF ResetAcked, CallType, PortType, EngineType
  <1>7. CASE UnresetWrite
    <2>1. CallType'
      BY <1>7 DEF UnresetWrite, CallType, EngineType
    <2>2. PortType'
      BY <1>7 DEF UnresetWrite, PortType
    <2>3. EngineType'
      BY <1>7, WriteFields, SetReset DEF UnresetWrite, EngineType, CallType
    <2> QED
      BY <2>1, <2>2, <2>3
  <1>8. CASE EngineIdle
    BY <1>8 DEF EngineIdle, CallType, PortType, EngineType
  <1>9. CASE StartWrite
    <2>1. CallType'
      BY <1>9 DEF StartWrite, CallType, EngineType
    <2>2. PortType'
      BY <1>9 DEF StartWrite, PortType
    <2>3. EngineType'
      BY <1>9, WriteFields, SetStart DEF StartWrite, EngineType, CallType
    <2> QED
      BY <2>1, <2>2, <2>3
  <1>10. CASE CreditRead
    BY <1>10, ConstantsFit DEF CreditRead, CallType, PortType, EngineType
  <1>11. CASE CreditTimeout
    BY <1>11 DEF CreditTimeout, Leave, CallType, PortType, EngineType
  <1>12. CASE Push
    <2>1. CallType'
      BY <1>12, ConstantsFit DEF Push, Leave, FifoPush, CallType, EngineType
    <2>2. PortType'
      BY <1>12 DEF Push, Leave, PortType
    <2>3. Append(fifo, n) \in Seq(Nat)
      BY DEF EngineType, CallType
    <2>4. fifo' \in Seq(Nat)
      BY <1>12, <2>3 DEF Push, FifoPush, EngineType
    <2>5. EngineType'
      BY <1>12, <2>4 DEF Push, EngineType
    <2> QED
      BY <2>1, <2>2, <2>5
  <1>13. CASE WriteDone
    BY <1>13 DEF WriteDone, CallType, PortType, EngineType
  <1>14. CASE CompleteWrite
    <2>1. CallType'
      BY <1>14
         DEF CompleteWrite, CallType, EngineType
    <2>2. PortType'
      BY <1>14 DEF CompleteWrite, PortType
    <2>3. EngineType'
      BY <1>14, WriteFields, SetComplete
         DEF CompleteWrite, EngineType, CallType
    <2> QED
      BY <2>1, <2>2, <2>3
  <1>15. CASE Completed
    BY <1>15 DEF Completed, Leave, CallType, PortType, EngineType
  <1>16. CASE WaitTimeout
    BY <1>16 DEF WaitTimeout, Leave, CallType, PortType, EngineType
  <1>17. CASE PrEnd
    BY <1>17 DEF PrEnd, CallType, PortType, EngineType
  <1>18. CASE HwReset
    <2>1. CallType'
      BY <1>18 DEF HwReset, CallType, EngineType
    <2>2. PortType'
      BY <1>18 DEF HwReset, PortType
    <2>3. reg' \in Control
      BY <1>18, SetIdleAck DEF HwReset, EngineType
    <2>4. fifo' \in Seq(Nat)
      BY <1>18 DEF HwReset
    <2>5. EngineType'
      BY <1>18, <2>3, <2>4 DEF HwReset, EngineType
    <2> QED
      BY <2>1, <2>2, <2>5
  <1>19. CASE HwUnreset
    <2>1. CallType'
      BY <1>19 DEF HwUnreset, CallType, EngineType
    <2>2. PortType'
      BY <1>19 DEF HwUnreset, PortType
    <2>3. EngineType'
      BY <1>19, SetAck DEF HwUnreset, EngineType
    <2> QED
      BY <2>1, <2>2, <2>3
  <1>20. CASE HwStart
    <2>1. CallType'
      BY <1>20 DEF HwStart, CallType, EngineType
    <2>2. PortType'
      BY <1>20 DEF HwStart, PortType
    <2>3. reg.region \in Ports
      BY DEF EngineType, Control
    <2>4. <<>> \in Seq(Nat)
      OBVIOUS
    <2>5. EngineType'
      BY <1>20, <2>3, <2>4 DEF HwStart, EngineType
    <2> QED
      BY <2>1, <2>2, <2>5
  <1>21. CASE HwLoad
    BY <1>21 DEF HwLoad, CallType, PortType, EngineType
  <1>22. CASE HwError
    <2>1. CallType'
      BY <1>22 DEF HwError, CallType, EngineType
    <2>2. PortType'
      BY <1>22 DEF HwError, PortType
    <2>3. image[into] \in Seq(Nat) /\ image[into] # <<>>
      BY <1>22 DEF HwError, EngineType
    <2>4. image[into][Len(image[into])] \in Nat
      BY <2>3
    <2>5. EngineType'
      BY <1>22, <2>4 DEF HwError, EngineType
    <2> QED
      BY <2>1, <2>2, <2>5
  <1>23. CASE HwFinish
    <2>1. CallType'
      BY <1>23 DEF HwFinish, CallType, EngineType
    <2>2. PortType'
      BY <1>23 DEF HwFinish, PortType
    <2>3. EngineType'
      BY <1>23, SetIdle DEF HwFinish, EngineType
    <2> QED
      BY <2>1, <2>2, <2>3
  <1>24. CASE MgrRegister
    BY <1>24 DEF MgrRegister, CallType, PortType, EngineType
  <1>25. CASE MgrUnregister
    <2>1. CallType'
      BY <1>25
         DEF MgrUnregister, CallType, EngineType
    <2>2. PortType'
      BY <1>25 DEF MgrUnregister, PortType
    <2>3. EngineType'
      BY <1>25 DEF MgrUnregister, EngineType
    <2> QED
      BY <2>1, <2>2, <2>3
  <1>26. CASE \E p \in Ports, size \in Sizes : PrBegin(p, size)
    <2>1. PICK p \in Ports, size \in Sizes : PrBegin(p, size)
      BY <1>26
    <2>2. size \in Nat
      BY ConstantsFit
    <2>3. CallType'
      BY <2>1, <2>2, LengthWords DEF PrBegin, CallType, InitPcs
    <2>4. PortType' /\ EngineType'
      BY <2>1 DEF PrBegin, PortType, EngineType
    <2> QED
      BY <2>3, <2>4
  <1>27. CASE \E x \in {"zero", "user"} : PrRefused(x)
    BY <1>27 DEF PrRefused, CallType, PortType, EngineType
  <1>28. CASE UNCHANGED vars
    BY <1>28 DEF vars, CallType, PortType, EngineType
  <1> QED
    BY <1>1, <1>2, <1>3, <1>4, <1>5, <1>6, <1>7, <1>8, <1>9, <1>10, <1>11,
       <1>12, <1>13, <1>14, <1>15, <1>16, <1>17, <1>18, <1>19, <1>20, <1>21,
       <1>22, <1>23, <1>24, <1>25, <1>26, <1>27, <1>28
       DEF Next, Driver, Engine, Users
-----------------------------------------------------------------------------
(* EngineInv, StaleInv, CreditSafe and ErrInv are preserved.               *)

\* The register after each step that writes it.
LEMMA RegStep ==
    ASSUME TypeOK
    PROVE  /\ ResetWrite => /\ reg'.reset = TRUE /\ reg'.region = ctl.region
                            /\ reg'.start = ctl.start
                            /\ reg'.complete = ctl.complete
           /\ UnresetWrite => /\ reg'.reset = FALSE /\ reg'.region = ctl.region
                              /\ reg'.start = ctl.start
                              /\ reg'.complete = ctl.complete
           /\ StartWrite => /\ reg'.reset = ctl.reset /\ reg'.region = port
                            /\ reg'.start = TRUE
                            /\ reg'.complete = ctl.complete
           /\ CompleteWrite => /\ reg'.reset = ctl.reset
                               /\ reg'.region = ctl.region
                               /\ reg'.start = ctl.start
                               /\ reg'.complete = TRUE
           /\ HwReset => /\ reg'.reset = reg.reset /\ reg'.region = reg.region
                         /\ reg'.start = FALSE /\ reg'.complete = FALSE
           /\ HwUnreset => /\ reg'.reset = reg.reset
                           /\ reg'.region = reg.region
                           /\ reg'.start = reg.start
                           /\ reg'.complete = reg.complete
           /\ HwFinish => /\ reg'.reset = reg.reset /\ reg'.region = reg.region
                          /\ reg'.start = FALSE /\ reg'.complete = FALSE
           /\ reg.region \in Ports /\ ctl.region \in Ports
  <1> USE DEF TypeOK, CallType, EngineType
  <1>1. ASSUME ResetWrite
       PROVE  /\ reg'.reset = TRUE /\ reg'.region = ctl.region
              /\ reg'.start = ctl.start /\ reg'.complete = ctl.complete
    <2> DEFINE d == [ctl EXCEPT !.reset = TRUE]
    <2>1. /\ d \in Control /\ d.reset = TRUE /\ d.region = ctl.region
          /\ d.start = ctl.start /\ d.complete = ctl.complete
      BY SetReset
    <2>2. WriteCtl(d)
      BY <1>1 DEF ResetWrite
    <2> HIDE DEF d
    <2> QED
      BY <2>1, <2>2, WriteFields
  <1>2. ASSUME UnresetWrite
       PROVE  /\ reg'.reset = FALSE /\ reg'.region = ctl.region
              /\ reg'.start = ctl.start /\ reg'.complete = ctl.complete
    <2> DEFINE d == [ctl EXCEPT !.reset = FALSE]
    <2>1. /\ d \in Control /\ d.reset = FALSE /\ d.region = ctl.region
          /\ d.start = ctl.start /\ d.complete = ctl.complete
      BY SetReset
    <2>2. WriteCtl(d)
      BY <1>2 DEF UnresetWrite
    <2> HIDE DEF d
    <2> QED
      BY <2>1, <2>2, WriteFields
  <1>3. ASSUME StartWrite
       PROVE  /\ reg'.reset = ctl.reset /\ reg'.region = port
              /\ reg'.start = TRUE /\ reg'.complete = ctl.complete
    <2> DEFINE d == [ctl EXCEPT !.region = port, !.start = TRUE]
    <2>1. /\ d \in Control /\ d.reset = ctl.reset /\ d.region = port
          /\ d.start = TRUE /\ d.complete = ctl.complete
      BY SetStart
    <2>2. WriteCtl(d)
      BY <1>3 DEF StartWrite
    <2> HIDE DEF d
    <2> QED
      BY <2>1, <2>2, WriteFields
  <1>4. ASSUME CompleteWrite
       PROVE  /\ reg'.reset = ctl.reset /\ reg'.region = ctl.region
              /\ reg'.start = ctl.start /\ reg'.complete = TRUE
    <2> DEFINE d == [ctl EXCEPT !.complete = TRUE]
    <2>1. /\ d \in Control /\ d.reset = ctl.reset /\ d.region = ctl.region
          /\ d.start = ctl.start /\ d.complete = TRUE
      BY SetComplete
    <2>2. WriteCtl(d)
      BY <1>4 DEF CompleteWrite
    <2> HIDE DEF d
    <2> QED
      BY <2>1, <2>2, WriteFields
  <1>5. HwReset => (reg'.reset = reg.reset /\ reg'.region = reg.region
          /\ reg'.start = FALSE /\ reg'.complete = FALSE)
    BY SetIdleAck DEF HwReset
  <1>6. HwUnreset => (reg'.reset = reg.reset /\ reg'.region = reg.region
          /\ reg'.start = reg.start /\ reg'.complete = reg.complete)
    BY SetAck DEF HwUnreset
  <1>7. HwFinish => (reg'.reset = reg.reset /\ reg'.region = reg.region
          /\ reg'.start = FALSE /\ reg'.complete = FALSE)
    BY SetIdle DEF HwFinish
  <1>8. reg.region \in Ports /\ ctl.region \in Ports
    BY DEF Control
  <1> QED
    BY <1>1, <1>2, <1>3, <1>4, <1>5, <1>6, <1>7, <1>8

\* No step makes a port good that is, or may be, written to.
LEMMA EngineStep ==
    ASSUME IInv, [Next]_vars
    PROVE  EngineInv'
  <1> USE DEF IInv, TypeOK, callVars, mgrVars, outVars, hwVars,
              EngineInv, CallType, PortType, EngineType
  <1>1. CASE ReadCtl("reset_read", "reset_write")
    BY <1>1 DEF ReadCtl
  <1>2. CASE ReadCtl("unreset_read", "unreset_write")
    BY <1>2 DEF ReadCtl
  <1>3. CASE ReadCtl("start_read", "start_write")
    BY <1>3 DEF ReadCtl
  <1>4. CASE ReadCtl("complete_read", "complete_write")
    BY <1>4 DEF ReadCtl
  <1>5. CASE ResetWrite
    BY <1>5, RegStep DEF ResetWrite, StaleInv
  <1>6. CASE ResetAcked
    BY <1>6 DEF ResetAcked
  <1>7. CASE UnresetWrite
    BY <1>7, RegStep DEF UnresetWrite, StaleInv
  <1>8. CASE EngineIdle
    BY <1>8 DEF EngineIdle, HostIdle
  <1>9. CASE StartWrite
    BY <1>9, RegStep DEF StartWrite, StaleInv, PhaseInv
  <1>10. CASE CreditRead
    BY <1>10 DEF CreditRead
  <1>11. CASE CreditTimeout
    BY <1>11 DEF CreditTimeout, Leave
  <1>12. CASE Push
    BY <1>12 DEF Push, Leave, FifoPush, PhaseInv, Loading
  <1>13. CASE WriteDone
    BY <1>13 DEF WriteDone
  <1>14. CASE CompleteWrite
    BY <1>14, RegStep DEF CompleteWrite, StaleInv, PhaseInv, Loading
  <1>15. CASE Completed
    BY <1>15 DEF Completed, Leave
  <1>16. CASE WaitTimeout
    BY <1>16 DEF WaitTimeout, Leave
  <1>17. CASE PrEnd
    BY <1>17 DEF PrEnd, PhaseInv, Loaded
  <1>18. CASE HwReset
    BY <1>18, RegStep DEF HwReset
  <1>19. CASE HwUnreset
    BY <1>19, RegStep DEF HwUnreset
  <1>20. CASE HwStart
    BY <1>20, RegStep DEF HwStart
  <1>21. CASE HwLoad
    BY <1>21 DEF HwLoad
  <1>22. CASE HwError
    BY <1>22 DEF HwError
  <1>23. CASE HwFinish
    BY <1>23, RegStep DEF HwFinish
  <1>24. CASE MgrRegister
    BY <1>24 DEF MgrRegister
  <1>25. CASE MgrUnregister
    BY <1>25 DEF MgrUnregister
  <1>26. CASE \E p \in Ports, size \in Sizes : PrBegin(p, size)
    BY <1>26, RegStep DEF PrBegin
  <1>27. CASE \E x \in {"zero", "user"} : PrRefused(x)
    BY <1>27 DEF PrRefused
  <1>28. CASE UNCHANGED vars
    BY <1>28 DEF vars
  <1> QED
    BY <1>1, <1>2, <1>3, <1>4, <1>5, <1>6, <1>7, <1>8, <1>9, <1>10, <1>11,
       <1>12, <1>13, <1>14, <1>15, <1>16, <1>17, <1>18, <1>19, <1>20, <1>21,
       <1>22, <1>23, <1>24, <1>25, <1>26, <1>27, <1>28
       DEF Next, Driver, Engine, Users

\* What was read of the register stays safe to write back.
LEMMA StaleStep ==
    ASSUME IInv, [Next]_vars
    PROVE  StaleInv'
  <1> USE DEF IInv, TypeOK, callVars, mgrVars, outVars, hwVars,
              StaleInv, EngineInv, CallType, PortType, EngineType
  <1>1. CASE ReadCtl("reset_read", "reset_write")
    BY <1>1 DEF ReadCtl
  <1>2. CASE ReadCtl("unreset_read", "unreset_write")
    BY <1>2 DEF ReadCtl
  <1>3. CASE ReadCtl("start_read", "start_write")
    BY <1>3 DEF ReadCtl
  <1>4. CASE ReadCtl("complete_read", "complete_write")
    BY <1>4 DEF ReadCtl
  <1>5. CASE ResetWrite
    BY <1>5, RegStep DEF ResetWrite
  <1>6. CASE ResetAcked
    BY <1>6 DEF ResetAcked
  <1>7. CASE UnresetWrite
    BY <1>7, RegStep DEF UnresetWrite
  <1>8. CASE EngineIdle
    BY <1>8 DEF EngineIdle, HostIdle
  <1>9. CASE StartWrite
    BY <1>9, RegStep DEF StartWrite, PhaseInv
  <1>10. CASE CreditRead
    BY <1>10 DEF CreditRead
  <1>11. CASE CreditTimeout
    BY <1>11 DEF CreditTimeout, Leave
  <1>12. CASE Push
    BY <1>12 DEF Push, Leave, FifoPush
  <1>13. CASE WriteDone
    BY <1>13 DEF WriteDone
  <1>14. CASE CompleteWrite
    BY <1>14, RegStep DEF CompleteWrite
  <1>15. CASE Completed
    BY <1>15 DEF Completed, Leave
  <1>16. CASE WaitTimeout
    BY <1>16 DEF WaitTimeout, Leave
  <1>17. CASE PrEnd
    BY <1>17 DEF PrEnd
  <1>18. CASE HwReset
    BY <1>18, RegStep DEF HwReset
  <1>19. CASE HwUnreset
    BY <1>19, RegStep DEF HwUnreset
  <1>20. CASE HwStart
    BY <1>20, RegStep DEF HwStart
  <1>21. CASE HwLoad
    BY <1>21 DEF HwLoad
  <1>22. CASE HwError
    BY <1>22 DEF HwError
  <1>23. CASE HwFinish
    BY <1>23, RegStep DEF HwFinish
  <1>24. CASE MgrRegister
    BY <1>24 DEF MgrRegister
  <1>25. CASE MgrUnregister
    BY <1>25 DEF MgrUnregister
  <1>26. CASE \E p \in Ports, size \in Sizes : PrBegin(p, size)
    BY <1>26, RegStep DEF PrBegin
  <1>27. CASE \E x \in {"zero", "user"} : PrRefused(x)
    BY <1>27 DEF PrRefused
  <1>28. CASE UNCHANGED vars
    BY <1>28 DEF vars
  <1> QED
    BY <1>1, <1>2, <1>3, <1>4, <1>5, <1>6, <1>7, <1>8, <1>9, <1>10, <1>11,
       <1>12, <1>13, <1>14, <1>15, <1>16, <1>17, <1>18, <1>19, <1>20, <1>21,
       <1>22, <1>23, <1>24, <1>25, <1>26, <1>27, <1>28
       DEF Next, Driver, Engine, Users

\* A credit that was read stays there: only the driver fills the FIFO.
LEMMA CreditStep ==
    ASSUME IInv, [Next]_vars
    PROVE  CreditSafe'
  <1> USE ConstantsFit
  <1> USE DEF IInv, TypeOK, callVars, mgrVars, outVars, hwVars,
              CreditSafe, CallType, EngineType
  <1>1. CASE ReadCtl("reset_read", "reset_write")
    BY <1>1 DEF ReadCtl
  <1>2. CASE ReadCtl("unreset_read", "unreset_write")
    BY <1>2 DEF ReadCtl
  <1>3. CASE ReadCtl("start_read", "start_write")
    BY <1>3 DEF ReadCtl
  <1>4. CASE ReadCtl("complete_read", "complete_write")
    BY <1>4 DEF ReadCtl
  <1>5. CASE ResetWrite
    BY <1>5, RegStep DEF ResetWrite
  <1>6. CASE ResetAcked
    BY <1>6 DEF ResetAcked
  <1>7. CASE UnresetWrite
    BY <1>7, RegStep DEF UnresetWrite
  <1>8. CASE EngineIdle
    BY <1>8 DEF EngineIdle, HostIdle
  <1>9. CASE StartWrite
    BY <1>9, RegStep DEF StartWrite
  <1>10. CASE CreditRead
    BY <1>10 DEF CreditRead
  <1>11. CASE CreditTimeout
    BY <1>11 DEF CreditTimeout, Leave
  <1>12. CASE Push
    BY <1>12 DEF Push, Leave, FifoPush
  <1>13. CASE WriteDone
    BY <1>13 DEF WriteDone
  <1>14. CASE CompleteWrite
    BY <1>14, RegStep DEF CompleteWrite
  <1>15. CASE Completed
    BY <1>15 DEF Completed, Leave
  <1>16. CASE WaitTimeout
    BY <1>16 DEF WaitTimeout, Leave
  <1>17. CASE PrEnd
    BY <1>17 DEF PrEnd
  <1>18. CASE HwReset
    BY <1>18, RegStep DEF HwReset
  <1>19. CASE HwUnreset
    BY <1>19, RegStep DEF HwUnreset
  <1>20. CASE HwStart
    BY <1>20, RegStep DEF HwStart
  <1>21. CASE HwLoad
    BY <1>21 DEF HwLoad
  <1>22. CASE HwError
    BY <1>22 DEF HwError
  <1>23. CASE HwFinish
    BY <1>23, RegStep DEF HwFinish
  <1>24. CASE MgrRegister
    BY <1>24 DEF MgrRegister
  <1>25. CASE MgrUnregister
    BY <1>25 DEF MgrUnregister
  <1>26. CASE \E p \in Ports, size \in Sizes : PrBegin(p, size)
    BY <1>26, RegStep DEF PrBegin
  <1>27. CASE \E x \in {"zero", "user"} : PrRefused(x)
    BY <1>27 DEF PrRefused
  <1>28. CASE UNCHANGED vars
    BY <1>28 DEF vars
  <1> QED
    BY <1>1, <1>2, <1>3, <1>4, <1>5, <1>6, <1>7, <1>8, <1>9, <1>10, <1>11,
       <1>12, <1>13, <1>14, <1>15, <1>16, <1>17, <1>18, <1>19, <1>20, <1>21,
       <1>22, <1>23, <1>24, <1>25, <1>26, <1>27, <1>28
       DEF Next, Driver, Engine, Users

\* Errors belong to the PR that reports them.
LEMMA ErrStep ==
    ASSUME IInv, [Next]_vars
    PROVE  ErrInv'
  <1> USE DEF IInv, TypeOK, callVars, mgrVars, outVars, hwVars,
              ErrInv, OwnErrors, CallType, EngineType
  <1>1. CASE ReadCtl("reset_read", "reset_write")
    BY <1>1 DEF ReadCtl
  <1>2. CASE ReadCtl("unreset_read", "unreset_write")
    BY <1>2 DEF ReadCtl
  <1>3. CASE ReadCtl("start_read", "start_write")
    BY <1>3 DEF ReadCtl
  <1>4. CASE ReadCtl("complete_read", "complete_write")
    BY <1>4 DEF ReadCtl
  <1>5. CASE ResetWrite
    BY <1>5, RegStep DEF ResetWrite
  <1>6. CASE ResetAcked
    BY <1>6 DEF ResetAcked
  <1>7. CASE UnresetWrite
    BY <1>7, RegStep DEF UnresetWrite
  <1>8. CASE EngineIdle
    BY <1>8 DEF EngineIdle, HostIdle
  <1>9. CASE StartWrite
    BY <1>9, RegStep DEF StartWrite
  <1>10. CASE CreditRead
    BY <1>10 DEF CreditRead
  <1>11. CASE CreditTimeout
    BY <1>11 DEF CreditTimeout, Leave
  <1>12. CASE Push
    BY <1>12 DEF Push, Leave, FifoPush
  <1>13. CASE WriteDone
    BY <1>13 DEF WriteDone
  <1>14. CASE CompleteWrite
    BY <1>14, RegStep DEF CompleteWrite
  <1>15. CASE Completed
    BY <1>15 DEF Completed, Leave
  <1>16. CASE WaitTimeout
    BY <1>16 DEF WaitTimeout, Leave
  <1>17. CASE PrEnd
    BY <1>17 DEF PrEnd
  <1>18. CASE HwReset
    BY <1>18, RegStep DEF HwReset
  <1>19. CASE HwUnreset
    BY <1>19, RegStep DEF HwUnreset
  <1>20. CASE HwStart
    BY <1>20, RegStep DEF HwStart
  <1>21. CASE HwLoad
    BY <1>21 DEF HwLoad
  <1>22. CASE HwError
    <2>1. image[into] \in Seq(Nat) /\ image[into] # <<>>
      BY <1>22 DEF HwError
    <2>2. Len(image[into]) \in 1..Len(image[into])
      BY <2>1
    <2>3. pc \in {"credit_read", "push", "complete_read", "complete_write",
                  "complete_wait"} => image[into][Len(image[into])] = n
      BY <1>22, <2>2
         DEF HwError, EngineInv, PhaseInv, Loading, Loaded, OwnWords
    <2>4. pc \notin {"start_read", "start_write"}
      BY <1>22 DEF HwError, EngineInv, PhaseInv
    <2> QED
      BY <1>22, <2>3, <2>4 DEF HwError, ErrInv, OwnErrors
  <1>23. CASE HwFinish
    BY <1>23, RegStep DEF HwFinish
  <1>24. CASE MgrRegister
    BY <1>24 DEF MgrRegister
  <1>25. CASE MgrUnregister
    BY <1>25 DEF MgrUnregister
  <1>26. CASE \E p \in Ports, size \in Sizes : PrBegin(p, size)
    BY <1>26, RegStep DEF PrBegin
  <1>27. CASE \E x \in {"zero", "user"} : PrRefused(x)
    BY <1>27 DEF PrRefused
  <1>28. CASE UNCHANGED vars
    BY <1>28 DEF vars
  <1> QED
    BY <1>1, <1>2, <1>3, <1>4, <1>5, <1>6, <1>7, <1>8, <1>9, <1>10, <1>11,
       <1>12, <1>13, <1>14, <1>15, <1>16, <1>17, <1>18, <1>19, <1>20, <1>21,
       <1>22, <1>23, <1>24, <1>25, <1>26, <1>27, <1>28
       DEF Next, Driver, Engine, Users

-----------------------------------------------------------------------------
(* PhaseInv is preserved.                                                  *)

\* The register, the count and the engine are where pc says they are.
LEMMA PhaseStep ==
    ASSUME IInv, [Next]_vars
    PROVE  PhaseInv'
  <1> USE DEF TypeOK, callVars, mgrVars, outVars, hwVars, IInv, InitPcs
  <1>1. CASE ReadCtl("reset_read", "reset_write")
    BY <1>1 DEF ReadCtl, PhaseInv, Loading, Loaded, OwnWords,
           Pushed, CallType, EngineType, EngineInv, StaleInv
  <1>2. CASE ReadCtl("unreset_read", "unreset_write")
    BY <1>2 DEF ReadCtl, PhaseInv, Loading, Loaded, OwnWords,
           Pushed, CallType, EngineType, EngineInv, StaleInv
  <1>3. CASE ReadCtl("start_read", "start_write")
    BY <1>3 DEF ReadCtl, PhaseInv, Loading, Loaded, OwnWords,
           Pushed, CallType, EngineType, EngineInv, StaleInv
  <1>4. CASE ReadCtl("complete_read", "complete_write")
    BY <1>4 DEF ReadCtl, PhaseInv, Loading, Loaded, OwnWords,
           Pushed, CallType, EngineType, EngineInv, StaleInv
  <1>5. CASE ResetWrite
    BY <1>5, RegStep DEF ResetWrite, PhaseInv, Loading, Loaded, OwnWords,
           Pushed, CallType, EngineType, EngineInv, StaleInv
  <1>6. CASE ResetAcked
    BY <1>6 DEF ResetAcked, PhaseInv, Loading, Loaded, OwnWords,
           Pushed, CallType, EngineType, EngineInv, StaleInv
  <1>7. CASE UnresetWrite
    BY <1>7, RegStep DEF UnresetWrite, PhaseInv, Loading, Loaded, OwnWords,
           Pushed, CallType, EngineType, EngineInv, StaleInv
  <1>8. CASE EngineIdle
    BY <1>8 DEF EngineIdle, HostIdle, PhaseInv, Loading, Loaded, OwnWords,
           Pushed, CallType, EngineType, EngineInv, StaleInv
  <1>9. CASE StartWrite
    <2>1. /\ ~reg.start /\ fifo = <<>> /\ eng # "load"
          /\ count = Bandwidth * words
      BY <1>9 DEF StartWrite, PhaseInv, EngineInv
    <2>2. Pushed' = 0 /\ OwnWords(fifo)'
      BY <1>9, <2>1 DEF StartWrite, Pushed, OwnWords
    <2>3. count' = Bandwidth * (words' - Pushed')
      BY <1>9, <2>1, <2>2 DEF StartWrite, CallType
    <2>4. Loading'
      BY <1>9, <2>1, <2>2, <2>3, RegStep DEF StartWrite, Loading
    <2> QED
      BY <1>9, <2>4, RegStep DEF StartWrite, PhaseInv
  <1>10. CASE CreditRead
    BY <1>10 DEF CreditRead, PhaseInv, Loading, Loaded, OwnWords,
           Pushed, CallType, EngineType, EngineInv, StaleInv
  <1>11. CASE CreditTimeout
    BY <1>11 DEF CreditTimeout, Leave, PhaseInv, Loading, Loaded, OwnWords,
           Pushed, CallType, EngineType, EngineInv, StaleInv
  <1>12. CASE Push
    <2>1. Loading /\ ~reg.complete /\ ~reg.reset
      BY <1>12 DEF Push, PhaseInv
    <2>2. CASE count >= Bandwidth
      <3>1. fifo' = Append(fifo, n) /\ count' = count - Bandwidth
        BY <1>12, <2>2, ConstantsFit
           DEF Push, FifoPush, CreditSafe, CallType, EngineType
      <3>2. OwnWords(fifo)'
        BY <1>12, <2>1, <3>1, AppendOwn
           DEF Push, Loading, OwnWords, CallType, EngineType
      <3>3. Pushed' = Pushed + 1 /\ Pushed \in Nat
        <4>1. Len(fifo') = Len(fifo) + 1 /\ Len(fifo) \in Nat
          BY <3>1 DEF CallType, EngineType
        <4>2. Len(image[port]) \in Nat
          BY DEF CallType, EngineType
        <4>3. image' = image /\ port' = port /\ eng' = eng
          BY <1>12 DEF Push
        <4>4. CASE eng = "load"
          <5>1. /\ Pushed = Len(fifo) + Len(image[port])
                /\ Pushed' = Len(fifo') + Len(image[port])
            BY <4>3, <4>4 DEF Pushed
          <5>2. Pushed' = (Len(fifo) + 1) + Len(image[port])
            BY <4>1, <5>1
          <5>3. ASSUME NEW a \in Nat, NEW b \in Nat
                PROVE  (a + 1) + b = (a + b) + 1 /\ a + b \in Nat
            OBVIOUS
          <5> QED
            BY <4>1, <4>2, <5>1, <5>2, <5>3
        <4>5. CASE eng # "load"
          <5>1. Pushed = Len(fifo) + 0 /\ Pushed' = Len(fifo') + 0
            BY <4>3, <4>5 DEF Pushed
          <5> QED
            BY <4>1, <5>1
        <4> QED
          BY <4>4, <4>5
      <3>4. count' = Bandwidth * (words - Pushed')
        BY <2>1, <3>1, <3>3, WordArith, ConstantsFit DEF Loading, CallType
      <3>5. Loading'
        BY <1>12, <2>1, <3>2, <3>4 DEF Push, Loading, OwnWords
      <3> QED
        BY <1>12, <2>1, <2>2, <3>5 DEF Push, PhaseInv, InitPcs
    <2>3. CASE ~(count >= Bandwidth)
      BY <1>12, <2>3 DEF Push, Leave, PhaseInv, InitPcs
    <2> QED
      BY <2>2, <2>3
  <1>13. CASE WriteDone
    BY <1>13 DEF WriteDone, PhaseInv, Loading, Loaded, OwnWords,
           Pushed, CallType, EngineType, EngineInv, StaleInv
  <1>14. CASE CompleteWrite
    BY <1>14, RegStep DEF CompleteWrite, PhaseInv, Loading, Loaded, OwnWords,
           Pushed, CallType, EngineType, EngineInv, StaleInv
  <1>15. CASE Completed
    BY <1>15 DEF Completed, Leave, PhaseInv, Loading, Loaded, OwnWords,
           Pushed, CallType, EngineType, EngineInv, StaleInv
  <1>16. CASE WaitTimeout
    BY <1>16 DEF WaitTimeout, Leave, PhaseInv, Loading, Loaded, OwnWords,
           Pushed, CallType, EngineType, EngineInv, StaleInv
  <1>17. CASE PrEnd
    BY <1>17 DEF PrEnd, PhaseInv, Loading, Loaded, OwnWords,
           Pushed, CallType, EngineType, EngineInv, StaleInv
  <1>18. CASE HwReset
    BY <1>18, RegStep DEF HwReset, PhaseInv, Loading, Loaded, OwnWords,
           Pushed, CallType, EngineType, EngineInv, StaleInv
  <1>19. CASE HwUnreset
    BY <1>19, RegStep DEF HwUnreset, PhaseInv, Loading, Loaded, OwnWords,
           Pushed, CallType, EngineType, EngineInv, StaleInv
  <1>20. CASE HwStart
    <2>1. ~Loaded /\ reg.start
      BY <1>20 DEF HwStart, Loaded
    <2>2. ASSUME Loading
          PROVE  Loading'
      <3>1. into' = port' /\ image'[port'] = <<>> /\ fifo' = fifo
        BY <1>20, <2>2 DEF HwStart, Loading, CallType, EngineType
      <3>2. Pushed' = Pushed
        BY <1>20, <3>1 DEF HwStart, Pushed, EngineType
      <3>3. OwnWords(image[port])' /\ OwnWords(fifo)'
        BY <1>20, <2>2, <3>1 DEF HwStart, Loading, OwnWords
      <3> QED
        BY <1>20, <2>2, <3>1, <3>2, <3>3 DEF HwStart, Loading
    <2>3. UNCHANGED <<pc, count, words, ctl, result, reg, n, port>>
      BY <1>20 DEF HwStart
    <2>4. ~(pc = "end" /\ result = "success")
      BY <2>1 DEF PhaseInv
    <2> QED
      BY <2>1, <2>2, <2>3, <2>4 DEF PhaseInv
  <1>21. CASE HwLoad
    <2>1. ~Loaded /\ reg.start
      BY <1>21 DEF HwLoad, Loaded, EngineInv
    <2>2. ASSUME Loading
          PROVE  Loading'
      <3>1. /\ into = port /\ image[port] \in Seq(Nat) /\ fifo \in Seq(Nat)
            /\ \A i \in 1..Len(image[port]) : image[port][i] = n
            /\ \A i \in 1..Len(fifo) : fifo[i] = n
            /\ fifo # <<>> /\ n \in Nat
        BY <1>21, <2>2 DEF HwLoad, Loading, OwnWords, CallType, EngineType
      <3>2. /\ Head(fifo) = n /\ Len(Tail(fifo)) = Len(fifo) - 1
            /\ \A i \in 1..Len(Tail(fifo)) : Tail(fifo)[i] = n
        BY <3>1, TailOwn
      <3>3. /\ Len(Append(image[port], n)) = Len(image[port]) + 1
            /\ \A i \in 1..Len(Append(image[port], n)) :
                  Append(image[port], n)[i] = n
        BY <3>1, AppendOwn
      <3>4. /\ image'[port] = Append(image[port], n) /\ fifo' = Tail(fifo)
            /\ port' = port /\ n' = n /\ eng = "load" /\ eng' = "load"
            /\ into' = into
        BY <1>21, <3>1, <3>2 DEF HwLoad, CallType, EngineType
      <3>5. Pushed' = Pushed
        <4>1. Len(fifo) \in Nat /\ Len(image[port]) \in Nat
          BY <3>1
        <4>2. /\ Pushed = Len(fifo) + Len(image[port])
              /\ Pushed' = Len(fifo') + Len(image'[port])
          BY <3>4 DEF Pushed
        <4>3. /\ Len(fifo') = Len(fifo) - 1
              /\ Len(image'[port]) = Len(image[port]) + 1
          BY <3>2, <3>3, <3>4
        <4> QED
          BY <4>1, <4>2, <4>3
      <3>6. OwnWords(image[port])' /\ OwnWords(fifo)'
        BY <3>2, <3>3, <3>4 DEF OwnWords
      <3> QED
        BY <1>21, <2>2, <3>1, <3>4, <3>5, <3>6 DEF HwLoad, Loading
    <2>3. UNCHANGED <<pc, count, words, ctl, result, reg, n, port>>
      BY <1>21 DEF HwLoad
    <2>4. ~(pc = "end" /\ result = "success")
      BY <2>1 DEF PhaseInv
    <2> QED
      BY <2>1, <2>2, <2>3, <2>4 DEF PhaseInv
  <1>22. CASE HwError
    BY <1>22 DEF HwError, PhaseInv, Loading, Loaded, OwnWords,
           Pushed, CallType, EngineType, EngineInv, StaleInv
  <1>23. CASE HwFinish
    <2>1. ~Loaded /\ reg.start /\ reg.complete /\ fifo = <<>> /\ eng = "load"
      BY <1>23 DEF HwFinish, Loaded, EngineInv
    <2>2. ASSUME pc = "complete_wait"
          PROVE  Loaded'
      <3>1. /\ image[port] \in Seq(Nat) /\ words \in Nat /\ n \in Nat
            /\ \A i \in 1..Len(image[port]) : image[port][i] = n
            /\ 0 = Bandwidth * (words - Pushed)
        BY <2>1, <2>2 DEF PhaseInv, Loading, OwnWords, CallType, EngineType
      <3>2. Pushed = Len(image[port]) /\ Pushed \in Nat
        BY <2>1, <3>1 DEF Pushed
      <3>3. words = Len(image[port])
        BY <3>1, <3>2, WordArith, ConstantsFit
      <3>4. image[port] = Image(n, words)
        BY <3>1, <3>3, OwnImage
      <3> QED
        BY <1>23, <3>4, RegStep DEF HwFinish, Loaded
    <2>3. UNCHANGED <<pc, count, words, ctl, result, n, port>>
      BY <1>23 DEF HwFinish
    <2>4. reg'.reset = reg.reset /\ ~reg'.start /\ ~reg'.complete
      BY <1>23, RegStep
    <2> QED
      BY <2>1, <2>2, <2>3, <2>4 DEF PhaseInv
  <1>24. CASE MgrRegister
    BY <1>24 DEF MgrRegister, PhaseInv, Loading, Loaded, OwnWords,
           Pushed, CallType, EngineType, EngineInv, StaleInv
  <1>25. CASE MgrUnregister
    BY <1>25 DEF MgrUnregister, PhaseInv, Loading, Loaded, OwnWords,
           Pushed, CallType, EngineType, EngineInv, StaleInv
  <1>26. CASE \E p \in Ports, size \in Sizes : PrBegin(p, size)
    <2>1. PICK p \in Ports, size \in Sizes : PrBegin(p, size)
      BY <1>26
    <2>2. count' = Bandwidth * words'
      BY <2>1, LengthWords, ConstantsFit DEF PrBegin
    <2> QED
      BY <2>1, <2>2 DEF PrBegin, PhaseInv
  <1>27. CASE \E x \in {"zero", "user"} : PrRefused(x)
    BY <1>27 DEF PrRefused, PhaseInv, Loading, Loaded, OwnWords,
           Pushed, CallType, EngineType, EngineInv, StaleInv
  <1>28. CASE UNCHANGED vars
    BY <1>28 DEF vars, PhaseInv, Loading, Loaded, OwnWords,
           Pushed, CallType, EngineType, EngineInv, StaleInv
  <1> QED
    BY <1>1, <1>2, <1>3, <1>4, <1>5, <1>6, <1>7, <1>8, <1>9, <1>10, <1>11,
       <1>12, <1>13, <1>14, <1>15, <1>16, <1>17, <1>18, <1>19, <1>20, <1>21,
       <1>22, <1>23, <1>24, <1>25, <1>26, <1>27, <1>28
       DEF Next, Driver, Engine, Users

-----------------------------------------------------------------------------
(* The theorems.                                                           *)

\* The invariant holds at first.
LEMMA InitIInv ==
    ASSUME Init
    PROVE  IInv
  <1>1. reg \in Control /\ ctl \in Control
    BY DEF Init, Control
  <1>2. ~reg.start /\ ~reg.complete
    BY DEF Init
  <1>3. <<0>> \in Seq(Nat) /\ <<>> \in Seq(Nat)
    OBVIOUS
  <1>4. TypeOK
    <2>1. CallType
      BY DEF Init, CallType
    <2>2. PortType
      BY DEF Init, PortType
    <2>3. image \in [Ports -> Seq(Nat)] /\ fifo \in Seq(Nat)
      BY <1>3 DEF Init
    <2>4. EngineType
      BY <1>1, <2>3 DEF Init, EngineType
    <2> QED
      BY <2>1, <2>2, <2>4 DEF TypeOK
  <1>5. EngineInv
    BY <1>2 DEF Init, EngineInv
  <1>6. StaleInv /\ PhaseInv /\ CreditSafe /\ ErrInv
    BY DEF Init, StaleInv, PhaseInv, CreditSafe, ErrInv, OwnErrors, InitPcs
  <1> QED
    BY <1>4, <1>5, <1>6 DEF IInv

\* Every step keeps it.
LEMMA StepIInv ==
    ASSUME IInv, [Next]_vars
    PROVE  IInv'
  <1>1. TypeOK'
    BY TypeStep DEF IInv
  <1> QED
    BY <1>1, EngineStep, StaleStep, PhaseStep, CreditStep, ErrStep DEF IInv

\* The invariant with the errors, credits and whole words of PrSafe.
LEMMA SafeFromIInv ==
    ASSUME IInv
    PROVE  PrSafe
  <1>1. ASSUME pc = "push", count > 0
        PROVE  count >= Bandwidth
    <2>1. count = Bandwidth * (words - Pushed)
      BY <1>1 DEF IInv, PhaseInv, Loading
    <2>2. Len(fifo) \in Nat /\ Len(image[port]) \in Nat
      BY DEF IInv, TypeOK, CallType, EngineType
    <2>3. Pushed \in Int
      BY <2>2 DEF Pushed
    <2>4. words - Pushed \in Int
      BY <2>3 DEF IInv, TypeOK, CallType
    <2> QED
      BY <1>1, <2>1, <2>4, WordArith, ConstantsFit
  <1> QED
    BY <1>1 DEF IInv, ErrInv, PrSafe, WholeWords

(* For all constants, every PR pushes only words the FIFO has room for,    *)
(* never has less than a word left (the WARN_ON of fme_pr_write), and      *)
(* reports in -EIO only errors its own image raised, although the engine   *)
(* may still be busy with a PR that was given up.                          *)
THEOREM PrIsSafe == Spec => []PrSafe
  <1>1. Init => IInv
    BY InitIInv
  <1>2. IInv /\ [Next]_vars => IInv'
    BY StepIInv
  <1>3. IInv => PrSafe
    BY SafeFromIInv
  <1> QED
    BY <1>1, <1>2, <1>3, PTL DEF Spec

-----------------------------------------------------------------------------
(* The refinement.                                                         *)

\* The content and the request PrService sees.
Content == [p \in Ports |-> IF good[p] THEN image[p] ELSE UNKNOWN]
Request == IF pc = "idle" THEN UNKNOWN
           ELSE [port |-> port, image |-> Image(n, words)]

\* Before the first PR every port holds its factory image.
LEMMA InitRefines ==
    ASSUME Init
    PROVE  Service!Init
  BY DEF Init, Service!Init

\* The request of a PR is one.
LEMMA RequestKnown ==
    ASSUME TypeOK
    PROVE  /\ Image(n, words) \in Seq(Nat)
           /\ [port |-> port, image |-> Image(n, words)] # UNKNOWN
  <1>1. Image(n, words) \in Seq(Nat) /\ port \in Ports
    BY ImageType DEF TypeOK, CallType
  <1>2. [port |-> port, image |-> Image(n, words)]
          \in [port : Ports, image : Seq(Nat)]
    BY <1>1
  <1> QED
    BY <1>1, <1>2, ConstantsFit

\* PrBegin asks for a PR of p, and forgets what p holds.
LEMMA BeginRefines ==
    ASSUME IInv, IInv',
           NEW p \in Ports, NEW size \in Sizes, PrBegin(p, size)
    PROVE  Service!Begin(p)
  <1>1. /\ Request = UNKNOWN
        /\ Request' = [port |-> p, image |-> Image(n, words)']
    BY DEF PrBegin, Request
  <1>2. /\ Image(n, words)' \in Seq(Nat)
        /\ [port |-> p, image |-> Image(n, words)'] # UNKNOWN
    BY ImageType, ConstantsFit DEF IInv, TypeOK, CallType
  <1>3. Content' = [Content EXCEPT ![p] = UNKNOWN]
    BY DEF PrBegin, Content, IInv, TypeOK, PortType, hwVars
  <1> QED
    BY <1>1, <1>2, <1>3 DEF Service!Begin, Content, Request

\* PrEnd delivers the image, or leaves the content unknown.
LEMMA EndRefines ==
    ASSUME IInv, PrEnd
    PROVE  Service!Succeed \/ Service!Fail
  <1>1. /\ Request = [port |-> port, image |-> Image(n, words)]
        /\ Request # UNKNOWN /\ Request' = UNKNOWN
    BY RequestKnown DEF PrEnd, Request, IInv
  <1>2. port \in Ports /\ good \in [Ports -> BOOLEAN] /\ ~good[port]
    BY DEF PrEnd, IInv, TypeOK, CallType, PortType, EngineInv
  <1>3. /\ image' = image
        /\ good' = [good EXCEPT ![port] = (result = "success")]
    BY DEF PrEnd, hwVars
  <1>4. CASE result = "success"
    <2>1. image[port] = Image(n, words)
      BY <1>4 DEF PrEnd, IInv, PhaseInv, Loaded
    <2>2. Content' = [Content EXCEPT ![port] = Image(n, words)]
      BY <1>2, <1>3, <1>4, <2>1 DEF Content
    <2> QED
      BY <1>1, <2>2 DEF Service!Succeed, Content, Request
  <1>5. CASE result # "success"
    <2>1. good' = good
      BY <1>2, <1>3, <1>5
    <2>2. Content' = Content
      BY <1>3, <2>1 DEF Content
    <2> QED
      BY <1>1, <2>2 DEF Service!Fail, Content, Request
  <1> QED
    BY <1>4, <1>5

\* Every other step changes neither: the engine writes to ports only whose
\* content is unknown.
LEMMA OtherRefines ==
    ASSUME IInv, [Next]_vars,
           ~\E p \in Ports, size \in Sizes : PrBegin(p, size), ~PrEnd
    PROVE  UNCHANGED Service!vars
  <1>1. /\ UNCHANGED <<n, port, words, good>>
        /\ pc' = "idle" <=> pc = "idle"
    <2>1. CASE Driver
      BY <2>1
         DEF Driver, ReadCtl, ResetWrite, ResetAcked, UnresetWrite, EngineIdle,
             StartWrite, CreditRead, CreditTimeout, Push, WriteDone,
             CompleteWrite, Completed, WaitTimeout, Leave, callVars
    <2>2. CASE Engine
      BY <2>2 DEF Engine, HwReset, HwUnreset, HwStart, HwLoad, HwError,
                  HwFinish, callVars
    <2>3. CASE Users
      BY <2>3 DEF Users, MgrRegister, MgrUnregister, PrRefused, callVars
    <2>4. CASE UNCHANGED vars
      BY <2>4 DEF vars, callVars
    <2> QED
      BY <2>1, <2>2, <2>3, <2>4 DEF Next
  <1>2. \/ image' = image
        \/ \E q \in Ports : \E v : ~good[q] /\ image' = [image EXCEPT ![q] = v]
    <2>1. CASE Driver
      BY <2>1
         DEF Driver, ReadCtl, ResetWrite, ResetAcked, UnresetWrite, EngineIdle,
             StartWrite, CreditRead, CreditTimeout, Push, WriteDone,
             CompleteWrite, Completed, WaitTimeout, Leave, hwVars
    <2>2. CASE Engine
      BY <2>2, RegStep
         DEF Engine, HwReset, HwUnreset, HwStart, HwLoad, HwError, HwFinish,
             hwVars, IInv, EngineInv, TypeOK, EngineType
    <2>3. CASE Users
      BY <2>3 DEF Users, MgrRegister, MgrUnregister, PrRefused, hwVars
    <2>4. CASE UNCHANGED vars
      BY <2>4 DEF vars, hwVars
    <2> QED
      BY <2>1, <2>2, <2>3, <2>4 DEF Next
  <1>3. Content' = Content
    BY <1>1, <1>2 DEF Content, IInv, TypeOK, PortType, EngineType
  <1>4. Request' = Request
    BY <1>1 DEF Request, Image
  <1> QED
    BY <1>3, <1>4 DEF Service!vars, Content, Request

(* For all constants, PR implements PrService: a PR that returns success   *)
(* left exactly its image in its port, one that fails leaves the content   *)
(* unknown, and no port whose content is known is ever written, even when  *)
(* the engine goes on after a time-out of the driver.                      *)
THEOREM PrImplementsService == Spec => ImplementsService
  <1>1. Init => IInv
    BY InitIInv
  <1>2. IInv /\ [Next]_vars => IInv'
    BY StepIInv
  <1>3. Init => Service!Init
    BY InitRefines
  <1>4. IInv /\ IInv' /\ [Next]_vars => [Service!Next]_Service!vars
    <2> SUFFICES ASSUME IInv, IInv', [Next]_vars
                 PROVE  Service!Next \/ UNCHANGED Service!vars
      OBVIOUS
    <2>1. CASE \E p \in Ports, size \in Sizes : PrBegin(p, size)
      BY <2>1, BeginRefines DEF Service!Next
    <2>2. CASE PrEnd
      BY <2>2, EndRefines DEF Service!Next
    <2> QED
      BY <2>1, <2>2, OtherRefines
  <1> QED
    BY <1>1, <1>2, <1>3, <1>4, PTL
       DEF Spec, ImplementsService, Service!Spec

=============================================================================
