----------------------------- MODULE BmcMailbox -----------------------------
(***************************************************************************)
(* The driver of the card's management controller (avmmi-bmc.c).  Ioctls   *)
(* and sysfs handlers exchange IPMI messages with the BMC through a shared *)
(* memory with a request and a response area, each with a byte count:      *)
(* avmmi_send_one writes a request, waits for the BMC to clear its count,  *)
(* waits for a response count it reads twice the same, reads the response  *)
(* and clears its count.  bus_mutex is held for one such transaction; the  *)
(* sensor data records (SDRs) take many.                                   *)
(*                                                                         *)
(* External: the BMC.  It takes a request when it has answered the last    *)
(* one, and writes the two bytes of the response count one after the       *)
(* other.                                                                  *)
(***************************************************************************)
EXTENDS Integers, Sequences

CONSTANTS
    Threads,      \* callers of ioctls and sysfs handlers
    PROBE,        \* the thread that probes
    Ops,          \* what the callers call
    Base,         \* values of a byte of the response count
    MAX_PACKET_SIZE,
    SDR_CHUNK_SIZE,
    SdrSize,      \* sizeof(struct full_sensor_record)
    RecordLens,   \* lengths of the BMC's records, header included
    MaxCalls,     \* bound: calls
    MaxPolls,     \* TIMEOUT_US / POLL_US
    TimeOuts,     \* whether the BMC may be later than that
    NONE

VARIABLES
    life,         \* "none", "probing", "up", "fw" (no sysfs), "removing",
                  \* "gone", "bare" and "oops" (see ProbeEnd, RemoveDriver)
    destroyed,    \* mutex_destroy was called
    mutex,        \* holder of bus_mutex
    op,           \* a thread's operation with its local variables
    reply,        \* what avmmi_send_one returned to the thread
    tx,           \* the transaction of the holder
    sdrs, num_sdr,
    calls,
    result,       \* how a thread's last operation ended
    request, rcount,   \* request area: message and count
    response, lo, hi,  \* response area: message and count bytes
    bmc, active        \* what the BMC does; the application it runs

drvVars == <<life, destroyed, sdrs, num_sdr, calls, result>>
memVars == <<request, rcount, response, lo, hi>>
bmcVars == <<bmc, active>>
vars == <<drvVars, mutex, op, reply, tx, memVars, bmcVars>>

All == Threads \cup {PROBE}
NumRecords == Len(RecordLens)

\* Record r of the BMC; a byte is named by its record and place.
Record(r) == [j \in 1..RecordLens[r] |-> <<r, j>>]
Zeros == [j \in 1..SdrSize + SDR_CHUNK_SIZE |-> <<0, 0>>]

Init ==
    /\ life = "none" /\ destroyed = FALSE
    /\ mutex = NONE /\ op = [t \in All |-> NONE]
    /\ reply = [t \in All |-> NONE] /\ tx = NONE
    /\ sdrs = <<>> /\ num_sdr = 0 /\ calls = 0
    /\ result = [t \in All |-> NONE]
    /\ request = NONE /\ rcount = 0 /\ response = NONE /\ lo = 0 /\ hi = 0
    /\ bmc = NONE /\ active \in {"main", "bl"}

-----------------------------------------------------------------------------
(* The BMC.                                                                *)

\* The length of an answer; that to a plain message needs both count bytes.
AnswerLen(q) == IF q.k = "raw" THEN Base + 1 ELSE 1

\* The BMC may refuse what it checks: a completion code other than 0.
Answer(q, cc) ==
    [q |-> q, ccode |-> cc,
     data |-> CASE q.k = "sdr" /\ cc = 0 ->
                     LET to == q.off + q.cnt
                     IN  SubSeq(Record(q.rec), q.off + 1,
                                IF to < RecordLens[q.rec] THEN to
                                ELSE RecordLens[q.rec])
                [] q.k = "version" -> << <<0, IF active = "main" THEN 1 ELSE 0>> >>
                [] q.k = "count" -> << <<0, NumRecords>> >>
                [] OTHER -> << <<0, 0>> >>]

BmcTake ==
    /\ rcount # 0 /\ bmc = NONE
    /\ bmc' = [q |-> request, at |-> "work"]
    /\ rcount' = 0
    /\ UNCHANGED <<drvVars, mutex, op, reply, tx, request, response, lo, hi,
                   active>>

\* The message, then the low byte of its count.
BmcAnswer ==
    /\ bmc # NONE /\ bmc.at = "work"
    /\ \E cc \in IF bmc.q.k \in {"raw", "sensor"} THEN {0} ELSE {0, 1} :
          /\ bmc.q.k = "sdr" /\ bmc.q.rec > NumRecords => cc = 1
          /\ response' = Answer(bmc.q, cc)
          /\ active' = IF bmc.q.k = "jump" /\ cc = 0 THEN "main" ELSE active
    /\ lo' = AnswerLen(bmc.q) % Base
    /\ bmc' = [bmc EXCEPT !.at = "count"]
    /\ UNCHANGED <<drvVars, mutex, op, reply, tx, request, rcount, hi>>

\* The high byte.
BmcCounted ==
    /\ bmc # NONE /\ bmc.at = "count"
    /\ hi' = AnswerLen(bmc.q) \div Base
    /\ bmc' = NONE
    /\ UNCHANGED <<drvVars, mutex, op, reply, tx, request, rcount, response,
                   lo, active>>

-----------------------------------------------------------------------------
(* avmmi_send_one                                                          *)

\* The request a thread sends next.
NextRequest(t) ==
    CASE op[t].name = "xact" -> [k |-> "raw", n |-> op[t].n]
      [] op[t].name = "sensors" -> [k |-> "sensor", sdr |-> sdrs[op[t].i][1]]
      [] op[t].name = "sdr" -> [k |-> "sdr", rec |-> op[t].rec,
                                off |-> op[t].off, cnt |-> op[t].cnt]
      [] op[t].name = "probe" -> [k |-> op[t].stage]

SendBegin(t) ==
    /\ op[t] # NONE /\ reply[t] = NONE
    /\ mutex = NONE
    /\ mutex' = t
    /\ request' = NextRequest(t) /\ rcount' = 1
    /\ tx' = [at |-> "clear", polls |-> 0, last |-> 0, low |-> 0,
              req |-> NextRequest(t)]
    /\ UNCHANGED <<drvVars, op, reply, response, lo, hi, bmcVars>>

\* Mutant: the polls are not counted.
PollClearedForever ==
    /\ tx # NONE /\ tx.at = "clear"
    /\ tx' = IF rcount = 0 THEN [tx EXCEPT !.at = "low", !.polls = 0]
             ELSE [tx EXCEPT !.polls = (@ + 1) % 2]
    /\ UNCHANGED <<drvVars, mutex, op, reply, memVars, bmcVars>>

\* One poll of the request count.
PollCleared ==
    /\ tx # NONE /\ tx.at = "clear"
    /\ tx' = IF rcount = 0 THEN [tx EXCEPT !.at = "low", !.polls = 0]
             ELSE [tx EXCEPT !.polls = @ + 1]
    /\ tx'.polls < MaxPolls
    /\ UNCHANGED <<drvVars, mutex, op, reply, memVars, bmcVars>>

\* The low byte of the response count.  The BMC writes both bytes faster
\* than the driver polls twice.
ReadLow ==
    /\ tx # NONE /\ tx.at = "low"
    /\ ~(tx.last # 0 /\ bmc # NONE /\ bmc.at = "count")
    /\ tx' = [tx EXCEPT !.at = "high", !.low = lo]
    /\ UNCHANGED <<drvVars, mutex, op, reply, memVars, bmcVars>>

\* Mutant: the first count that is not zero is taken.
SameCountOnce(count) == TRUE
SameCount(count) == count = tx.last

\* The high byte: a count that is zero, or not the one of the last poll, is
\* polled again.
ReadHigh ==
    /\ tx # NONE /\ tx.at = "high"
    /\ LET count == tx.low + Base * hi
       IN  IF count # 0 /\ SameCount(count)
           THEN tx' = [tx EXCEPT !.at = "read", !.low = count]
           ELSE tx' = [tx EXCEPT !.at = "low", !.last = count,
                                 !.polls = @ + 1]
    /\ tx'.at = "read" \/ tx'.polls < MaxPolls
    /\ UNCHANGED <<drvVars, mutex, op, reply, memVars, bmcVars>>

\* The response fits the caller's buffer, or is dropped with -ENOMEM.
ReadResponse ==
    /\ tx # NONE /\ tx.at = "read"
    /\ LET fits == tx.low <= MAX_PACKET_SIZE
                   /\ (op[mutex].name = "xact" => tx.low <= op[mutex].rxlen)
       IN  reply' = [reply EXCEPT ![mutex] =
                       [ok |-> fits, count |-> tx.low, rsp |-> response,
                        req |-> tx.req]]
    /\ lo' = 0 /\ hi' = 0
    /\ mutex' = NONE /\ tx' = NONE
    /\ UNCHANGED <<drvVars, op, request, rcount, response, bmcVars>>

\* A count is not as expected for too long, or a byte cannot be read.
SendTimeout ==
    /\ TimeOuts /\ tx # NONE
    /\ reply' = [reply EXCEPT ![mutex] =
                   [ok |-> FALSE, count |-> 0, rsp |-> NONE, req |-> tx.req]]
    /\ mutex' = NONE /\ tx' = NONE
    /\ UNCHANGED <<drvVars, op, memVars, bmcVars>>

-----------------------------------------------------------------------------
(* What the callers do between transactions.                               *)

Return(t, r) ==
    /\ op' = [op EXCEPT ![t] = NONE]
    /\ result' = [result EXCEPT ![t] = r]

Answered(t) == op[t] # NONE /\ reply[t] # NONE

\* The answer came and its completion code is 0.
Completed(t) == reply[t].ok /\ reply[t].rsp.ccode = 0

\* avmmi_bmc_ioctl and the handlers that send one message.
XactEnd(t) ==
    /\ Answered(t) /\ op[t].name = "xact"
    /\ Return(t, [op |-> op[t], reply |-> reply[t],
                  ok |-> reply[t].ok /\ reply[t].count = op[t].rxlen])
    /\ reply' = [reply EXCEPT ![t] = NONE]
    /\ UNCHANGED <<life, destroyed, mutex, tx, sdrs, num_sdr, calls, memVars,
                   bmcVars>>

SensorEnd(t) ==
    /\ Answered(t) /\ op[t].name = "sensors"
    /\ IF reply[t].ok /\ op[t].i < num_sdr
       THEN op' = [op EXCEPT ![t].i = @ + 1] /\ UNCHANGED result
       ELSE Return(t, [op |-> op[t], reply |-> reply[t], ok |-> reply[t].ok])
    /\ reply' = [reply EXCEPT ![t] = NONE]
    /\ UNCHANGED <<life, destroyed, mutex, tx, sdrs, num_sdr, calls, memVars,
                   bmcVars>>

\* avmmi_get_one_sdr: how often it asks.
Loops == LET n == SdrSize \div SDR_CHUNK_SIZE
         IN  IF n % SDR_CHUNK_SIZE # 0 THEN n + 1 ELSE n

\* Fetching record rec into sdrs[i]: nothing was read yet.
Fetch(i, rec, then) ==
    [name |-> "sdr", i |-> i, rec |-> rec, k |-> 0, off |-> 0,
     cnt |-> SDR_CHUNK_SIZE, left |-> SdrSize, then |-> then]

\* memcpy(dst + off, data, cnt); data was zeroed before.
Copied(dst, off, data, cnt) ==
    [j \in DOMAIN dst |-> IF j \notin off + 1 .. off + cnt THEN dst[j]
                          ELSE IF j - off \in DOMAIN data THEN data[j - off]
                          ELSE <<0, 0>>]

\* The length a record's header, in its first chunk, tells; an answer to
\* another request has nothing there.
HeaderLen(rsp) == IF rsp.q.k = "sdr" /\ rsp.q.off = 0 THEN RecordLens[rsp.q.rec]
                  ELSE 0
NextRecord(rsp) == IF rsp.q.k = "sdr" THEN rsp.q.rec + 1 ELSE 1

\* What is left of the record.
LeftAfter(o, rsp) == IF o.k = 0 THEN HeaderLen(rsp) - o.cnt ELSE o.left - o.cnt

\* The next chunk of the record.
NextChunk(o, left) ==
    [name |-> "sdr", i |-> o.i, rec |-> o.rec, k |-> o.k + 1,
     off |-> o.off + o.cnt, cnt |-> IF o.cnt > left THEN left ELSE o.cnt,
     left |-> left, then |-> o.then]

\* One chunk; then the next, or the next record, or what follows: sdr_show and
\* avmmi_probe drop what avmmi_get_sdr returns (`read'), and probe succeeds if
\* sysfs_create_group does.
SdrEnd(t) ==
    LET o == op[t]
        left == LeftAfter(o, reply[t].rsp)
        more == left > 0 /\ o.k + 1 < Loops
    IN  /\ Answered(t) /\ o.name = "sdr"
        /\ reply' = [reply EXCEPT ![t] = NONE]
        /\ sdrs' = IF ~Completed(t) THEN sdrs
                   ELSE [sdrs EXCEPT ![o.i] =
                           Copied(@, o.off, reply[t].rsp.data, o.cnt)]
        /\ IF Completed(t) /\ more
           THEN /\ op' = [op EXCEPT ![t] = NextChunk(o, left)]
                /\ UNCHANGED <<result, life, destroyed>>
           ELSE IF Completed(t) /\ o.i < num_sdr
           THEN /\ op' = [op EXCEPT ![t] = Fetch(o.i + 1,
                            NextRecord(reply[t].rsp), o.then)]
                /\ UNCHANGED <<result, life, destroyed>>
           ELSE \E ok \in IF o.then = "probe" THEN BOOLEAN ELSE {TRUE} :
                /\ Return(t, [op |-> o, reply |-> reply[t], ok |-> ok,
                              read |-> Completed(t)])
                /\ life' = IF o.then = "show" THEN life
                           ELSE IF ok THEN "up" ELSE "gone"
                /\ destroyed' = (destroyed \/ ~ok)
        /\ UNCHANGED <<mutex, tx, num_sdr, calls, memVars, bmcVars>>

-----------------------------------------------------------------------------
(* Probe and remove.                                                       *)

ProbeBegin ==
    /\ life = "none"
    /\ life' = "probing"
    /\ op' = [op EXCEPT ![PROBE] = [name |-> "probe", stage |-> "version",
                                    jumped |-> FALSE]]
    /\ UNCHANGED <<destroyed, mutex, reply, tx, sdrs, num_sdr, calls, result,
                   memVars, bmcVars>>

\* The stage that follows an answer.  After a failed jump the driver stays
\* for the firmware to be updated; any other failure takes it down.
NextStage(o, rsp) ==
    CASE o.stage = "version" ->
            IF rsp.data[1][2] = 1 THEN "count"
            ELSE IF o.jumped THEN "fw" ELSE "jump"
      [] o.stage = "jump" -> "version"
      [] o.stage = "count" -> "sdr"

\* What becomes of the driver: without memory for the records probe undoes
\* its work, but returns 0 ("bare"), and without records it is at its end.
Outcomes(next, cnt) ==
    IF next # "sdr" THEN {next}
    ELSE {"bare"} \cup IF cnt = 0 THEN {"up", "gone"} ELSE {"sdr"}

ProbeEnd ==
    LET o == op[PROBE]
        next == IF Completed(PROBE) THEN NextStage(o, reply[PROBE].rsp)
                ELSE IF o.stage = "jump" \/ (o.jumped /\ o.stage = "version")
                THEN "fw" ELSE "gone"
    IN  /\ Answered(PROBE) /\ o.name = "probe"
        /\ reply' = [reply EXCEPT ![PROBE] = NONE]
        /\ num_sdr' = IF next = "sdr" THEN reply[PROBE].rsp.data[1][2]
                      ELSE num_sdr
        /\ \E out \in Outcomes(next, num_sdr') :
             /\ sdrs' = IF out = "sdr" THEN [i \in 1..num_sdr' |-> Zeros]
                        ELSE sdrs
             /\ op' = [op EXCEPT ![PROBE] =
                         IF out \in {"fw", "gone", "up", "bare"} THEN NONE
                         ELSE IF out = "sdr" THEN Fetch(1, 1, "probe")
                         ELSE [o EXCEPT !.stage = out,
                                        !.jumped = (@ \/ out = "jump")]]
             /\ life' = IF out \in {"fw", "gone", "up", "bare"} THEN out ELSE life
             /\ destroyed' = (out \in {"gone", "bare"})
        /\ UNCHANGED <<mutex, tx, calls, result, memVars, bmcVars>>

\* avmmi_remove up to sysfs_remove_group: misc_deregister and mutex_destroy.
\* Open files and sysfs handlers go on.  A misc device cannot be deregistered
\* twice.
RemoveDriver ==
    /\ life \in {"up", "fw", "bare"}
    /\ life' = IF life = "bare" THEN "oops" ELSE "removing"
    /\ destroyed' = TRUE
    /\ UNCHANGED <<mutex, op, reply, tx, sdrs, num_sdr, calls, result, memVars,
                   bmcVars>>

\* sysfs_remove_group waits for the handlers of its files.
RemoveFiles ==
    /\ life = "removing"
    /\ \A t \in Threads : op[t] # NONE => op[t].name = "xact"
    /\ life' = "gone"
    /\ UNCHANGED <<destroyed, mutex, op, reply, tx, sdrs, num_sdr, calls, result,
                   memVars, bmcVars>>

\* The misc device is there from the start of probe, and who has opened it calls
\* until the driver has gone (avmmi_send_one then has no driver data, and
\* returns -ENODEV); sysfs files are there from the end of probe.
Call(t, o) ==
    /\ op[t] = NONE /\ calls < MaxCalls
    /\ IF o.name = "xact" THEN life \notin {"none", "gone"}
       ELSE life \in {"up", "removing"} /\ num_sdr > 0
    /\ calls' = calls + 1
    /\ op' = [op EXCEPT ![t] =
                CASE o.name = "xact" ->
                       [name |-> "xact", n |-> calls + 1, rxlen |-> o.rxlen]
                  [] o.name = "sensors" -> [name |-> "sensors", i |-> 1]
                  [] o.name = "sdr" -> Fetch(1, 1, "show")]
    /\ result' = [result EXCEPT ![t] = NONE]
    /\ UNCHANGED <<life, destroyed, mutex, reply, tx, sdrs, num_sdr, memVars,
                   bmcVars>>

Bmc == BmcTake \/ BmcAnswer \/ BmcCounted
Bus == PollCleared \/ ReadLow \/ ReadHigh \/ ReadResponse \/ SendTimeout
Ends(t) == XactEnd(t) \/ SensorEnd(t) \/ SdrEnd(t)

Next ==
    \/ Bmc \/ Bus \/ ProbeBegin \/ ProbeEnd \/ RemoveDriver \/ RemoveFiles
    \/ \E t \in All : SendBegin(t) \/ Ends(t)
    \/ \E t \in Threads, o \in Ops : Call(t, o)

Spec == Init /\ [][Next]_vars

\* Threads run and the mutex is fair; nothing is asked of the BMC.
FairSpec ==
    /\ Spec /\ WF_vars(Bus) /\ WF_vars(ProbeEnd)
    /\ \A t \in All : WF_vars(Ends(t)) /\ SF_vars(SendBegin(t))

-----------------------------------------------------------------------------
(* struct avmmi_priv, bus_mutex: "ensure only one transaction at a time".  *)
(* An operation gets the whole answer to its own request.                  *)
AnswersMatch ==
    \A t \in DOMAIN op : op[t] # NONE /\ reply[t] # NONE /\ reply[t].ok =>
        /\ reply[t].rsp.q = reply[t].req
        /\ reply[t].count = AnswerLen(reply[t].rsp.q)

\* Record i is in the driver in full.
InFull(i) == SubSeq(sdrs[i], 1, RecordLens[i]) = Record(i)

(* What avmmi_get_sdr has read is right, although it puts records together *)
(* from chunks between which other threads use the mailbox: once it ends,  *)
(* the driver has in full every record, or, if it failed, those before the *)
(* one it failed at.  At every other place of a record there is the BMC's  *)
(* byte or still a zero, never anything else.                              *)
SdrsRight ==
    \A t \in All : result[t] # NONE /\ result[t].op.name = "sdr" =>
        \A i \in 1..num_sdr :
            /\ result[t].read \/ i < result[t].op.i => InFull(i)
            /\ \A j \in 1..RecordLens[i] : sdrs[i][j] \in {<<0, 0>>, <<i, j>>}

(* Stronger, and false: a read of the file sdr, or a probe, that succeeds  *)
(* has every record in full.  Both drop what avmmi_get_sdr returns.        *)
SdrsComplete ==
    \A t \in All :
        result[t] # NONE /\ result[t].ok /\ result[t].op.name = "sdr" =>
            \A i \in 1..num_sdr : InFull(i)

(* Every operation ends, also when the BMC is dead.                        *)
OpsEnd == \A t \in All : (op[t] # NONE) ~> (op[t] = NONE)

(* mutex_destroy(&priv->bus_mutex) in avmmi_remove: nobody holds it.       *)
DestroyedUnlocked == destroyed => mutex = NONE

=============================================================================
