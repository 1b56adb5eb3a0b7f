---------------------------- MODULE BoardProofs ----------------------------
(***************************************************************************)
(* Proofs about the drivers of the BMC and the user clock (Board).         *)
(***************************************************************************)
EXTENDS Board, TLAPS

USE ZenonT(30)

-----------------------------------------------------------------------------
(* The user clock.  The invariant follows a store item by item: Done is    *)
(* how many of its accesses and its reset are behind it.                   *)

Storing == pllMutex # NONE /\ want[pllMutex].k = "store"
Cfg == want[pllMutex].cfg
Done == 21 - Len(todo)

\* Sequence numbers start at 1, and the reset takes none.
SeqOf(n) == IF n <= 17 THEN n + 1 ELSE n

\* The number the machine shows between two accesses: that of the access
\* before, zero after the reset.
Shown(n) == IF n <= 17 THEN n % 4 ELSE IF n = 18 THEN 0 ELSE (n - 1) % 4

\* The machine has nothing to do.
Quiet == cmd = NONE \/ cmd.seq = sts.seq

StoreItems == {Pll!Store[i] : i \in DOMAIN Pll!Store}
Items == StoreItems \cup [k : {"measure"}]

PllTypes ==
    /\ want \in [Users -> Pll!Calls \cup {NONE}]
    /\ pllMutex \in Users \cup {NONE} /\ waiting \in BOOLEAN
    /\ store \in BOOLEAN /\ synced \in BOOLEAN
    /\ todo \in Seq(Items)
    /\ DOMAIN pll = Pll!Registers /\ pll = [a \in Pll!Registers |-> pll[a]]
    /\ pllMutex # NONE => want[pllMutex] # NONE

\* Nobody has the mutex, or a thread that shows the frequency: the last store
\* has left number zero, for 20 accesses are a multiple of four.
RestInv ==
    ~Storing =>
        /\ ~waiting
        /\ synced => Quiet /\ sts.seq = 0
        /\ \A i \in 1 .. Len(todo) : todo[i].k = "measure"

\* What is left of a store is an end of Store, and its number fits.
SuffixInv ==
    Storing =>
        /\ Done \in 0 .. 21
        /\ \A i \in 1 .. Len(todo) : todo[i] = Pll!Store[Done + i]
        /\ seq = SeqOf(Done)
        /\ waiting => Done \notin {17, 21}
        /\ store => synced

\* The command in the register is the access awaited, and the machine shows
\* its number only when it has performed it.
HandshakeInv ==
    Storing /\ synced =>
        /\ ~waiting => Quiet /\ sts.seq = Shown(Done)
        /\ waiting =>
             /\ cmd.k = todo[1].k /\ cmd.a = todo[1].a
             /\ cmd.seq = seq % 4 /\ sts.seq \in {Shown(Done), cmd.seq}
             /\ cmd.k = "write" => cmd.data = Cfg
             /\ sts.seq = cmd.seq /\ Done < 17 => pll[cmd.a] = Cfg

\* The registers written so far have the configuration, and from the reset on
\* so has the clock.
ContentInv ==
    Storing /\ store =>
        /\ \A i \in 1 .. 17 : i <= Done => pll[Pll!Store[i].a] = Cfg
        /\ Done >= 18 => clock = [a \in Pll!Registers |-> Cfg]

PllInv == /\ PllTypes /\ RestInv /\ SuffixInv /\ HandshakeInv /\ ContentInv
          /\ Pll!StoreApplied

\* What makes a function a sequence.
LEMMA IsSeq ==
    ASSUME NEW R, NEW n \in Nat, NEW r, DOMAIN r = 1 .. n,
           r = [i \in 1 .. n |-> r[i]], \A i \in 1 .. n : r[i] \in R
    PROVE  r \in Seq(R) /\ Len(r) = n
  BY SMT

\* What a sequence is.
LEMMA SeqFacts ==
    ASSUME NEW R, NEW r \in Seq(R)
    PROVE  /\ Len(r) \in Nat /\ DOMAIN r = 1 .. Len(r)
           /\ r = [i \in 1 .. Len(r) |-> r[i]]
           /\ \A i \in 1 .. Len(r) : r[i] \in R
  BY SMT

\* The accesses of a list of registers, in its order.
LEMMA WriteShape ==
    ASSUME NEW T, NEW s \in Seq(T)
    PROVE  /\ Pll!Write(s) \in Seq([k : {"write"}, a : T])
           /\ Len(Pll!Write(s)) = Len(s)
<1> DEFINE w == Pll!Write(s)
           R == [k : {"write"}, a : T]
<1>1. Len(s) \in Nat /\ DOMAIN s = 1 .. Len(s) /\ \A i \in 1 .. Len(s) : s[i] \in T
  BY SeqFacts
<1>2. w = [i \in 1 .. Len(s) |-> [k |-> "write", a |-> s[i]]]
  BY <1>1 DEF Pll!Write
<1> HIDE DEF w
<1>3. \A i \in 1 .. Len(s) : w[i] \in R
  BY <1>1, <1>2, SMT
<1>4. DOMAIN w = 1 .. Len(s) /\ w = [i \in 1 .. Len(s) |-> w[i]]
  BY <1>2
<1> HIDE DEF R
<1>5. w \in Seq(R) /\ Len(w) = Len(s)
  BY <1>1, <1>3, <1>4, IsSeq
<1> QED BY <1>5 DEF w, R

\* Names of registers.
Names ==
    {"m_high", "m_low", "m_bypass", "m_duty", "n_high", "n_low",
     "n_bypass_cp1", "c0_high", "c0_low", "c0_bypass", "c0_duty",
     "c1_high", "c1_low", "c1_bypass", "c1_duty", "cp2", "lf_rc",
     "request", "enable"}

\* frequency_store writes 17 registers.
LEMMA FreqShape ==
    /\ Pll!iopll_set_freq \in Seq([k : {"write"}, a : Names])
    /\ Len(Pll!iopll_set_freq) = 17
<1> DEFINE R == [k : {"write"}, a : Names]
<1> DEFINE m == Pll!iopll_m_write
           n == Pll!iopll_n_write
           c == Pll!iopll_c0_write
           d == Pll!iopll_c1_write
           e == Pll!Write(<<"cp2", "lf_rc">>)
           mn == m \o n
           mnc == mn \o c
           mncd == mnc \o d
           all == mncd \o e
<1>m1. m \in Seq(R) /\ Len(m) = Len(<<"m_high", "m_low", "m_bypass", "m_duty">>)
  <2>1. <<"m_high", "m_low", "m_bypass", "m_duty">> \in Seq(Names)
    BY SMT DEF Names
  <2> QED BY <2>1, WriteShape DEF Pll!iopll_m_write
<1>m2. Len(m) = 4
  <2>1. Len(<<"m_high", "m_low", "m_bypass", "m_duty">>) = 4
    BY SMT
  <2> QED BY <1>m1, <2>1
<1>n1. n \in Seq(R) /\ Len(n) = Len(<<"n_high", "n_low", "n_bypass_cp1">>)
  <2>1. <<"n_high", "n_low", "n_bypass_cp1">> \in Seq(Names)
    BY SMT DEF Names
  <2> QED BY <2>1, WriteShape DEF Pll!iopll_n_write
<1>n2. Len(n) = 3
  <2>1. Len(<<"n_high", "n_low", "n_bypass_cp1">>) = 3
    BY SMT
  <2> QED BY <1>n1, <2>1
<1>c1. c \in Seq(R) /\ Len(c) = Len(<<"c0_high", "c0_low", "c0_bypass", "c0_duty">>)
  <2>1. <<"c0_high", "c0_low", "c0_bypass", "c0_duty">> \in Seq(Names)
    BY SMT DEF Names
  <2> QED BY <2>1, WriteShape DEF Pll!iopll_c0_write
<1>c2. Len(c) = 4
  <2>1. Len(<<"c0_high", "c0_low", "c0_bypass", "c0_duty">>) = 4
    BY SMT
  <2> QED BY <1>c1, <2>1
<1>d1. d \in Seq(R) /\ Len(d) = Len(<<"c1_high", "c1_low", "c1_bypass", "c1_duty">>)
  <2>1. <<"c1_high", "c1_low", "c1_bypass", "c1_duty">> \in Seq(Names)
    BY SMT DEF Names
  <2> QED BY <2>1, WriteShape DEF Pll!iopll_c1_write
<1>d2. Len(d) = 4
  <2>1. Len(<<"c1_high", "c1_low", "c1_bypass", "c1_duty">>) = 4
    BY SMT
  <2> QED BY <1>d1, <2>1
<1>e1. e \in Seq(R) /\ Len(e) = Len(<<"cp2", "lf_rc">>)
  <2>1. <<"cp2", "lf_rc">> \in Seq(Names)
    BY SMT DEF Names
  <2> QED BY <2>1, WriteShape
<1>e2. Len(e) = 2
  <2>1. Len(<<"cp2", "lf_rc">>) = 2
    BY SMT
  <2> QED BY <1>e1, <2>1
<1> HIDE DEF R, m, n, c, d, e
<1>1. mn \in Seq(R) /\ Len(mn) = Len(m) + Len(n)
  <2>1. m \in Seq(R) /\ n \in Seq(R)
    BY <1>m1, <1>n1
  <2> QED BY <2>1, SMT
<1> HIDE DEF mn
<1>2. mnc \in Seq(R) /\ Len(mnc) = Len(mn) + Len(c)
  <2>1. mn \in Seq(R) /\ c \in Seq(R)
    BY <1>1, <1>c1
  <2> QED BY <2>1, SMT
<1> HIDE DEF mnc
<1>3. mncd \in Seq(R) /\ Len(mncd) = Len(mnc) + Len(d)
  <2>1. mnc \in Seq(R) /\ d \in Seq(R)
    BY <1>2, <1>d1
  <2> QED BY <2>1, SMT
<1> HIDE DEF mncd
<1>4. all \in Seq(R) /\ Len(all) = Len(mncd) + Len(e)
  <2>1. mncd \in Seq(R) /\ e \in Seq(R)
    BY <1>3, <1>e1
  <2> QED BY <2>1, SMT
<1> HIDE DEF all
<1>5. Len(all) = 17
  <2>1. /\ Len(mn) = Len(m) + Len(n) /\ Len(mnc) = Len(mn) + Len(c)
        /\ Len(mncd) = Len(mnc) + Len(d) /\ Len(all) = Len(mncd) + Len(e)
    BY <1>1, <1>2, <1>3, <1>4
  <2> QED BY <2>1, <1>m2, <1>n2, <1>c2, <1>d2, <1>e2, SMT
<1>6. Pll!iopll_set_freq = all
  BY DEF Pll!iopll_set_freq, all, mncd, mnc, mn, m, n, c, d, e
<1> QED BY <1>4, <1>5, <1>6 DEF R

\* The items of a store: the registers, the reset and the calibration.
LEMMA StoreShape ==
    /\ Pll!Store \in Seq(Items) /\ Len(Pll!Store) = 21
    /\ \A i \in 1 .. 17 :
         Pll!Store[i].k = "write" /\ Pll!Store[i].a \in Pll!Registers
    /\ Pll!Store[18].k = "reset" /\ Pll!Store[19].k = "read"
    /\ Pll!Store[20].k = "request" /\ Pll!Store[21].k = "write"
    /\ \A a \in Pll!Registers : \E i \in 1 .. 17 : a = Pll!Store[i].a
<1> DEFINE F == Pll!iopll_set_freq
           R == Pll!iopll_reset
           C == Pll!iopll_calibrate
           W == [k : {"write"}, a : Names]
           I == W \cup {[k |-> "reset"]} \cup [k : {"read", "request", "write"}, a : Names]
           G == F \o R
           S == G \o C
<1>f. /\ F \in Seq(I) /\ Len(F) = 17 /\ DOMAIN F = 1 .. 17
      /\ \A i \in 1 .. 17 : F[i].k = "write"
  <2>1. F \in Seq(W) /\ Len(F) = 17
    BY FreqShape
  <2>2. W \subseteq I
    OBVIOUS
  <2> HIDE DEF F, W, I
  <2>3. DOMAIN F = 1 .. Len(F) /\ \A i \in 1 .. Len(F) : F[i] \in W
    BY <2>1, SeqFacts
  <2>4. F \in Seq(I)
    <3>1. F \in Seq(W)
      BY <2>1
    <3> QED BY <2>2, <3>1, SMT
  <2>5. \A i \in 1 .. 17 : F[i].k = "write"
    BY <2>1, <2>3 DEF W
  <2> QED BY <2>1, <2>3, <2>4, <2>5
<1>r. R \in Seq(I) /\ Len(R) = 1 /\ R[1].k = "reset"
  BY SMT DEF Pll!iopll_reset
<1>c. /\ C \in Seq(I) /\ Len(C) = 3
      /\ C[1].k = "read" /\ C[2].k = "request" /\ C[3].k = "write"
  <2>1. [k |-> "read", a |-> "request"] \in I /\ [k |-> "request", a |-> "request"] \in I
        /\ [k |-> "write", a |-> "enable"] \in I
    BY DEF Names
  <2> HIDE DEF I
  <2> QED BY <2>1, SMT DEF Pll!iopll_calibrate
<1>s. Pll!Store = S
  BY DEF Pll!Store
<1>a. Pll!Registers = {F[i].a : i \in DOMAIN F}
  BY DEF Pll!Registers
<1> HIDE DEF F, R, C, I
<1>1. /\ G \in Seq(I) /\ Len(G) = Len(F) + Len(R)
      /\ \A i \in 1 .. Len(F) : G[i] = F[i]
      /\ \A i \in 1 .. Len(R) : G[Len(F) + i] = R[i]
  <2>1. F \in Seq(I) /\ R \in Seq(I)
    BY <1>f, <1>r
  <2> QED BY <2>1, SMT
<1> HIDE DEF G
<1>2. /\ S \in Seq(I) /\ Len(S) = Len(G) + Len(C)
      /\ \A i \in 1 .. Len(G) : S[i] = G[i]
      /\ \A i \in 1 .. Len(C) : S[Len(G) + i] = C[i]
  <2>1. G \in Seq(I) /\ C \in Seq(I)
    BY <1>1, <1>c
  <2> QED BY <2>1, SMT
<1> HIDE DEF S
<1>7. S \in Seq(Items)
  <2>1. Len(S) \in Nat /\ DOMAIN S = 1 .. Len(S) /\ S = [i \in 1 .. Len(S) |-> S[i]]
    BY <1>2, SeqFacts
  <2>2. \A i \in 1 .. Len(S) : S[i] \in Items
    BY <1>s, <2>1 DEF Items, StoreItems
  <2> QED BY <2>1, <2>2, IsSeq
<1>3. Len(S) = 21
  <2>1. Len(S) = Len(G) + Len(C) /\ Len(G) = Len(F) + Len(R)
    BY <1>1, <1>2
  <2>2. Len(F) = 17 /\ Len(R) = 1 /\ Len(C) = 3
    BY <1>f, <1>r, <1>c
  <2> QED BY <2>1, <2>2, SMT
<1>4. /\ \A i \in 1 .. 17 : S[i] = F[i]
      /\ S[18] = R[1] /\ S[19] = C[1] /\ S[20] = C[2] /\ S[21] = C[3]
  <2>1. /\ \A i \in 1 .. Len(F) : G[i] = F[i]
        /\ \A i \in 1 .. Len(R) : G[Len(F) + i] = R[i]
        /\ \A i \in 1 .. Len(G) : S[i] = G[i]
        /\ \A i \in 1 .. Len(C) : S[Len(G) + i] = C[i]
        /\ Len(G) = Len(F) + Len(R)
    BY <1>1, <1>2
  <2>2. Len(F) = 17 /\ Len(R) = 1 /\ Len(C) = 3
    BY <1>f, <1>r, <1>c
  <2> QED BY <2>1, <2>2, SMT
<1>5. \A i \in 1 .. 17 : S[i].k = "write" /\ S[i].a \in Pll!Registers
  BY <1>a, <1>f, <1>4
<1>6. \A a \in Pll!Registers : \E i \in 1 .. 17 : a = S[i].a
  BY <1>a, <1>f, <1>4
<1> QED BY <1>3, <1>4, <1>5, <1>6, <1>7, <1>r, <1>c, <1>s

\* The rest of a sequence.
LEMMA TailFacts ==
    ASSUME NEW R, NEW r \in Seq(R), r # <<>>
    PROVE  /\ Tail(r) \in Seq(R) /\ Len(r) \in Nat /\ Len(r) > 0
           /\ Len(Tail(r)) = Len(r) - 1 /\ Head(r) = r[1]
           /\ \A i \in 1 .. Len(r) - 1 : Tail(r)[i] = r[i + 1]
  BY SMT

\* A step that leaves what the invariant speaks of alone.
LEMMA PllSame ==
    ASSUME PllInv,
           UNCHANGED <<want, pllMutex, todo, waiting, seq, store, done, synced,
                       cmd, sts, pll, clock>>
    PROVE  PllInv'
  BY DEF PllInv, PllTypes, RestInv, SuffixInv, HandshakeInv, ContentInv,
         Storing, Cfg, Done, Quiet, Pll!StoreApplied, Pll!Holds

\* The machine performs the access that is awaited, and no other.
LEMMA HwAccessKeeps == ASSUME PllInv, Pll!HwAccess PROVE PllInv'
<1>1. /\ cmd # NONE /\ cmd.seq # sts.seq /\ sts'.seq = cmd.seq
      /\ pll' = IF cmd.k = "write" /\ cmd.a \in Pll!Registers
                THEN [pll EXCEPT ![cmd.a] = cmd.data] ELSE pll
      /\ UNCHANGED <<want, pllMutex, todo, waiting, seq, store, done, synced,
                     cmd, clock>>
  BY DEF Pll!HwAccess, Pll!drvVars
<1>2. ~Quiet
  BY <1>1 DEF Quiet
<1>3. PllTypes'
  BY <1>1 DEF PllInv, PllTypes
<1>4. Storing' = Storing /\ Done' = Done /\ Cfg' = Cfg
  BY <1>1 DEF Storing, Done, Cfg
<1>5. RestInv' /\ SuffixInv' /\ Pll!StoreApplied'
  BY <1>1, <1>2, <1>4 DEF PllInv, RestInv, SuffixInv, Pll!StoreApplied, Pll!Holds
<1>6. Storing /\ synced => waiting
  BY <1>2 DEF PllInv, HandshakeInv, PllTypes
<1>7. Storing /\ synced =>
        /\ cmd.k = "write" => cmd.data = Cfg
        /\ Done < 17 => cmd.k = "write" /\ cmd.a \in Pll!Registers
  <2> SUFFICES ASSUME Storing, synced
               PROVE  /\ cmd.k = "write" => cmd.data = Cfg
                      /\ Done < 17 => cmd.k = "write" /\ cmd.a \in Pll!Registers
    OBVIOUS
  <2>1. cmd.k = todo[1].k /\ cmd.a = todo[1].a
    BY <1>6 DEF PllInv, HandshakeInv
  <2>2. Done \in 0 .. 21 /\ Done = 21 - Len(todo)
        /\ \A i \in 1 .. Len(todo) : todo[i] = Pll!Store[Done + i]
    BY DEF PllInv, SuffixInv, Done
  <2>l. Len(todo) \in Nat
    BY SeqFacts DEF PllInv, PllTypes
  <2>a. Done < 17 => 1 \in 1 .. Len(todo) /\ Done + 1 \in 1 .. 17
    <3>1. \A d \in 0 .. 21, l \in Nat : d = 21 - l /\ d < 17 =>
            1 \in 1 .. l /\ d + 1 \in 1 .. 17
      BY SMT
    <3> QED BY <3>1, <2>2, <2>l
  <2>3. Done < 17 => todo[1] = Pll!Store[Done + 1] /\ Done + 1 \in 1 .. 17
    BY <2>2, <2>a
  <2>4. Done < 17 => todo[1].k = "write" /\ todo[1].a \in Pll!Registers
    BY <2>3, StoreShape
  <2> QED BY <2>1, <2>4, <1>6 DEF PllInv, HandshakeInv
<1>8. HandshakeInv'
  BY <1>1, <1>3, <1>4, <1>6, <1>7 DEF PllInv, PllTypes, HandshakeInv
<1>9. ContentInv'
  <2>1. Storing /\ store => synced
    BY DEF PllInv, SuffixInv
  <2>2. \A i \in 1 .. 17 : Pll!Store[i].a \in Pll!Registers
    BY StoreShape
  <2> QED BY <1>1, <1>4, <1>7, <2>1, <2>2 DEF PllInv, PllTypes, ContentInv
<1> QED BY <1>3, <1>5, <1>8, <1>9 DEF PllInv

\* A thread calls; it is not the one that holds the mutex.
LEMMA CallKeeps ==
    ASSUME PllInv, NEW u \in Users, NEW c \in Pll!Calls, Pll!Call(u, c)
    PROVE  PllInv'
<1>1. /\ want[u] = NONE /\ want' = [want EXCEPT ![u] = c]
      /\ UNCHANGED <<pllMutex, todo, waiting, seq, store, done, synced,
                     cmd, sts, pll, clock>>
  BY DEF Pll!Call, Pll!drvVars, Pll!hwVars
<1>2. PllTypes'
  BY <1>1 DEF PllInv, PllTypes
<1>3. pllMutex # NONE => want'[pllMutex] = want[pllMutex]
  BY <1>1 DEF PllInv, PllTypes
<1>4. Storing' = Storing /\ Done' = Done /\ (Storing => Cfg' = Cfg)
  BY <1>1, <1>3 DEF Storing, Done, Cfg
<1>5. Quiet' = Quiet
  BY <1>1 DEF Quiet
<1> QED BY <1>1, <1>2, <1>4, <1>5 DEF PllInv, RestInv, SuffixInv, HandshakeInv,
              ContentInv, Pll!StoreApplied, Pll!Holds

\* frequency_store begins with every register to write and number 1, which
\* the machine does not show.
LEMMA LockKeeps ==
    ASSUME PllInv, NEW u \in Users, Pll!Lock(u) PROVE PllInv'
<1> USE BoardAssumption
<1>1. /\ want[u] # NONE /\ pllMutex = NONE /\ pllMutex' = u
      /\ todo' = IF want[u].k = "store" THEN Pll!Store ELSE Pll!Show
      /\ seq' = 1 /\ store' = synced /\ waiting' = FALSE
      /\ UNCHANGED <<want, done, synced, cmd, sts, pll, clock>>
  BY DEF Pll!Lock, Pll!hwVars, Pll!Start
<1>2. /\ Pll!Show \in Seq([k : {"measure"}])
      /\ \A i \in 1 .. Len(Pll!Show) : Pll!Show[i].k = "measure"
  <2>1. [k |-> "measure"] \in [k : {"measure"}]
    OBVIOUS
  <2> DEFINE M == [k : {"measure"}]
  <2>2. [k |-> "measure"] \in M
    BY <2>1
  <2>3. Pll!Show = << [k |-> "measure"], [k |-> "measure"] >>
    BY DEF Pll!Show
  <2> HIDE DEF M
  <2>4. Pll!Show \in Seq(M)
    BY <2>2, <2>3, SMT
  <2>5. \A i \in 1 .. Len(Pll!Show) : Pll!Show[i] \in M
    BY <2>4, SeqFacts
  <2> QED BY <2>4, <2>5 DEF M
<1>3. Pll!Show \in Seq(Items)
  <2> DEFINE M == [k : {"measure"}]
  <2>1. M \subseteq Items /\ Pll!Show \in Seq(M)
    BY <1>2 DEF Items
  <2> HIDE DEF M
  <2> QED BY <2>1, SMT
<1>4. PllTypes'
  BY <1>1, <1>3, StoreShape DEF PllInv, PllTypes
<1>5. Storing' = (want[u].k = "store") /\ ~Storing
  BY <1>1 DEF Storing, PllInv, PllTypes
<1>6. synced => Quiet' /\ sts'.seq = 0
  BY <1>1, <1>5 DEF PllInv, RestInv, Quiet
<1>7. RestInv'
  BY <1>1, <1>2, <1>5, <1>6 DEF RestInv
<1>8. Storing' => Done' = 0
  <2> SUFFICES ASSUME Storing' PROVE Done' = 0
    OBVIOUS
  <2>1. Len(todo') = 21
    BY <1>1, <1>5, StoreShape
  <2>2. Done' = 21 - Len(todo')
    BY DEF Done
  <2> QED BY <2>1, <2>2, SMT
<1>n. /\ 0 \in 0 .. 21 /\ SeqOf(0) = 1 /\ 0 \notin {17, 21} /\ Shown(0) = 0
      /\ ~(0 >= 18) /\ \A i \in 1 .. 17 : ~(i <= 0) /\ 0 + i = i
  BY SMT DEF SeqOf, Shown
<1>9. SuffixInv'
  <2> SUFFICES ASSUME Storing' PROVE SuffixInv'
    BY DEF SuffixInv
  <2>1. todo' = Pll!Store
    BY <1>1, <1>5
  <2>2. \A i \in 1 .. Len(todo') : todo'[i] = Pll!Store[Done' + i]
    <3>1. \A i \in 1 .. Len(todo') : 0 + i = i
      BY SMT
    <3> QED BY <2>1, <3>1, <1>8
  <2>3. seq' = SeqOf(Done')
    BY <1>1, <1>8, <1>n
  <2> QED BY <1>1, <1>8, <1>n, <2>2, <2>3 DEF SuffixInv
<1>10. HandshakeInv'
  BY <1>1, <1>6, <1>8, <1>n DEF HandshakeInv
<1>11. ContentInv'
  BY <1>8, <1>n DEF ContentInv
<1>12. Pll!StoreApplied'
  BY <1>1 DEF Pll!StoreApplied, Pll!Holds
<1> QED BY <1>4, <1>7, <1>9, <1>10, <1>11, <1>12 DEF PllInv

\* The access a thread begins is the first one left, and its number is not
\* the one shown.
LEMMA IssueKeeps == ASSUME PllInv, Pll!Issue PROVE PllInv'
<1>1. /\ pllMutex # NONE /\ todo # <<>> /\ Head(todo).k \in {"write", "read", "request"}
      /\ ~waiting /\ waiting' = TRUE
      /\ UNCHANGED <<want, pllMutex, todo, seq, store, done, synced, sts, pll, clock>>
  BY DEF Pll!Issue, Pll!At, Pll!Holds
<1>2. cmd' = [k |-> Head(todo).k, a |-> Head(todo).a, seq |-> seq % 4,
              data |-> IF Head(todo).k = "request"
                       THEN status \cup {Pll!RequestBit} ELSE Cfg]
  BY DEF Pll!Issue, Cfg
<1>3. Len(todo) \in Nat /\ Len(todo) > 0 /\ Head(todo) = todo[1]
  BY <1>1, TailFacts DEF PllInv, PllTypes
<1>4. 1 \in 1 .. Len(todo)
  BY <1>3, SMT
<1>5. Storing
  <2>1. todo[1].k # "measure"
    BY <1>1, <1>3
  <2> QED BY <1>4, <2>1 DEF PllInv, RestInv
<1>6. /\ Done \in 0 .. 21 /\ Done = 21 - Len(todo) /\ seq = SeqOf(Done)
      /\ todo[1] = Pll!Store[Done + 1]
  BY <1>4, <1>5 DEF PllInv, SuffixInv, Done
<1>7. Done # 17
  <2>1. Done = 17 => Done + 1 = 18
    BY SMT
  <2> QED BY <1>1, <1>3, <1>6, <2>1, StoreShape
<1>8. Done # 21
  <2>1. Done = 21 - Len(todo)
    BY <1>6
  <2> HIDE DEF Done
  <2> QED BY <2>1, <1>3, SMT
<1>9. Storing' /\ Done' = Done /\ Cfg' = Cfg
  BY <1>1, <1>5 DEF Storing, Done, Cfg
<1>10. seq % 4 # Shown(Done)
  <2>1. Done \in 0 .. 21 /\ seq = SeqOf(Done)
    BY <1>6
  <2> HIDE DEF Done
  <2> QED BY <2>1, <1>7, <1>8, SMT DEF SeqOf, Shown
<1>11. PllTypes'
  BY <1>1 DEF PllInv, PllTypes
<1>12. RestInv'
  BY <1>9 DEF RestInv
<1>13. SuffixInv'
  BY <1>1, <1>5, <1>7, <1>8, <1>9 DEF PllInv, SuffixInv
<1>14. ContentInv'
  BY <1>1, <1>5, <1>9 DEF PllInv, ContentInv
<1>15. HandshakeInv'
  <2> SUFFICES ASSUME synced PROVE HandshakeInv'
    BY <1>1 DEF HandshakeInv
  <2>1. sts.seq = Shown(Done)
    BY <1>1, <1>5 DEF PllInv, HandshakeInv
  <2>2. /\ cmd'.k = todo[1].k /\ cmd'.a = todo[1].a /\ cmd'.seq = seq % 4
        /\ cmd'.k = "write" => cmd'.data = Cfg
    BY <1>2, <1>3
  <2> QED BY <1>1, <1>9, <1>10, <2>1, <2>2 DEF HandshakeInv
<1>16. Pll!StoreApplied'
  BY <1>1 DEF Pll!StoreApplied, Pll!Holds
<1> QED BY <1>11, <1>12, <1>13, <1>14, <1>15, <1>16 DEF PllInv

\* The number shown is the one awaited: the access was performed.
LEMMA AckKeeps == ASSUME PllInv, Pll!Ack PROVE PllInv'
<1>1. /\ pllMutex # NONE /\ waiting /\ sts.seq = seq % 4
      /\ seq' = seq + 1 /\ todo' = Tail(todo) /\ waiting' = FALSE
      /\ UNCHANGED <<want, pllMutex, store, done, synced, cmd, sts, pll, clock>>
  BY DEF Pll!Ack, Pll!Holds, Pll!Acknowledged, Pll!hwVars
<1>2. Storing
  BY <1>1 DEF PllInv, RestInv
<1>3. /\ Done \in 0 .. 21 /\ Done = 21 - Len(todo) /\ seq = SeqOf(Done)
      /\ \A i \in 1 .. Len(todo) : todo[i] = Pll!Store[Done + i]
      /\ Done \notin {17, 21} /\ (store => synced)
  BY <1>1, <1>2 DEF PllInv, SuffixInv, Done
<1>4. todo # <<>>
  <2>1. todo = <<>> => Len(todo) = 0
    BY SMT
  <2>2. 21 - 0 = 21
    BY SMT
  <2> QED BY <1>3, <2>1, <2>2
<1>5. /\ Tail(todo) \in Seq(Items) /\ Len(todo) \in Nat /\ Len(todo) > 0
      /\ Len(Tail(todo)) = Len(todo) - 1
      /\ \A i \in 1 .. Len(todo) - 1 : Tail(todo)[i] = todo[i + 1]
  BY <1>4, TailFacts DEF PllInv, PllTypes
<1>6. Done' = Done + 1
  <2>1. Done' = 21 - (Len(todo) - 1) /\ Done = 21 - Len(todo)
    BY <1>1, <1>5 DEF Done
  <2>2. \A l \in Nat : 21 - (l - 1) = (21 - l) + 1
    BY SMT
  <2> QED BY <2>1, <2>2, <1>5
<1>7. \A i \in 1 .. Len(todo') : todo'[i] = Pll!Store[Done' + i]
  <2> SUFFICES ASSUME NEW i \in 1 .. Len(todo) - 1
               PROVE  Tail(todo)[i] = Pll!Store[(Done + 1) + i]
    BY <1>1, <1>5, <1>6
  <2>1. i + 1 \in 1 .. Len(todo) /\ (Done + 1) + i = Done + (i + 1)
    <3>1. \A l \in Nat : \A j \in 1 .. l - 1 : j + 1 \in 1 .. l
      BY SMT
    <3>2. \A d \in 0 .. 21, j \in Int : (d + 1) + j = d + (j + 1)
      BY SMT
    <3>3. i \in Int
      BY <1>5, SMT
    <3> QED BY <1>3, <1>5, <3>1, <3>2, <3>3
  <2>2. Tail(todo)[i] = todo[i + 1]
    BY <1>5
  <2> QED BY <1>3, <2>1, <2>2
<1>8. /\ Done + 1 \in 0 .. 21 /\ SeqOf(Done + 1) = SeqOf(Done) + 1
      /\ Shown(Done + 1) = SeqOf(Done) % 4
      /\ Done + 1 >= 18 => Done >= 18
      /\ \A i \in 1 .. 17 : i <= Done + 1 => i <= Done \/ i = Done + 1
  <2>1. Done \in 0 .. 21 /\ Done # 17 /\ Done # 21
    BY <1>3
  <2> HIDE DEF Done
  <2>2. Done + 1 \in 0 .. 21 /\ SeqOf(Done + 1) = SeqOf(Done) + 1
    BY <2>1, SMT DEF SeqOf
  <2>3. Shown(Done + 1) = SeqOf(Done) % 4
    BY <2>1, SMT DEF SeqOf, Shown
  <2>4. Done + 1 >= 18 => Done >= 18
    BY <2>1, SMT
  <2>5. \A i \in 1 .. 17 : i <= Done + 1 => i <= Done \/ i = Done + 1
    BY <2>1, SMT
  <2> QED BY <2>2, <2>3, <2>4, <2>5
<1>9. Storing' /\ Cfg' = Cfg
  BY <1>1, <1>2 DEF Storing, Cfg
<1>10. PllTypes'
  BY <1>1, <1>5 DEF PllInv, PllTypes
<1>11. RestInv'
  BY <1>9 DEF RestInv
<1>12. SuffixInv'
  <2>1. seq' = SeqOf(Done')
    BY <1>1, <1>3, <1>6, <1>8
  <2> QED BY <1>1, <1>3, <1>6, <1>7, <1>8, <2>1 DEF SuffixInv
<1>13. HandshakeInv'
  <2> SUFFICES ASSUME synced PROVE HandshakeInv'
    BY <1>1 DEF HandshakeInv
  <2>1. cmd.seq = seq % 4
    BY <1>1, <1>2 DEF PllInv, HandshakeInv
  <2>2. Quiet' /\ sts'.seq = Shown(Done')
    BY <1>1, <1>3, <1>6, <1>8, <2>1 DEF Quiet
  <2> QED BY <1>1, <2>2 DEF HandshakeInv
<1>14. ContentInv'
  <2> SUFFICES ASSUME store PROVE ContentInv'
    BY <1>1 DEF ContentInv
  <2>1. Done < 17 => pll[todo[1].a] = Cfg
    BY <1>1, <1>2, <1>3 DEF PllInv, HandshakeInv
  <2>2. Done + 1 \in 1 .. 17 => Done < 17
    <3>1. \A d \in 0 .. 21 : d + 1 \in 1 .. 17 => d < 17
      BY SMT
    <3> QED BY <1>3, <3>1
  <2>3. 1 \in 1 .. Len(todo)
    BY <1>5, SMT
  <2>4. Done + 1 \in 1 .. 17 => pll[Pll!Store[Done + 1].a] = Cfg
    BY <1>3, <2>1, <2>2, <2>3
  <2> QED BY <1>1, <1>2, <1>6, <1>8, <1>9, <2>4 DEF PllInv, ContentInv
<1>15. Pll!StoreApplied'
  BY <1>1 DEF Pll!StoreApplied, Pll!Holds
<1> QED BY <1>10, <1>11, <1>12, <1>13, <1>14, <1>15 DEF PllInv

\* A call that returns leaves number zero shown if the machine is in step, and
\* a store that succeeds has its configuration in the clock.
LEMMA LeaveKeeps ==
    ASSUME PllInv, pllMutex # NONE, NEW ok \in BOOLEAN, Pll!Leave(ok),
           UNCHANGED pll, synced' \in BOOLEAN,
           synced' => Quiet' /\ sts'.seq = 0,
           Storing /\ ok /\ store => clock' = [a \in Pll!Registers |-> Cfg]
    PROVE  PllInv'
<1> USE BoardAssumption
<1>1. /\ done'.c = want[pllMutex] /\ done'.ok = ok /\ done'.store = store
      /\ want' = [want EXCEPT ![pllMutex] = NONE]
      /\ pllMutex' = NONE /\ todo' = <<>> /\ waiting' = FALSE /\ store' = store
  BY DEF Pll!Leave
<1>2. <<>> \in Seq(Items) /\ \A i \in 1 .. Len(<<>>) : FALSE
  <2>1. Len(<<>>) = 0 /\ \A i \in 1 .. 0 : FALSE
    BY SMT
  <2> QED BY <2>1, SMT
<1>3. PllTypes'
  BY <1>1, <1>2 DEF PllInv, PllTypes
<1>4. ~Storing'
  BY <1>1 DEF Storing
<1>5. RestInv'
  BY <1>1, <1>2 DEF RestInv
<1>6. SuffixInv' /\ HandshakeInv' /\ ContentInv'
  BY <1>4 DEF SuffixInv, HandshakeInv, ContentInv
<1>7. Pll!StoreApplied'
  BY <1>1 DEF Pll!StoreApplied, Storing, Cfg
<1> QED BY <1>3, <1>5, <1>6, <1>7 DEF PllInv

\* An access that is not acknowledged: the machine may be out of step.
LEMMA TimeoutKeeps == ASSUME PllInv, Pll!Timeout PROVE PllInv'
<1>1. pllMutex # NONE /\ synced' = FALSE /\ Pll!Leave(FALSE) /\ pll' = pll
  BY DEF Pll!Timeout, Pll!Holds, Pll!hwVars
<1> QED BY <1>1, LeaveKeeps

\* The whole store is done; 20 accesses end at number zero.
LEMMA ReturnKeeps == ASSUME PllInv, Pll!Return PROVE PllInv'
<1>1. /\ pllMutex # NONE /\ todo = <<>> /\ Pll!Leave(TRUE)
      /\ UNCHANGED <<synced, cmd, sts, pll, clock>>
  BY DEF Pll!Return, Pll!Holds, Pll!hwVars
<1>2. Done = 21
  <2>1. Len(<<>>) = 0
    BY SMT
  <2>2. 21 - 0 = 21
    BY SMT
  <2> QED BY <1>1, <2>1, <2>2 DEF Done
<1>3. Shown(21) = 0 /\ 21 >= 18
  BY SMT DEF Shown
<1>4. Storing => ~waiting
  BY <1>2 DEF PllInv, SuffixInv
<1>5. synced => Quiet /\ sts.seq = 0
  BY <1>2, <1>3, <1>4 DEF PllInv, HandshakeInv, RestInv
<1>6. Storing /\ store => clock = [a \in Pll!Registers |-> Cfg]
  BY <1>2, <1>3 DEF PllInv, ContentInv
<1>7. synced' => Quiet' /\ sts'.seq = 0
  BY <1>1, <1>5 DEF Quiet
<1>8. synced' \in BOOLEAN
  BY <1>1 DEF PllInv, PllTypes
<1> QED BY <1>1, <1>6, <1>7, <1>8, LeaveKeeps

\* What is left after an item is done.
LEMMA NextItem ==
    ASSUME PllTypes, todo # <<>>, todo' = Tail(todo)
    PROVE  /\ todo' \in Seq(Items) /\ Head(todo) = todo[1] /\ 1 \in 1 .. Len(todo)
           /\ Len(todo) \in Nat /\ Done' = Done + 1
           /\ \A i \in 1 .. Len(todo') :
                i + 1 \in 1 .. Len(todo) /\ todo'[i] = todo[i + 1]
<1>1. /\ Tail(todo) \in Seq(Items) /\ Len(todo) \in Nat /\ Len(todo) > 0
      /\ Len(Tail(todo)) = Len(todo) - 1 /\ Head(todo) = todo[1]
      /\ \A i \in 1 .. Len(todo) - 1 : Tail(todo)[i] = todo[i + 1]
  BY TailFacts DEF PllTypes
<1>2. \A l \in Nat : l > 0 => 1 \in 1 .. l
  BY SMT
<1>3. \A l \in Nat : \A j \in 1 .. l - 1 : j + 1 \in 1 .. l
  BY SMT
<1>4. Done' = Done + 1
  <2>1. Done' = 21 - (Len(todo) - 1) /\ Done = 21 - Len(todo)
    BY <1>1 DEF Done
  <2>2. \A l \in Nat : 21 - (l - 1) = (21 - l) + 1
    BY SMT
  <2> QED BY <2>1, <2>2, <1>1
<1> QED BY <1>1, <1>2, <1>3, <1>4

\* A clock is measured: the registers are not touched.
LEMMA MeasureKeeps == ASSUME PllInv, Pll!Measure PROVE PllInv'
<1>1. /\ pllMutex # NONE /\ todo # <<>> /\ Head(todo).k = "measure"
      /\ UNCHANGED <<synced, cmd, sts, pll, clock>>
  BY DEF Pll!Measure, Pll!At, Pll!Holds, Pll!hwVars
<1>2. Head(todo) = todo[1] /\ 1 \in 1 .. Len(todo) /\ Len(todo) \in Nat
  <2>1. Len(todo) \in Nat /\ Len(todo) > 0 /\ Head(todo) = todo[1]
    BY <1>1, TailFacts DEF PllInv, PllTypes
  <2>2. \A l \in Nat : l > 0 => 1 \in 1 .. l
    BY SMT
  <2> QED BY <2>1, <2>2
<1>3. ~Storing
  <2> SUFFICES ASSUME Storing PROVE FALSE
    OBVIOUS
  <2>1. Done \in 0 .. 21 /\ Done = 21 - Len(todo) /\ todo[1] = Pll!Store[Done + 1]
    BY <1>2 DEF PllInv, SuffixInv, Done
  <2>2. Done + 1 \in 1 .. 17 \/ Done + 1 \in {18, 19, 20, 21}
    <3>1. \A d \in 0 .. 21, l \in Nat : d = 21 - l /\ 1 \in 1 .. l =>
             d + 1 \in 1 .. 17 \/ d + 1 \in {18, 19, 20, 21}
      BY SMT
    <3> QED BY <1>2, <2>1, <3>1
  <2>3. Pll!Store[Done + 1].k \in {"write", "reset", "read", "request"}
    BY <2>2, StoreShape
  <2>4. "measure" \notin {"write", "reset", "read", "request"}
    OBVIOUS
  <2> QED BY <1>1, <1>2, <2>1, <2>3, <2>4
<1>4. synced => Quiet /\ sts.seq = 0
  BY <1>3 DEF PllInv, RestInv
<1>5. CASE /\ todo' = Tail(todo)
           /\ UNCHANGED <<want, pllMutex, waiting, seq, store, done>>
  <2>1. /\ todo' \in Seq(Items)
        /\ \A i \in 1 .. Len(todo') : i + 1 \in 1 .. Len(todo) /\ todo'[i] = todo[i + 1]
    BY <1>1, <1>5, NextItem DEF PllInv
  <2>2. ~Storing'
    BY <1>3, <1>5 DEF Storing
  <2>3. PllTypes'
    BY <1>1, <1>5, <2>1 DEF PllInv, PllTypes
  <2>4. RestInv'
    BY <1>1, <1>3, <1>5, <2>1 DEF PllInv, RestInv, Quiet
  <2>5. Pll!StoreApplied'
    BY <1>1, <1>5 DEF Pll!StoreApplied, Pll!Holds
  <2> QED BY <2>2, <2>3, <2>4, <2>5 DEF PllInv, SuffixInv, HandshakeInv, ContentInv
<1>6. CASE Pll!Leave(FALSE)
  <2>1. synced' => Quiet' /\ sts'.seq = 0
    BY <1>1, <1>4 DEF Quiet
  <2>2. synced' \in BOOLEAN
    BY <1>1 DEF PllInv, PllTypes
  <2> QED BY <1>1, <1>6, <2>1, <2>2, LeaveKeeps
<1> QED BY <1>5, <1>6 DEF Pll!Measure

\* The reset comes after 17 registers were written, and makes the machine show
\* number zero.
LEMMA ResetKeeps == ASSUME PllInv, Pll!Reset PROVE PllInv'
<1>1. /\ pllMutex # NONE /\ todo # <<>> /\ Head(todo).k = "reset"
      /\ cmd' = NONE /\ sts'.seq = 0 /\ clock' = pll /\ synced' = TRUE /\ pll' = pll
  BY DEF Pll!Reset, Pll!At, Pll!Holds
<1>2. Head(todo) = todo[1] /\ 1 \in 1 .. Len(todo) /\ Len(todo) \in Nat
  <2>1. Len(todo) \in Nat /\ Len(todo) > 0 /\ Head(todo) = todo[1]
    BY <1>1, TailFacts DEF PllInv, PllTypes
  <2>2. \A l \in Nat : l > 0 => 1 \in 1 .. l
    BY SMT
  <2> QED BY <2>1, <2>2
<1>3. Storing
  <2>1. "reset" # "measure"
    OBVIOUS
  <2> QED BY <1>1, <1>2, <2>1 DEF PllInv, RestInv
<1>4. Done = 17 /\ ~waiting
  <2>1. Done \in 0 .. 21 /\ Done = 21 - Len(todo) /\ todo[1] = Pll!Store[Done + 1]
    BY <1>2, <1>3 DEF PllInv, SuffixInv, Done
  <2>2. Done = 17 \/ Done + 1 \in 1 .. 17 \/ Done + 1 \in {19, 20, 21}
    <3>1. \A d \in 0 .. 21, l \in Nat : d = 21 - l /\ 1 \in 1 .. l =>
             d = 17 \/ d + 1 \in 1 .. 17 \/ d + 1 \in {19, 20, 21}
      BY SMT
    <3> QED BY <1>2, <2>1, <3>1
  <2>3. Done = 17 \/ Pll!Store[Done + 1].k \in {"write", "read", "request"}
    BY <2>2, StoreShape
  <2>4. "reset" \notin {"write", "read", "request"}
    OBVIOUS
  <2>5. Done = 17
    BY <1>1, <1>2, <2>1, <2>3, <2>4
  <2> QED BY <1>3, <2>5 DEF PllInv, SuffixInv
<1>5. store => pll = [a \in Pll!Registers |-> Cfg]
  <2> SUFFICES ASSUME store PROVE pll = [a \in Pll!Registers |-> Cfg]
    OBVIOUS
  <2>1. \A i \in 1 .. 17 : i <= 17
    BY SMT
  <2>2. \A i \in 1 .. 17 : pll[Pll!Store[i].a] = Cfg
    BY <1>3, <1>4, <2>1 DEF PllInv, ContentInv
  <2>3. \A a \in Pll!Registers : pll[a] = Cfg
    BY <2>2, StoreShape
  <2>4. pll = [a \in Pll!Registers |-> pll[a]]
    BY DEF PllInv, PllTypes
  <2> QED BY <2>3, <2>4
<1>6. CASE /\ todo' = Tail(todo)
           /\ UNCHANGED <<want, pllMutex, waiting, seq, store, done>>
  <2>1. /\ todo' \in Seq(Items) /\ Done' = Done + 1
        /\ \A i \in 1 .. Len(todo') : i + 1 \in 1 .. Len(todo) /\ todo'[i] = todo[i + 1]
    BY <1>1, <1>6, NextItem DEF PllInv
  <2>2. Storing' /\ Cfg' = Cfg
    BY <1>3, <1>6 DEF Storing, Cfg
  <2>3. Done' = 18 /\ 18 \in 0 .. 21 /\ ~(18 <= 17) /\ 18 >= 18
    <3>1. 17 + 1 = 18 /\ 18 \in 0 .. 21 /\ ~(18 <= 17) /\ 18 >= 18
      BY SMT
    <3> QED BY <1>4, <2>1, <3>1
  <2>4. PllTypes'
    BY <1>1, <1>6, <2>1 DEF PllInv, PllTypes
  <2>5. seq' = SeqOf(18)
    <3>1. SeqOf(17) = SeqOf(18)
      BY SMT DEF SeqOf
    <3> QED BY <1>3, <1>4, <1>6, <3>1 DEF PllInv, SuffixInv
  <2>6. \A i \in 1 .. Len(todo') : todo'[i] = Pll!Store[18 + i]
    <3>1. \A i \in 1 .. Len(todo) : todo[i] = Pll!Store[17 + i]
      BY <1>3, <1>4 DEF PllInv, SuffixInv
    <3> SUFFICES ASSUME NEW i \in 1 .. Len(todo') PROVE todo'[i] = Pll!Store[18 + i]
      OBVIOUS
    <3>2. todo'[i] = Pll!Store[17 + (i + 1)]
      BY <2>1, <3>1
    <3>3. i \in Int
      <4>1. Len(todo') \in Nat
        BY <2>1, SeqFacts
      <4> QED BY <4>1, SMT
    <3>4. \A j \in Int : 17 + (j + 1) = 18 + j
      BY SMT
    <3> QED BY <3>2, <3>3, <3>4
  <2>7. SuffixInv'
    BY <1>1, <1>4, <1>6, <2>3, <2>5, <2>6 DEF SuffixInv
  <2>8. HandshakeInv'
    <3>1. Shown(18) = 0
      BY SMT DEF Shown
    <3> QED BY <1>1, <1>4, <1>6, <2>3, <3>1 DEF HandshakeInv, Quiet
  <2>9. ContentInv'
    <3>1. \A i \in 1 .. 17 : i <= 17
      BY SMT
    <3>2. store => \A i \in 1 .. 17 : pll[Pll!Store[i].a] = Cfg
      BY <1>3, <1>4, <3>1 DEF PllInv, ContentInv
    <3> QED BY <1>1, <1>5, <1>6, <2>2, <2>3, <3>2 DEF ContentInv
  <2>10. RestInv'
    BY <2>2 DEF RestInv
  <2>11. Pll!StoreApplied'
    BY <1>1, <1>6 DEF Pll!StoreApplied, Pll!Holds
  <2> QED BY <2>4, <2>7, <2>8, <2>9, <2>10, <2>11 DEF PllInv
<1>7. CASE Pll!Leave(FALSE)
  <2>1. synced' => Quiet' /\ sts'.seq = 0
    BY <1>1 DEF Quiet
  <2> QED BY <1>1, <1>7, <2>1, LeaveKeeps
<1> QED BY <1>6, <1>7 DEF Pll!Reset

\* Nothing was stored yet, and the machine shows number zero.
LEMMA PllInit == ASSUME Pll!Init PROVE PllInv
<1>1. /\ want = [u \in Users |-> NONE] /\ pllMutex = NONE /\ todo = <<>>
      /\ waiting = FALSE /\ store = FALSE /\ done = NONE /\ synced = TRUE
      /\ cmd = NONE /\ sts.seq = 0 /\ pll = [a \in Pll!Registers |-> OLD]
  BY DEF Pll!Init
<1>2. <<>> \in Seq(Items) /\ \A i \in 1 .. Len(<<>>) : FALSE
  <2>1. Len(<<>>) = 0 /\ \A i \in 1 .. 0 : FALSE
    BY SMT
  <2> QED BY <2>1, SMT
<1>3. PllTypes
  BY <1>1, <1>2 DEF PllTypes
<1>4. ~Storing
  BY <1>1 DEF Storing
<1> QED BY <1>1, <1>2, <1>3, <1>4 DEF PllInv, RestInv, SuffixInv, HandshakeInv,
              ContentInv, Quiet, Pll!StoreApplied

\* Every step of the clock's driver and of the machine.
LEMMA PllKeeps == ASSUME PllInv, Pll!Next PROVE PllInv'
<1>1. CASE Pll!HwAccess
  BY <1>1, HwAccessKeeps
<1>2. CASE Pll!Driver
  BY <1>2, IssueKeeps, AckKeeps, TimeoutKeeps, ResetKeeps, MeasureKeeps,
     ReturnKeeps DEF Pll!Driver
<1>3. CASE Pll!Probe \/ Pll!RemoveDriver
  BY <1>3, PllSame DEF Pll!Probe, Pll!RemoveDriver, Pll!drvVars, Pll!hwVars
<1>4. ASSUME NEW u \in Users, Pll!Lock(u) PROVE PllInv'
  BY <1>4, LockKeeps
<1>5. ASSUME NEW u \in Users, NEW c \in Pll!Calls, Pll!Call(u, c) PROVE PllInv'
  BY <1>5, CallKeeps
<1> QED BY <1>1, <1>2, <1>3, <1>4, <1>5 DEF Pll!Next

\* The invariant of the clock's part; the BMC's steps leave it alone.
LEMMA PllAlways == Spec => []PllInv
<1>1. Init => PllInv
  BY PllInit DEF Init
<1>2. PllInv /\ [Next]_vars => PllInv'
  <2> SUFFICES ASSUME PllInv, [Next]_vars PROVE PllInv'
    OBVIOUS
  <2>1. CASE UNCHANGED pllVars
    BY <2>1, PllSame DEF pllVars
  <2>2. CASE Pll!Next
    BY <2>2, PllKeeps
  <2> QED BY <2>1, <2>2 DEF Next, PllNext, vars
<1> QED BY <1>1, <1>2, PTL DEF Spec

\* A store of a frequency that returns success (frequency_store) has written
\* every register of the PLL and reset the PLL with them, if no access was
\* left unacknowledged when it began, for every number of threads, whatever
\* they call and however late the machine is.
THEOREM StoresAlwaysApplied == Spec => []StoreApplied
<1>1. PllInv => StoreApplied
  BY DEF PllInv, StoreApplied
<1> QED BY <1>1, PllAlways, PTL

-----------------------------------------------------------------------------
(* The BMC, where it is never too late: s is the setup.                    *)

Recs(s) == Len(s.lens)
Byte == Nat \X Nat

\* The first n bytes of record i are in place.
Upto(s, i, n) == \A j \in 1 .. s.lens[i] : j <= n => sdrs[i][j] = <<i, j>>
Whole(s, i)   == Upto(s, i, s.lens[i])

\* The bytes of a record that request q asks for.
Chunk(s, q) ==
    SubSeq(Bmc(s)!Record(q.rec), q.off + 1,
           IF q.off + q.cnt < s.lens[q.rec] THEN q.off + q.cnt ELSE s.lens[q.rec])

\* What a response to request q says, as far as the driver uses it.
Right(s, rsp, q) ==
    /\ rsp.q = q
    /\ q.k = "sdr" /\ rsp.ccode = 0 => rsp.data = Chunk(s, q)
    /\ q.k = "count" => rsp.data = << <<0, Recs(s)>> >>

\* An exchange: the request is written, the BMC works on it, it has written
\* the message and the low byte of its count, and all of it.
Asked   == /\ rcount = 1 /\ request = tx.req /\ bmc = NONE /\ lo = 0 /\ hi = 0
           /\ tx.at = "clear"
Working == rcount = 0 /\ bmc = [q |-> tx.req, at |-> "work"] /\ lo = 0 /\ hi = 0
Counting(s) ==
    /\ rcount = 0 /\ bmc = [q |-> tx.req, at |-> "count"] /\ bmc # NONE
    /\ Right(s, response, tx.req) /\ lo = Bmc(s)!AnswerLen(tx.req) % Base /\ hi = 0
Ready(s) ==
    /\ rcount = 0 /\ bmc = NONE /\ Right(s, response, tx.req)
    /\ lo = Bmc(s)!AnswerLen(tx.req) % Base
    /\ hi = Bmc(s)!AnswerLen(tx.req) \div Base

\* What avmmi_send_one has seen of it: a count that is not zero comes from
\* the answer, and one read twice is the whole count.
Seen(s) ==
    /\ tx.at = "clear" => tx.last = 0
    /\ tx.last # 0 => Counting(s) \/ Ready(s)
    /\ tx.at = "high" => /\ tx.low = 0 \/ Counting(s) \/ Ready(s)
                         /\ tx.last # 0 => Ready(s) /\ tx.low = lo
    /\ tx.at = "read" => Ready(s) /\ tx.low = Bmc(s)!AnswerLen(tx.req)

\* Request q is what operation o sends.
SentFor(o, q) ==
    /\ o.name = "sdr" => q = [k |-> "sdr", rec |-> o.rec, off |-> o.off, cnt |-> o.cnt]
    /\ o.name = "probe" => q.k = o.stage

BusInv(s) ==
    /\ mutex = NONE => /\ rcount = 0 /\ bmc = NONE /\ lo = 0 /\ hi = 0
                       /\ tx = NONE
    /\ mutex # NONE =>
         /\ op[mutex] # NONE /\ reply[mutex] = NONE
         /\ tx = [at |-> tx.at, polls |-> tx.polls, last |-> tx.last,
                  low |-> tx.low, req |-> tx.req]
         /\ tx.at \in {"clear", "low", "high", "read"} /\ tx.req \in Requests
         /\ Asked \/ Working \/ Counting(s) \/ Ready(s)
         /\ Seen(s) /\ SentFor(op[mutex], tx.req)

ReplyInv(s) ==
    \A t \in Bmc(s)!All : reply[t] # NONE =>
        /\ op[t] # NONE /\ SentFor(op[t], reply[t].req)
        /\ Right(s, reply[t].rsp, reply[t].req)
        /\ reply[t].count = Bmc(s)!AnswerLen(reply[t].req)

\* Fetching record i: those before it are whole, and k chunks of it are in
\* place.  What is left is known from the header in the first chunk.
Fetching(s, o) ==
    /\ o = [name |-> "sdr", i |-> o.i, rec |-> o.i, k |-> o.k, off |-> o.off,
            cnt |-> o.cnt, left |-> o.left, then |-> o.then]
    /\ o.i \in 1 .. num_sdr /\ o.k \in Nat /\ o.off = o.k * SDR_CHUNK_SIZE
    /\ IF o.k = 0 THEN o.cnt = SDR_CHUNK_SIZE
       ELSE /\ o.left \in Nat /\ o.left > 0 /\ o.off + o.left = s.lens[o.i]
            /\ o.cnt = IF SDR_CHUNK_SIZE > o.left THEN o.left ELSE SDR_CHUNK_SIZE
    /\ \A i \in 1 .. num_sdr : i < o.i => Whole(s, i)
    /\ Upto(s, o.i, o.off)

OpInv(s, t) ==
    op[t] # NONE =>
        /\ op[t].name \in {"xact", "sensors", "sdr", "probe"}
        /\ op[t].name = "xact" => op[t].n \in Nat
        /\ op[t].name = "sensors" =>
             op[t] = [name |-> "sensors", i |-> op[t].i] /\ op[t].i \in 1 .. num_sdr
        /\ op[t].name = "sdr" => Fetching(s, op[t])
        /\ op[t].name = "probe" =>
             /\ t = PROBE /\ num_sdr = 0
             /\ op[t] = [name |-> "probe", stage |-> op[t].stage,
                         jumped |-> op[t].jumped]
             /\ op[t].stage \in {"version", "jump", "count"}

\* The driver has no room for the records; otherwise a byte of a record is the
\* BMC's or a zero.
Bare == life \in {"bare", "oops"}
Clean(s, i) == \A j \in 1 .. s.lens[i] : sdrs[i][j] \in {<<0, 0>>, <<i, j>>}
Room(s) ==
    /\ DOMAIN sdrs = 1 .. num_sdr
    /\ \A i \in 1 .. num_sdr : sdrs[i] \in Seq(Byte) /\ Clean(s, i)
                               /\ Len(sdrs[i]) = SdrSize + SDR_CHUNK_SIZE

\* The thread has ended a fetch, in which it read record i; it has to do with
\* the records.
Fetched(t) == result[t] # NONE /\ result[t].op.name = "sdr"
HasRead(t, i) == result[t].read \/ i < result[t].op.i
Uses(t) == Fetched(t) \/ (op[t] # NONE /\ op[t].name # "xact")

SdrInv(s) ==
    /\ num_sdr \in {0, Recs(s)} /\ (~Bare => Room(s))
    /\ life = "none" => op[PROBE] = NONE /\ num_sdr = 0
    /\ \A t \in Bmc(s)!All : Uses(t) => ~Bare
    /\ \A t \in Bmc(s)!All : Fetched(t) =>
         /\ num_sdr # 0
         /\ \A i \in 1 .. num_sdr : HasRead(t, i) => Whole(s, i)

BmcTypes(s) ==
    /\ op = [t \in Bmc(s)!All |-> op[t]] /\ reply = [t \in Bmc(s)!All |-> reply[t]]
    /\ result = [t \in Bmc(s)!All |-> result[t]]
    /\ mutex \in Bmc(s)!All \cup {NONE} /\ calls \in Nat

MailInv(s) == /\ BmcTypes(s) /\ BusInv(s) /\ ReplyInv(s) /\ SdrInv(s)
              /\ \A t \in Bmc(s)!All : OpInv(s, t)

BmcInv == \A s \in BmcSetups : part = <<"bmc", s>> /\ ~s.late => MailInv(s)

\* What is assumed of a setup.
LEMMA SetupFacts ==
    ASSUME NEW s \in BmcSetups
    PROVE  /\ Len(s.lens) \in Nat /\ s.lens \in Seq(1 .. SdrSize)
           /\ \A i \in 1 .. Len(s.lens) : s.lens[i] \in Nat /\ s.lens[i] > 0
                                          /\ s.lens[i] <= SdrSize
           /\ SdrSize \in Nat /\ SDR_CHUNK_SIZE \in Nat /\ SDR_CHUNK_SIZE > 0
           /\ 0 \in Nat
<1>1. s.lens \in Seq(1 .. SdrSize) /\ SdrSize \in Nat /\ SDR_CHUNK_SIZE \in Nat \ {0}
  BY BoardAssumption
<1>2. Len(s.lens) \in Nat /\ \A i \in 1 .. Len(s.lens) : s.lens[i] \in 1 .. SdrSize
  BY <1>1, SeqFacts
<1>3. \A l \in 1 .. SdrSize : l \in Nat /\ l > 0 /\ l <= SdrSize
  BY <1>1, SMT
<1>4. SDR_CHUNK_SIZE \in Nat /\ SDR_CHUNK_SIZE > 0 /\ 0 \in Nat
  BY <1>1, SMT
<1> QED BY <1>1, <1>2, <1>3, <1>4

\* The two bytes of a count make the count.
LEMMA CountBytes ==
    ASSUME NEW s, NEW q
    PROVE  LET n == Bmc(s)!AnswerLen(q) IN (n % Base) + Base * (n \div Base) = n
<1>1. Base \in Nat /\ Base > 1
  BY BoardAssumption
<1>2. Bmc(s)!AnswerLen(q) \in Nat
  BY <1>1, SMT DEF Bmc!AnswerLen
<1>3. \A n \in Nat : (n % Base) + Base * (n \div Base) = n
  BY <1>1, SMT
<1> QED BY <1>2, <1>3

\* The BMC answers what it was asked.
LEMMA AnswerRight ==
    ASSUME NEW s, NEW q, NEW c, NEW r, r = Bmc(s)!Answer(q, c)
    PROVE  Right(s, r, q)
<1>1. r.q = q /\ r.ccode = c
  BY DEF Bmc!Answer
<1>2. ASSUME q.k = "sdr", r.ccode = 0 PROVE r.data = Chunk(s, q)
  BY <1>1, <1>2 DEF Bmc!Answer, Chunk
<1>3. ASSUME q.k = "count" PROVE r.data = << <<0, Recs(s)>> >>
  BY <1>3, SMT DEF Bmc!Answer, Recs, Bmc!NumRecords
<1> QED BY <1>1, <1>2, <1>3 DEF Right

\* Steps that leave the operations and the records alone.
LEMMA OpsSame ==
    ASSUME NEW s \in BmcSetups, MailInv(s),
           UNCHANGED <<op, sdrs, num_sdr, result, life>>
    PROVE  SdrInv(s)' /\ \A t \in Bmc(s)!All : OpInv(s, t)'
<1>1. \A t \in Bmc(s)!All : OpInv(s, t)'
  BY DEF MailInv, OpInv, Fetching, Whole, Upto
<1>2. SdrInv(s)'
  <2>1. (Bare' <=> Bare) /\ (Room(s)' <=> Room(s))
    BY DEF Bare, Room, Clean
  <2>2. \A t : (Uses(t)' <=> Uses(t)) /\ (Fetched(t)' <=> Fetched(t))
    BY DEF Uses, Fetched
  <2>3. \A t, i : (HasRead(t, i)' <=> HasRead(t, i)) /\ (Whole(s, i)' <=> Whole(s, i))
    BY DEF HasRead, Whole, Upto
  <2> QED BY <2>1, <2>2, <2>3 DEF MailInv, SdrInv
<1> QED BY <1>1, <1>2

\* Steps of the exchange.
LEMMA ExchangeSteps ==
    ASSUME NEW s \in BmcSetups, MailInv(s), BusInv(s)',
           UNCHANGED <<op, sdrs, num_sdr, result, life, reply, mutex, calls>>
    PROVE  MailInv(s)'
<1>1. SdrInv(s)' /\ \A t \in Bmc(s)!All : OpInv(s, t)'
  BY OpsSame
<1>2. BmcTypes(s)'
  BY DEF MailInv, BmcTypes
<1>3. ReplyInv(s)'
  BY DEF MailInv, ReplyInv
<1> QED BY <1>1, <1>2, <1>3 DEF MailInv

\* The BMC takes a request only when one was written.
LEMMA TakeKeeps ==
    ASSUME NEW s \in BmcSetups, MailInv(s), Bmc(s)!BmcTake PROVE MailInv(s)'
<1>1. /\ rcount # 0 /\ bmc' = [q |-> request, at |-> "work"] /\ rcount' = 0
      /\ UNCHANGED <<op, sdrs, num_sdr, result, life, reply, mutex, calls, tx,
                     response, lo, hi>>
  BY DEF Bmc!BmcTake, Bmc!drvVars
<1>2. mutex # NONE
  BY <1>1 DEF MailInv, BusInv
<1>3. Asked /\ Seen(s)
  BY <1>1, <1>2 DEF MailInv, BusInv, Working, Counting, Ready
<1>4. Working'
  BY <1>1, <1>3 DEF Asked, Working
<1>5. Seen(s)'
  BY <1>1, <1>3 DEF Seen, Asked
<1>6. BusInv(s)'
  BY <1>1, <1>2, <1>4, <1>5 DEF MailInv, BusInv
<1> QED BY <1>1, <1>6, ExchangeSteps

\* What the BMC does tells how far the exchange is.
LEMMA Stages ==
    ASSUME NEW s
    PROVE  /\ Working => bmc.at = "work"
           /\ Counting(s) => bmc.at = "count"
           /\ Asked \/ Ready(s) => bmc = NONE
           /\ "work" # "count"
<1>1. Working => bmc.at = "work"
  BY SMT DEF Working
<1>2. Counting(s) => bmc.at = "count"
  BY SMT DEF Counting
<1>3. Asked \/ Ready(s) => bmc = NONE
  BY DEF Asked, Ready
<1>4. "work" # "count"
  OBVIOUS
<1> QED BY <1>1, <1>2, <1>3, <1>4

\* It answers the request of this exchange.
LEMMA AnswerKeeps ==
    ASSUME NEW s \in BmcSetups, MailInv(s), Bmc(s)!BmcAnswer PROVE MailInv(s)'
<1> PICK c : response' = Bmc(s)!Answer(bmc.q, c)
  BY DEF Bmc!BmcAnswer
<1>1. /\ bmc # NONE /\ bmc.at = "work"
      /\ lo' = Bmc(s)!AnswerLen(bmc.q) % Base
      /\ bmc' = [bmc EXCEPT !.at = "count"]
      /\ UNCHANGED <<op, sdrs, num_sdr, result, life, reply, mutex, calls, tx,
                     rcount, hi>>
  BY DEF Bmc!BmcAnswer, Bmc!drvVars
<1>2. mutex # NONE
  BY <1>1 DEF MailInv, BusInv
<1>3. Working /\ Seen(s) /\ tx.req \in Requests
  BY <1>1, <1>2, Stages DEF MailInv, BusInv
<1>4. bmc.q = tx.req
  BY <1>3 DEF Working
<1>5. Right(s, response', tx.req)
  BY <1>4, AnswerRight
<1>6. bmc' = [q |-> tx.req, at |-> "count"] /\ bmc' # NONE
  <2>1. bmc' = [q |-> tx.req, at |-> "count"]
    BY <1>1, <1>3 DEF Working
  <2>2. bmc' \in [q : Requests, at : {"count"}]
    BY <1>3, <2>1
  <2> QED BY <2>1, <2>2, BoardAssumption
<1>7. Counting(s)'
  BY <1>1, <1>3, <1>4, <1>5, <1>6 DEF Working, Counting, Right, Chunk
<1>8. Seen(s)'
  <2>1. ~Counting(s) /\ ~Ready(s)
    BY <1>1, Stages
  <2> QED BY <1>1, <1>3, <1>7, <2>1 DEF Seen
<1>9. BusInv(s)'
  BY <1>1, <1>2, <1>7, <1>8 DEF MailInv, BusInv
<1> QED BY <1>1, <1>9, ExchangeSteps

\* With the high byte the count is whole.
LEMMA CountedKeeps ==
    ASSUME NEW s \in BmcSetups, MailInv(s), Bmc(s)!BmcCounted PROVE MailInv(s)'
<1>1. /\ bmc # NONE /\ bmc.at = "count" /\ bmc' = NONE
      /\ hi' = Bmc(s)!AnswerLen(bmc.q) \div Base
      /\ UNCHANGED <<op, sdrs, num_sdr, result, life, reply, mutex, calls, tx,
                     rcount, response, lo>>
  BY DEF Bmc!BmcCounted, Bmc!drvVars
<1>2. mutex # NONE
  BY <1>1 DEF MailInv, BusInv
<1>3. Counting(s) /\ Seen(s)
  BY <1>1, <1>2, Stages DEF MailInv, BusInv
<1>4. bmc.q = tx.req
  BY <1>3 DEF Counting
<1>5. Ready(s)'
  BY <1>1, <1>3, <1>4 DEF Counting, Ready, Right, Chunk
<1>6. Seen(s)'
  <2>1. ~Ready(s)
    BY <1>1 DEF Ready
  <2> QED BY <1>1, <1>3, <1>5, <2>1 DEF Seen
<1>7. BusInv(s)'
  BY <1>1, <1>2, <1>5, <1>6 DEF MailInv, BusInv
<1> QED BY <1>1, <1>7, ExchangeSteps

\* A poll changes no more than what the driver knows of the exchange.
LEMMA SameStage ==
    ASSUME NEW s, tx'.req = tx.req, UNCHANGED <<rcount, response, lo, hi, bmc>>
    PROVE  (Working' <=> Working) /\ (Counting(s)' <=> Counting(s))
           /\ (Ready(s)' <=> Ready(s))
<1>1. Working' <=> Working
  BY DEF Working
<1>2. Counting(s)' <=> Counting(s)
  BY DEF Counting, Right, Chunk
<1>3. Ready(s)' <=> Ready(s)
  BY DEF Ready, Right, Chunk
<1> QED BY <1>1, <1>2, <1>3

\* A poll keeps the invariant if what it has seen is so.
LEMMA PollKeeps ==
    ASSUME NEW s \in BmcSetups, MailInv(s), mutex # NONE,
           UNCHANGED <<op, sdrs, num_sdr, result, life, reply, mutex, calls,
                       request, rcount, response, lo, hi, bmc>>,
           NEW a \in {"clear", "low", "high", "read"}, NEW p, NEW l, NEW w,
           tx' = [at |-> a, polls |-> p, last |-> l, low |-> w, req |-> tx.req],
           Asked => a = "clear", Seen(s)'
    PROVE  MailInv(s)'
<1>1. /\ tx'.at = a /\ tx'.polls = p /\ tx'.last = l /\ tx'.low = w
      /\ tx'.req = tx.req
  OBVIOUS
<1>2. Asked => Asked'
  BY <1>1 DEF Asked
<1>3. Asked' \/ Working' \/ Counting(s)' \/ Ready(s)'
  BY <1>1, <1>2, SameStage DEF MailInv, BusInv
<1>4. BusInv(s)'
  BY <1>1, <1>3 DEF MailInv, BusInv
<1> QED BY <1>4, ExchangeSteps

\* The driver goes on to the response when its request is taken.
LEMMA PollClearedKeeps ==
    ASSUME NEW s \in BmcSetups, MailInv(s), Bmc(s)!PollCleared PROVE MailInv(s)'
<1>1. /\ tx # NONE /\ tx.at = "clear"
      /\ tx' = IF rcount = 0 THEN [tx EXCEPT !.at = "low", !.polls = 0]
               ELSE [tx EXCEPT !.polls = @ + 1]
      /\ UNCHANGED <<op, sdrs, num_sdr, result, life, reply, mutex, calls,
                     request, rcount, response, lo, hi, bmc>>
  BY DEF Bmc!PollCleared, Bmc!drvVars, Bmc!memVars, Bmc!bmcVars
<1>2. mutex # NONE
  BY <1>1 DEF MailInv, BusInv
<1>3. /\ tx = [at |-> tx.at, polls |-> tx.polls, last |-> tx.last,
               low |-> tx.low, req |-> tx.req]
      /\ Seen(s)
  BY <1>2 DEF MailInv, BusInv
<1>4. tx.last = 0
  BY <1>1, <1>3 DEF Seen
<1>5. CASE rcount = 0
  <2>1. tx' = [at |-> "low", polls |-> 0, last |-> tx.last, low |-> tx.low,
               req |-> tx.req]
    BY <1>1, <1>3, <1>5
  <2>2. tx'.at = "low" /\ tx'.last = 0
    BY <1>4, <2>1
  <2>3. Seen(s)'
    BY <2>2 DEF Seen
  <2>4. 0 # 1
    BY SMT
  <2>5. ~Asked
    BY <1>5, <2>4 DEF Asked
  <2> QED BY <1>1, <1>2, <2>1, <2>3, <2>5, PollKeeps
<1>6. CASE rcount # 0
  <2>1. tx' = [at |-> "clear", polls |-> tx.polls + 1, last |-> tx.last,
               low |-> tx.low, req |-> tx.req]
    BY <1>1, <1>3, <1>6
  <2>2. tx'.at = "clear" /\ tx'.last = 0
    BY <1>4, <2>1
  <2>3. Seen(s)'
    BY <2>2 DEF Seen
  <2> QED BY <1>1, <1>2, <2>1, <2>3, PollKeeps
<1> QED BY <1>5, <1>6

\* The low byte, read after a count that was not zero: the BMC has written
\* both bytes since.
LEMMA ReadLowKeeps ==
    ASSUME NEW s \in BmcSetups, MailInv(s), Bmc(s)!ReadLow PROVE MailInv(s)'
<1>1. /\ tx # NONE /\ tx.at = "low"
      /\ ~(tx.last # 0 /\ bmc # NONE /\ bmc.at = "count")
      /\ tx' = [tx EXCEPT !.at = "high", !.low = lo]
      /\ UNCHANGED <<op, sdrs, num_sdr, result, life, reply, mutex, calls,
                     request, rcount, response, lo, hi, bmc>>
  BY DEF Bmc!ReadLow, Bmc!drvVars, Bmc!memVars, Bmc!bmcVars
<1>2. mutex # NONE
  BY <1>1 DEF MailInv, BusInv
<1>3. /\ tx = [at |-> tx.at, polls |-> tx.polls, last |-> tx.last,
               low |-> tx.low, req |-> tx.req]
      /\ Seen(s) /\ (Asked \/ Working \/ Counting(s) \/ Ready(s))
  BY <1>2 DEF MailInv, BusInv
<1>4. tx' = [at |-> "high", polls |-> tx.polls, last |-> tx.last, low |-> lo,
             req |-> tx.req]
  BY <1>1, <1>3
<1>5. ~Asked
  BY <1>1 DEF Asked
<1>6. tx'.at = "high" /\ tx'.last = tx.last /\ tx'.low = lo /\ tx'.req = tx.req
  BY <1>4
<1>7. lo = 0 \/ Counting(s) \/ Ready(s)
  BY <1>3, <1>5 DEF Working
<1>8. Counting(s) => bmc # NONE /\ bmc.at = "count"
  BY Stages DEF Counting
<1>9. tx.last # 0 => Ready(s)
  BY <1>1, <1>3, <1>8 DEF Seen
<1>10. Seen(s)'
  BY <1>1, <1>6, <1>7, <1>9, SameStage DEF Seen
<1> QED BY <1>1, <1>2, <1>4, <1>5, <1>10, PollKeeps

\* The count that is accepted was read twice, the second time when it was
\* whole.
LEMMA ReadHighKeeps ==
    ASSUME NEW s \in BmcSetups, MailInv(s), Bmc(s)!ReadHigh PROVE MailInv(s)'
<1> DEFINE count == tx.low + Base * hi
<1>1. /\ tx # NONE /\ tx.at = "high"
      /\ IF count # 0 /\ count = tx.last
         THEN tx' = [tx EXCEPT !.at = "read", !.low = count]
         ELSE tx' = [tx EXCEPT !.at = "low", !.last = count, !.polls = @ + 1]
      /\ UNCHANGED <<op, sdrs, num_sdr, result, life, reply, mutex, calls,
                     request, rcount, response, lo, hi, bmc>>
  BY DEF Bmc!ReadHigh, Bmc!SameCount, Bmc!drvVars, Bmc!memVars, Bmc!bmcVars
<1>2. mutex # NONE
  BY <1>1 DEF MailInv, BusInv
<1>3. /\ tx = [at |-> tx.at, polls |-> tx.polls, last |-> tx.last,
               low |-> tx.low, req |-> tx.req]
      /\ Seen(s) /\ (Asked \/ Working \/ Counting(s) \/ Ready(s))
  BY <1>2 DEF MailInv, BusInv
<1>4. ~Asked
  BY <1>1 DEF Asked
<1>5. Working /\ tx.low = 0 => count = 0
  <2>1. 0 + Base * 0 = 0
    BY BoardAssumption, SMT
  <2> QED BY <2>1 DEF Working
<1>6. tx.last # 0 => Ready(s) /\ count = Bmc(s)!AnswerLen(tx.req)
  <2> SUFFICES ASSUME tx.last # 0
               PROVE  Ready(s) /\ count = Bmc(s)!AnswerLen(tx.req)
    OBVIOUS
  <2>1. Ready(s) /\ tx.low = lo
    BY <1>1, <1>3 DEF Seen
  <2>2. /\ tx.low = Bmc(s)!AnswerLen(tx.req) % Base
        /\ hi = Bmc(s)!AnswerLen(tx.req) \div Base
    BY <2>1 DEF Ready
  <2> QED BY <2>1, <2>2, CountBytes
<1>7. count # 0 => Counting(s) \/ Ready(s)
  BY <1>1, <1>3, <1>4, <1>5 DEF Seen
<1> HIDE DEF count
<1>8. CASE count # 0 /\ count = tx.last
  <2>1. tx' = [at |-> "read", polls |-> tx.polls, last |-> tx.last,
               low |-> count, req |-> tx.req]
    BY <1>1, <1>3, <1>8
  <2>2. tx'.at = "read" /\ tx'.low = count /\ tx'.req = tx.req
    BY <2>1
  <2>3. Ready(s)' /\ tx'.low = Bmc(s)!AnswerLen(tx'.req)
    BY <1>1, <1>6, <1>8, <2>2, SameStage
  <2>4. Bmc(s)!AnswerLen(tx'.req) = Bmc(s)!AnswerLen(tx.req)'
    BY DEF Bmc!AnswerLen
  <2>5. Seen(s)'
    BY <2>2, <2>3, <2>4 DEF Seen
  <2> QED BY <1>1, <1>2, <1>4, <2>1, <2>5, PollKeeps
<1>9. CASE ~(count # 0 /\ count = tx.last)
  <2>1. tx' = [at |-> "low", polls |-> tx.polls + 1, last |-> count,
               low |-> tx.low, req |-> tx.req]
    BY <1>1, <1>3, <1>9
  <2>2. tx'.at = "low" /\ tx'.last = count /\ tx'.req = tx.req
    BY <2>1
  <2>3. Seen(s)'
    BY <1>1, <1>7, <2>2, SameStage DEF Seen
  <2> QED BY <1>1, <1>2, <1>4, <2>1, <2>3, PollKeeps
<1> QED BY <1>8, <1>9

\* The response that is read is the answer to the request, and the mailbox is
\* empty when the mutex is given back.
LEMMA ReadResponseKeeps ==
    ASSUME NEW s \in BmcSetups, MailInv(s), Bmc(s)!ReadResponse PROVE MailInv(s)'
<1> PICK f : reply' = [reply EXCEPT ![mutex] =
                         [ok |-> f, count |-> tx.low, rsp |-> response, req |-> tx.req]]
  BY DEF Bmc!ReadResponse
<1>1. /\ tx # NONE /\ tx.at = "read"
      /\ lo' = 0 /\ hi' = 0 /\ mutex' = NONE /\ tx' = NONE
      /\ UNCHANGED <<op, sdrs, num_sdr, result, life, calls, rcount, bmc>>
  BY DEF Bmc!ReadResponse, Bmc!drvVars, Bmc!bmcVars
<1>2. mutex # NONE
  BY <1>1 DEF MailInv, BusInv
<1>3. /\ Ready(s) /\ tx.low = Bmc(s)!AnswerLen(tx.req)
      /\ op[mutex] # NONE /\ SentFor(op[mutex], tx.req)
  BY <1>1, <1>2 DEF MailInv, BusInv, Seen
<1>4. mutex \in Bmc(s)!All /\ reply = [t \in Bmc(s)!All |-> reply[t]]
  BY <1>2 DEF MailInv, BmcTypes
<1>5. BmcTypes(s)'
  BY <1>1, <1>4 DEF MailInv, BmcTypes
<1>6. BusInv(s)'
  BY <1>1, <1>3 DEF BusInv, Ready
<1>7. /\ reply'[mutex].rsp = response /\ reply'[mutex].req = tx.req
      /\ reply'[mutex].count = tx.low
      /\ \A t \in Bmc(s)!All : t # mutex => reply'[t] = reply[t]
  BY <1>4
<1>8. ReplyInv(s)'
  <2> SUFFICES ASSUME NEW t \in Bmc(s)!All, reply'[t] # NONE
               PROVE  /\ op'[t] # NONE /\ SentFor(op'[t], reply'[t].req)
                      /\ Right(s, reply'[t].rsp, reply'[t].req)
                      /\ reply'[t].count = Bmc(s)!AnswerLen(reply'[t].req)
    BY DEF ReplyInv, SentFor, Right, Chunk, Bmc!All, Bmc!AnswerLen, Bmc!Record
  <2>1. CASE t = mutex
    BY <1>1, <1>3, <1>7, <2>1 DEF Ready
  <2>2. CASE t # mutex
    BY <1>1, <1>7, <2>2 DEF MailInv, ReplyInv
  <2> QED BY <2>1, <2>2
<1>9. SdrInv(s)' /\ \A t \in Bmc(s)!All : OpInv(s, t)'
  BY <1>1, OpsSame
<1> QED BY <1>5, <1>6, <1>8, <1>9 DEF MailInv

\* The messages the BMC knows.
LEMMA RequestSets ==
    /\ \A n \in Nat : [k |-> "raw", n |-> n] \in Requests
    /\ \A b \in Byte : [k |-> "sensor", sdr |-> b] \in Requests
    /\ \A r, f, c \in Nat : [k |-> "sdr", rec |-> r, off |-> f, cnt |-> c] \in Requests
    /\ \A g \in {"version", "jump", "count"} : [k |-> g] \in Requests
  BY SMT DEF Requests, Byte

\* The numbers of a fetch.
LEMMA FetchTypes ==
    ASSUME NEW s \in BmcSetups, MailInv(s), NEW o, Fetching(s, o)
    PROVE  /\ o.rec = o.i /\ o.name = "sdr" /\ o.i \in Nat /\ o.k \in Nat
           /\ o.off \in Nat /\ o.cnt \in Nat /\ o.i \in 1 .. Len(s.lens)
           /\ num_sdr \in Nat /\ num_sdr = Len(s.lens)
           /\ o.i <= num_sdr
<1>1. o.rec = o.i /\ o.name = "sdr"
  <2>1. o = [name |-> "sdr", i |-> o.i, rec |-> o.i, k |-> o.k, off |-> o.off,
             cnt |-> o.cnt, left |-> o.left, then |-> o.then]
    BY DEF Fetching
  <2> QED BY <2>1, SMT
<1>2. num_sdr \in Nat /\ num_sdr \in {0, Len(s.lens)} /\ Len(s.lens) \in Nat
  BY SetupFacts DEF MailInv, SdrInv, Recs
<1>3. /\ o.i \in 1 .. num_sdr /\ o.k \in Nat /\ o.off = o.k * SDR_CHUNK_SIZE
      /\ SDR_CHUNK_SIZE \in Nat
      /\ IF o.k = 0 THEN o.cnt = SDR_CHUNK_SIZE
         ELSE /\ o.left \in Nat
              /\ o.cnt = IF SDR_CHUNK_SIZE > o.left THEN o.left ELSE SDR_CHUNK_SIZE
  BY SetupFacts DEF Fetching
<1>4. o.i \in Nat /\ num_sdr = Len(s.lens) /\ o.i <= num_sdr
  BY <1>2, <1>3, SMT
<1>5. \A a, b \in Nat : a * b \in Nat
  BY SMT
<1>6. o.off \in Nat /\ o.cnt \in Nat
  BY <1>3, <1>5
<1> QED BY <1>1, <1>2, <1>3, <1>4, <1>6

\* A request is one of the messages the BMC knows.
LEMMA RequestOf ==
    ASSUME NEW s \in BmcSetups, MailInv(s), NEW t \in Bmc(s)!All, op[t] # NONE
    PROVE  /\ Bmc(s)!NextRequest(t) \in Requests
           /\ SentFor(op[t], Bmc(s)!NextRequest(t))
<1> SUFFICES ASSUME NEW o, o = op[t], NEW q, q = Bmc(s)!NextRequest(t)
             PROVE  q \in Requests /\ SentFor(o, q)
  OBVIOUS
<1>1. /\ o.name \in {"xact", "sensors", "sdr", "probe"}
      /\ o.name = "xact" => o.n \in Nat
      /\ o.name = "sensors" => o.i \in 1 .. num_sdr
      /\ o.name = "sdr" => Fetching(s, o)
      /\ o.name = "probe" => o.stage \in {"version", "jump", "count"}
  BY DEF MailInv, OpInv
<1>q. q = CASE o.name = "xact" -> [k |-> "raw", n |-> o.n]
            [] o.name = "sensors" -> [k |-> "sensor", sdr |-> sdrs[o.i][1]]
            [] o.name = "sdr" -> [k |-> "sdr", rec |-> o.rec, off |-> o.off,
                                  cnt |-> o.cnt]
            [] o.name = "probe" -> [k |-> o.stage]
  BY DEF Bmc!NextRequest
<1>2. CASE o.name = "xact"
  <2>1. q = [k |-> "raw", n |-> o.n]
    BY <1>q, <1>2, SMT
  <2> QED BY <1>1, <1>2, <2>1, RequestSets DEF SentFor
<1>3. CASE o.name = "sensors"
  <2>1. q = [k |-> "sensor", sdr |-> sdrs[o.i][1]]
    BY <1>q, <1>3, SMT
  <2>2. sdrs[o.i] \in Seq(Byte) /\ Len(sdrs[o.i]) = SdrSize + SDR_CHUNK_SIZE
    <3>1. Room(s)
      BY <1>3 DEF MailInv, SdrInv, Uses
    <3> QED BY <1>1, <1>3, <3>1 DEF Room
  <2>3. 1 \in 1 .. SdrSize + SDR_CHUNK_SIZE
    BY BoardAssumption, SMT
  <2>4. sdrs[o.i][1] \in Byte
    BY <2>2, <2>3, SeqFacts
  <2> QED BY <1>3, <2>1, <2>4, RequestSets DEF SentFor
<1>4. CASE o.name = "sdr"
  <2>1. q = [k |-> "sdr", rec |-> o.rec, off |-> o.off, cnt |-> o.cnt]
    BY <1>q, <1>4, SMT
  <2>2. o.rec = o.i /\ o.i \in Nat /\ o.off \in Nat /\ o.cnt \in Nat
    BY <1>1, <1>4, FetchTypes
  <2> QED BY <1>4, <2>1, <2>2, RequestSets DEF SentFor
<1>5. CASE o.name = "probe"
  <2>1. q = [k |-> o.stage]
    BY <1>q, <1>5, SMT
  <2>2. q.k = o.stage
    BY <2>1, SMT
  <2> QED BY <1>1, <1>5, <2>1, <2>2, RequestSets DEF SentFor
<1> QED BY <1>1, <1>2, <1>3, <1>4, <1>5

\* The next holder finds the mailbox empty.
LEMMA SendBeginKeeps ==
    ASSUME NEW s \in BmcSetups, MailInv(s), NEW t \in Bmc(s)!All, Bmc(s)!SendBegin(t)
    PROVE  MailInv(s)'
<1>1. /\ op[t] # NONE /\ reply[t] = NONE /\ mutex = NONE /\ mutex' = t
      /\ request' = Bmc(s)!NextRequest(t) /\ rcount' = 1
      /\ tx' = [at |-> "clear", polls |-> 0, last |-> 0, low |-> 0,
                req |-> Bmc(s)!NextRequest(t)]
      /\ UNCHANGED <<op, sdrs, num_sdr, result, life, calls, reply, lo, hi, bmc>>
  BY DEF Bmc!SendBegin, Bmc!drvVars, Bmc!bmcVars
<1>2. rcount = 0 /\ bmc = NONE /\ lo = 0 /\ hi = 0
  BY <1>1 DEF MailInv, BusInv
<1>3. /\ Bmc(s)!NextRequest(t) \in Requests
      /\ SentFor(op[t], Bmc(s)!NextRequest(t))
  BY <1>1, RequestOf
<1>4. /\ tx'.at = "clear" /\ tx'.polls = 0 /\ tx'.last = 0 /\ tx'.low = 0
      /\ tx'.req = Bmc(s)!NextRequest(t)
  BY <1>1
<1>5. Asked'
  BY <1>1, <1>2, <1>4 DEF Asked
<1>6. Seen(s)'
  BY <1>4 DEF Seen
<1>7. t # NONE
  BY BoardAssumption DEF Bmc!All
<1>8. BusInv(s)'
  <2>1. SentFor(op[mutex], tx.req)'
    BY <1>1, <1>3, <1>4
  <2> QED BY <1>1, <1>3, <1>4, <1>5, <1>6, <1>7, <2>1 DEF BusInv
<1>9. BmcTypes(s)'
  BY <1>1 DEF MailInv, BmcTypes
<1>10. ReplyInv(s)'
  BY <1>1 DEF MailInv, ReplyInv
<1>11. SdrInv(s)' /\ \A u \in Bmc(s)!All : OpInv(s, u)'
  BY <1>1, OpsSame
<1> QED BY <1>8, <1>9, <1>10, <1>11 DEF MailInv

\* A thread that does not hold the mutex goes on to operation o.
LEMMA ThreadStep ==
    ASSUME NEW s \in BmcSetups, MailInv(s), NEW t \in Bmc(s)!All, t # mutex, NEW o,
           op' = [op EXCEPT ![t] = o], reply' = [reply EXCEPT ![t] = NONE],
           result' = [u \in Bmc(s)!All |-> result'[u]], calls' \in Nat,
           UNCHANGED <<mutex, tx, request, rcount, response, lo, hi, bmc>>
    PROVE  /\ BmcTypes(s)' /\ BusInv(s)' /\ ReplyInv(s)'
           /\ op'[t] = o /\ \A u \in Bmc(s)!All : u # t => op'[u] = op[u]
<1>1. /\ op = [u \in Bmc(s)!All |-> op[u]] /\ reply = [u \in Bmc(s)!All |-> reply[u]]
      /\ mutex \in Bmc(s)!All \cup {NONE}
  BY DEF MailInv, BmcTypes
<1>2. BmcTypes(s)'
  BY <1>1 DEF BmcTypes
<1>3. op'[t] = o /\ reply'[t] = NONE
      /\ \A u \in Bmc(s)!All : u # t => op'[u] = op[u] /\ reply'[u] = reply[u]
  BY <1>1
<1>4. ReplyInv(s)'
  <2> SUFFICES ASSUME NEW u \in Bmc(s)!All, reply'[u] # NONE
               PROVE  /\ op'[u] # NONE /\ SentFor(op'[u], reply'[u].req)
                      /\ Right(s, reply'[u].rsp, reply'[u].req)
                      /\ reply'[u].count = Bmc(s)!AnswerLen(reply'[u].req)
    BY DEF ReplyInv, SentFor, Right, Chunk, Bmc!All, Bmc!AnswerLen, Bmc!Record
  <2>1. reply'[u] = reply[u] /\ op'[u] = op[u]
    BY <1>3
  <2> QED BY <2>1 DEF MailInv, ReplyInv
<1>5. BusInv(s)'
  <2>1. mutex # NONE => op'[mutex] = op[mutex] /\ reply'[mutex] = reply[mutex]
    BY <1>1, <1>3
  <2>2. (Working' <=> Working) /\ (Counting(s)' <=> Counting(s))
        /\ (Ready(s)' <=> Ready(s))
    BY SameStage
  <2>3. Asked' <=> Asked
    BY DEF Asked
  <2>4. Seen(s)' <=> Seen(s)
    BY <2>2 DEF Seen
  <2> QED BY <2>1, <2>2, <2>3, <2>4 DEF MailInv, BusInv, SentFor
<1> QED BY <1>2, <1>3, <1>4, <1>5

\* The records and what the other threads do with them stay.
LEMMA OthersSame ==
    ASSUME NEW s \in BmcSetups, MailInv(s), NEW t \in Bmc(s)!All,
           \A u \in Bmc(s)!All : u # t => op'[u] = op[u],
           UNCHANGED <<sdrs, num_sdr>>
    PROVE  \A u \in Bmc(s)!All : u # t => OpInv(s, u)'
<1> SUFFICES ASSUME NEW u \in Bmc(s)!All, u # t PROVE OpInv(s, u)'
  OBVIOUS
<1>1. op'[u] = op[u] /\ OpInv(s, u)
  BY DEF MailInv
<1> QED BY <1>1 DEF OpInv, Fetching, Whole, Upto

\* Who has an answer does not hold the mutex.
LEMMA AnsweredFacts ==
    ASSUME NEW s \in BmcSetups, MailInv(s), NEW t \in Bmc(s)!All, Bmc(s)!Answered(t)
    PROVE  t # mutex /\ op[t] # NONE /\ reply[t] # NONE /\ OpInv(s, t)
           /\ t # NONE
<1>1. op[t] # NONE /\ reply[t] # NONE
  BY DEF Bmc!Answered
<1>2. t # NONE
  BY BoardAssumption DEF Bmc!All
<1> QED BY <1>1, <1>2 DEF MailInv, BusInv

\* The records stay, and nobody comes to use them who may not.
LEMMA RecordsSame ==
    ASSUME NEW s \in BmcSetups, MailInv(s), UNCHANGED <<sdrs, num_sdr>>,
           Bare' => Bare, life' # "none" \/ (life = "none" /\ op'[PROBE] = NONE),
           \A u \in Bmc(s)!All : Uses(u)' => ~Bare',
           \A u \in Bmc(s)!All : Fetched(u)' => Fetched(u) /\ result'[u] = result[u],
           Bare => Bare'
    PROVE  SdrInv(s)'
<1>1. Room(s)' <=> Room(s)
  BY DEF Room, Clean
<1>2. \A i : Whole(s, i)' <=> Whole(s, i)
  BY DEF Whole, Upto
<1>3. \A u \in Bmc(s)!All : \A i : Fetched(u)' => (HasRead(u, i)' <=> HasRead(u, i))
  BY DEF HasRead
<1> QED BY <1>1, <1>2, <1>3 DEF MailInv, SdrInv, Recs

\* An operation that ends without fetching records.
LEMMA OtherEnds ==
    ASSUME NEW s \in BmcSetups, MailInv(s), NEW t \in Bmc(s)!All, NEW r,
           Bmc(s)!Answered(t), Bmc(s)!Return(t, r), r.op.name # "sdr",
           reply' = [reply EXCEPT ![t] = NONE],
           UNCHANGED <<life, mutex, tx, sdrs, num_sdr, calls, request, rcount,
                       response, lo, hi, bmc>>
    PROVE  MailInv(s)'
<1>1. op' = [op EXCEPT ![t] = NONE] /\ result' = [result EXCEPT ![t] = r]
  BY DEF Bmc!Return
<1>2. result = [u \in Bmc(s)!All |-> result[u]] /\ calls \in Nat
  BY DEF MailInv, BmcTypes
<1>3. result' = [u \in Bmc(s)!All |-> result'[u]] /\ result'[t] = r
      /\ \A u \in Bmc(s)!All : u # t => result'[u] = result[u]
  BY <1>1, <1>2
<1>4. /\ BmcTypes(s)' /\ BusInv(s)' /\ ReplyInv(s)'
      /\ op'[t] = NONE /\ \A u \in Bmc(s)!All : u # t => op'[u] = op[u]
  BY <1>1, <1>2, <1>3, AnsweredFacts, ThreadStep
<1>5. \A u \in Bmc(s)!All : OpInv(s, u)'
  <2>1. \A u \in Bmc(s)!All : u # t => OpInv(s, u)'
    BY <1>4, OthersSame
  <2>2. OpInv(s, t)'
    BY <1>4 DEF OpInv
  <2> QED BY <2>1, <2>2
<1>6. \A u \in Bmc(s)!All : /\ Fetched(u)' => Fetched(u) /\ result'[u] = result[u]
                            /\ Uses(u)' => Uses(u)
  <2>1. ~Fetched(t)' /\ ~Uses(t)'
    BY <1>3, <1>4 DEF Fetched, Uses
  <2> QED BY <1>3, <1>4, <2>1 DEF Fetched, Uses
<1>7. PROBE \in Bmc(s)!All /\ (op[PROBE] = NONE => op'[PROBE] = NONE)
  BY <1>4 DEF Bmc!All
<1>8. SdrInv(s)'
  <2>1. Bare' <=> Bare
    BY DEF Bare
  <2>2. life' # "none" \/ (life = "none" /\ op'[PROBE] = NONE)
    BY <1>7 DEF MailInv, SdrInv
  <2>3. \A u \in Bmc(s)!All : Uses(u)' => ~Bare'
    BY <1>6, <2>1 DEF MailInv, SdrInv
  <2> QED BY <1>6, <2>1, <2>2, <2>3, RecordsSame
<1> QED BY <1>4, <1>5, <1>8 DEF MailInv

\* A message has its answer.
LEMMA XactEndKeeps ==
    ASSUME NEW s \in BmcSetups, MailInv(s), NEW t \in Bmc(s)!All, Bmc(s)!XactEnd(t)
    PROVE  MailInv(s)'
<1>1. PICK r : /\ Bmc(s)!Answered(t) /\ Bmc(s)!Return(t, r) /\ r.op = op[t]
               /\ op[t].name = "xact"
  BY DEF Bmc!XactEnd
<1>2. /\ reply' = [reply EXCEPT ![t] = NONE]
      /\ UNCHANGED <<life, mutex, tx, sdrs, num_sdr, calls, request, rcount,
                     response, lo, hi, bmc>>
  BY DEF Bmc!XactEnd, Bmc!memVars, Bmc!bmcVars
<1> QED BY <1>1, <1>2, OtherEnds

\* A sensor was read; the next, or the end.
LEMMA SensorEndKeeps ==
    ASSUME NEW s \in BmcSetups, MailInv(s), NEW t \in Bmc(s)!All, Bmc(s)!SensorEnd(t)
    PROVE  MailInv(s)'
<1>1. /\ Bmc(s)!Answered(t) /\ op[t].name = "sensors"
      /\ reply' = [reply EXCEPT ![t] = NONE]
      /\ UNCHANGED <<life, mutex, tx, sdrs, num_sdr, calls, request, rcount,
                     response, lo, hi, bmc>>
  BY DEF Bmc!SensorEnd, Bmc!memVars, Bmc!bmcVars
<1>2. ASSUME NEW r, Bmc(s)!Return(t, r), r.op = op[t] PROVE MailInv(s)'
  BY <1>1, <1>2, OtherEnds
<1>3. CASE /\ op' = [op EXCEPT ![t] = [op[t] EXCEPT !.i = @ + 1]] /\ result' = result
           /\ op[t].i < num_sdr
  <2>1. op[t] = [name |-> "sensors", i |-> op[t].i] /\ op[t].i \in 1 .. num_sdr
    BY <1>1, AnsweredFacts DEF OpInv
  <2>2. [op[t] EXCEPT !.i = @ + 1] = [name |-> "sensors", i |-> op[t].i + 1]
    <3>1. \A n : [[name |-> "sensors", i |-> n] EXCEPT !.i = @ + 1]
                 = [name |-> "sensors", i |-> n + 1]
      BY SMT
    <3> QED BY <2>1, <3>1
  <2>3. result = [u \in Bmc(s)!All |-> result[u]] /\ calls \in Nat
    BY DEF MailInv, BmcTypes
  <2>4. op' = [op EXCEPT ![t] = [name |-> "sensors", i |-> op[t].i + 1]]
    BY <1>3, <2>2
  <2>5. /\ BmcTypes(s)' /\ BusInv(s)' /\ ReplyInv(s)'
        /\ op'[t] = [name |-> "sensors", i |-> op[t].i + 1]
        /\ \A u \in Bmc(s)!All : u # t => op'[u] = op[u]
    BY <1>1, <1>3, <2>3, <2>4, AnsweredFacts, ThreadStep
  <2>6. op[t].i + 1 \in 1 .. num_sdr
    <3>1. num_sdr \in Nat
      BY SetupFacts DEF MailInv, SdrInv, Recs
    <3> QED BY <1>3, <2>1, <3>1, SMT
  <2>7. op'[t].name = "sensors" /\ op'[t].i = op[t].i + 1
    BY <2>5, SMT
  <2>8. OpInv(s, t)'
    BY <1>1, <2>5, <2>6, <2>7 DEF OpInv
  <2>9. \A u \in Bmc(s)!All : OpInv(s, u)'
    BY <1>1, <2>5, <2>8, OthersSame
  <2>10. PROBE \in Bmc(s)!All /\ (op[PROBE] = NONE => op'[PROBE] = NONE)
    BY <1>1, <2>5 DEF Bmc!All, Bmc!Answered
  <2>11. SdrInv(s)'
    <3>1. Bare' <=> Bare
      BY <1>1 DEF Bare
    <3>2. life' # "none" \/ (life = "none" /\ op'[PROBE] = NONE)
      BY <1>1, <2>10 DEF MailInv, SdrInv
    <3>3. \A u \in Bmc(s)!All : Uses(u)' => Uses(u)
      <4>1. Uses(t)
        BY <1>1 DEF Uses, Bmc!Answered
      <4> QED BY <1>3, <2>5, <4>1 DEF Uses, Fetched
    <3>4. \A u \in Bmc(s)!All : Uses(u)' => ~Bare'
      BY <3>1, <3>3 DEF MailInv, SdrInv
    <3>5. \A u \in Bmc(s)!All : Fetched(u)' => Fetched(u) /\ result'[u] = result[u]
      BY <1>3 DEF Fetched
    <3> QED BY <1>1, <3>1, <3>2, <3>4, <3>5, RecordsSame
  <2> QED BY <2>5, <2>9, <2>11 DEF MailInv
<1> QED BY <1>2, <1>3 DEF Bmc!SensorEnd

\* A fetch that starts with record i.
LEMMA FetchStarts ==
    ASSUME NEW s \in BmcSetups, NEW i, NEW th, NEW o, o = Bmc(s)!Fetch(i, i, th),
           num_sdr' \in Nat, i \in 1 .. num_sdr',
           \A r \in 1 .. num_sdr' : r < i => Whole(s, r)'
    PROVE  o.name = "sdr" /\ Fetching(s, o)'
<1>1. o = [name |-> "sdr", i |-> i, rec |-> i, k |-> 0, off |-> 0,
           cnt |-> SDR_CHUNK_SIZE, left |-> SdrSize, then |-> th]
  BY DEF Bmc!Fetch
<1>2. /\ o.name = "sdr" /\ o.i = i /\ o.k = 0 /\ o.off = 0
      /\ o.cnt = SDR_CHUNK_SIZE /\ o.left = SdrSize /\ o.then = th
  BY <1>1, SMT
<1>3. 0 = 0 * SDR_CHUNK_SIZE /\ 0 \in Nat
  BY SetupFacts, SMT
<1>4. \A j \in 1 .. s.lens[i] : ~(j <= 0)
  BY SMT
<1>5. Upto(s, i, 0)'
  BY <1>4 DEF Upto
<1> QED BY <1>1, <1>2, <1>3, <1>5 DEF Fetching

\* A call: sysfs files are only there when the records are.
LEMMA CallKeepsMail ==
    ASSUME NEW s \in BmcSetups, MailInv(s), NEW t \in s.threads, NEW c \in s.ops,
           Bmc(s)!Call(t, c)
    PROVE  MailInv(s)'
<1> PICK o : /\ op' = [op EXCEPT ![t] = o]
             /\ o = CASE c.name = "xact" ->
                           [name |-> "xact", n |-> calls + 1, rxlen |-> c.rxlen]
                      [] c.name = "sensors" -> [name |-> "sensors", i |-> 1]
                      [] c.name = "sdr" -> Bmc(s)!Fetch(1, 1, "show")
  BY DEF Bmc!Call
<1>1. /\ op[t] = NONE
      /\ c.name # "xact" => num_sdr > 0 /\ life \in {"up", "removing"}
      /\ calls' = calls + 1 /\ result' = [result EXCEPT ![t] = NONE]
      /\ UNCHANGED <<life, mutex, reply, tx, sdrs, num_sdr, request, rcount,
                     response, lo, hi, bmc>>
  BY DEF Bmc!Call, Bmc!memVars, Bmc!bmcVars
<1>2. t \in Bmc(s)!All /\ PROBE \in Bmc(s)!All /\ t # PROBE /\ t # NONE
  BY BoardAssumption DEF Bmc!All
<1>3. t # mutex /\ reply[t] = NONE
  BY <1>1, <1>2 DEF MailInv, BusInv, ReplyInv
<1>4. /\ reply = [u \in Bmc(s)!All |-> reply[u]] /\ calls \in Nat
      /\ result = [u \in Bmc(s)!All |-> result[u]]
  BY DEF MailInv, BmcTypes
<1>5. reply' = [reply EXCEPT ![t] = NONE]
  BY <1>1, <1>2, <1>3, <1>4
<1>6. calls + 1 \in Nat
  BY <1>4, SMT
<1>7. result' = [u \in Bmc(s)!All |-> result'[u]]
      /\ \A u \in Bmc(s)!All : Fetched(u)' => Fetched(u) /\ result'[u] = result[u]
  BY <1>1, <1>2, <1>4 DEF Fetched
<1>8. /\ BmcTypes(s)' /\ BusInv(s)' /\ ReplyInv(s)' /\ op'[t] = o
      /\ \A u \in Bmc(s)!All : u # t => op'[u] = op[u]
  <2>1. calls' \in Nat /\ result' = [u \in Bmc(s)!All |-> result'[u]]
    BY <1>1, <1>6, <1>7
  <2>2. UNCHANGED <<mutex, tx, request, rcount, response, lo, hi, bmc>>
    BY <1>1
  <2> QED BY <1>2, <1>3, <1>5, <2>1, <2>2, ThreadStep
<1>9. num_sdr \in Nat
  BY SetupFacts DEF MailInv, SdrInv, Recs
<1>10. c.name # "xact" => 1 \in 1 .. num_sdr /\ \A i \in 1 .. num_sdr : ~(i < 1)
  BY <1>1, <1>9, SMT
<1>11. OpInv(s, t)'
  <2>1. CASE c.name = "xact"
    <3>1. o.name = "xact" /\ o.n = calls + 1
      BY <2>1, SMT
    <3> QED BY <1>6, <1>8, <3>1 DEF OpInv
  <2>2. CASE c.name = "sensors"
    <3>1. o = [name |-> "sensors", i |-> 1]
      BY <2>2, SMT
    <3>2. o.name = "sensors" /\ o.i = 1
      <4>1. \A p : p = [name |-> "sensors", i |-> 1] => p.name = "sensors" /\ p.i = 1
        BY SMT
      <4> QED BY <3>1, <4>1
    <3> QED BY <1>1, <1>8, <1>10, <2>2, <3>1, <3>2 DEF OpInv
  <2>3. CASE c.name = "sdr"
    <3>1. o = Bmc(s)!Fetch(1, 1, "show")
      BY <2>3, SMT
    <3>2. o.name = "sdr" /\ Fetching(s, o)'
      BY <1>1, <1>9, <1>10, <2>3, <3>1, FetchStarts
    <3>3. Fetching(s, op[t])'
      BY <1>8, <3>2
    <3> QED BY <1>8, <3>2, <3>3 DEF OpInv
  <2>4. c.name \in {"xact", "sensors", "sdr"}
    BY BoardAssumption
  <2> QED BY <2>1, <2>2, <2>3, <2>4
<1>12. \A u \in Bmc(s)!All : OpInv(s, u)'
  BY <1>1, <1>2, <1>8, <1>11, OthersSame
<1>13. SdrInv(s)'
  <2>1. Bare' <=> Bare
    BY <1>1 DEF Bare
  <2>2. life' # "none" \/ (life = "none" /\ op'[PROBE] = NONE)
    BY <1>1, <1>2, <1>8 DEF MailInv, SdrInv
  <2>3. ASSUME NEW u \in Bmc(s)!All, Uses(u)' PROVE ~Bare'
    <3>1. CASE c.name = "xact" \/ u # t
      <4>1. c.name = "xact" => o.name = "xact"
        BY SMT
      <4>2. Uses(u)
        BY <1>7, <1>8, <2>3, <3>1, <4>1 DEF Uses
      <4> QED BY <2>1, <4>2 DEF MailInv, SdrInv
    <3>2. CASE c.name # "xact"
      BY <1>1, <3>2 DEF Bare
    <3> QED BY <3>1, <3>2
  <2> QED BY <1>1, <1>7, <2>1, <2>2, <2>3, RecordsSame
<1> QED BY <1>8, <1>12, <1>13 DEF MailInv

\* Probe starts when there is no record yet.
LEMMA ProbeBeginKeeps ==
    ASSUME NEW s \in BmcSetups, MailInv(s), Bmc(s)!ProbeBegin PROVE MailInv(s)'
<1> PICK o : /\ op' = [op EXCEPT ![PROBE] = o]
             /\ o = [name |-> "probe", stage |-> "version", jumped |-> FALSE]
  BY DEF Bmc!ProbeBegin
<1>1. /\ life = "none" /\ life' = "probing"
      /\ UNCHANGED <<mutex, reply, tx, sdrs, num_sdr, calls, result, request,
                     rcount, response, lo, hi, bmc>>
  BY DEF Bmc!ProbeBegin, Bmc!memVars, Bmc!bmcVars
<1>2. PROBE \in Bmc(s)!All /\ PROBE # NONE
  BY BoardAssumption DEF Bmc!All
<1>3. op[PROBE] = NONE /\ num_sdr = 0
  BY <1>1 DEF MailInv, SdrInv
<1>4. PROBE # mutex /\ reply[PROBE] = NONE
  BY <1>2, <1>3 DEF MailInv, BusInv, ReplyInv
<1>5. /\ reply = [u \in Bmc(s)!All |-> reply[u]] /\ calls \in Nat
      /\ result = [u \in Bmc(s)!All |-> result[u]]
  BY DEF MailInv, BmcTypes
<1>6. reply' = [reply EXCEPT ![PROBE] = NONE]
  BY <1>1, <1>2, <1>4, <1>5
<1>7. /\ BmcTypes(s)' /\ BusInv(s)' /\ ReplyInv(s)' /\ op'[PROBE] = o
      /\ \A u \in Bmc(s)!All : u # PROBE => op'[u] = op[u]
  <2>1. result' = [u \in Bmc(s)!All |-> result'[u]] /\ calls' \in Nat
    BY <1>1, <1>5
  <2> QED BY <1>1, <1>2, <1>4, <1>6, <2>1, ThreadStep
<1>8. o.name = "probe" /\ o.stage = "version" /\ o.jumped = FALSE
  BY SMT
<1>9. OpInv(s, PROBE)'
  BY <1>1, <1>3, <1>7, <1>8 DEF OpInv
<1>10. \A u \in Bmc(s)!All : OpInv(s, u)'
  BY <1>1, <1>2, <1>7, <1>9, OthersSame
<1>11. SdrInv(s)'
  <2>1. ~Bare /\ ~Bare' /\ life' # "none"
    BY <1>1 DEF Bare
  <2>2. \A u \in Bmc(s)!All : Fetched(u)' => Fetched(u) /\ result'[u] = result[u]
    BY <1>1 DEF Fetched
  <2> QED BY <1>1, <2>1, <2>2, RecordsSame
<1> QED BY <1>7, <1>10, <1>11 DEF MailInv

\* Removal does not touch the mailbox.
LEMMA RemoveKeeps ==
    ASSUME NEW s \in BmcSetups, MailInv(s), Bmc(s)!RemoveDriver \/ Bmc(s)!RemoveFiles
    PROVE  MailInv(s)'
<1>1. /\ \/ life = "bare" /\ life' = "oops"
         \/ life \in {"up", "fw", "removing"} /\ life' \in {"removing", "gone"}
      /\ UNCHANGED <<mutex, op, reply, tx, sdrs, num_sdr, calls, result, request,
                     rcount, response, lo, hi, bmc>>
  BY DEF Bmc!RemoveDriver, Bmc!RemoveFiles, Bmc!memVars, Bmc!bmcVars
<1>2. \A t \in Bmc(s)!All : OpInv(s, t)'
  BY <1>1 DEF MailInv, OpInv, Fetching, Whole, Upto
<1>3. SdrInv(s)'
  <2>1. (Bare' <=> Bare) /\ life' # "none"
    BY <1>1 DEF Bare
  <2>2. \A u \in Bmc(s)!All : /\ Fetched(u)' => Fetched(u) /\ result'[u] = result[u]
                              /\ Uses(u)' => Uses(u)
    BY <1>1 DEF Fetched, Uses
  <2>3. \A u \in Bmc(s)!All : Uses(u)' => ~Bare'
    BY <2>1, <2>2 DEF MailInv, SdrInv
  <2> QED BY <1>1, <2>1, <2>2, <2>3, RecordsSame
<1>4. BmcTypes(s)' /\ ReplyInv(s)'
  BY <1>1 DEF MailInv, BmcTypes, ReplyInv
<1>5. BusInv(s)'
  BY <1>1 DEF MailInv, BusInv, Asked, Working, Counting, Ready, Seen, Right, Chunk
<1> QED BY <1>2, <1>3, <1>4, <1>5 DEF MailInv

\* Room for the records.
LEMMA ZerosFacts ==
    ASSUME NEW s \in BmcSetups
    PROVE  /\ Bmc(s)!Zeros \in Seq(Byte)
           /\ Len(Bmc(s)!Zeros) = SdrSize + SDR_CHUNK_SIZE
           /\ \A i \in 1 .. Len(s.lens) : \A j \in 1 .. s.lens[i] :
                Bmc(s)!Zeros[j] = <<0, 0>>
<1> DEFINE z == Bmc(s)!Zeros
           n == SdrSize + SDR_CHUNK_SIZE
<1>1. z = [j \in 1 .. n |-> <<0, 0>>]
  BY DEF Bmc!Zeros
<1>2. n \in Nat
  BY SetupFacts, SMT
<1>3. <<0, 0>> \in Byte
  BY SMT DEF Byte
<1> HIDE DEF z, n
<1>4. /\ DOMAIN z = 1 .. n /\ z = [j \in 1 .. n |-> z[j]]
      /\ \A j \in 1 .. n : z[j] \in Byte
  BY <1>1, <1>3
<1>5. z \in Seq(Byte) /\ Len(z) = n
  BY <1>2, <1>4, IsSeq
<1>6. ASSUME NEW i \in 1 .. Len(s.lens), NEW j \in 1 .. s.lens[i]
      PROVE  z[j] = <<0, 0>>
  <2>1. PICK l : l = s.lens[i] /\ l \in Nat /\ l <= SdrSize
    BY SetupFacts
  <2>2. j \in 1 .. n
    <3>1. j \in 1 .. l /\ SdrSize \in Nat /\ SDR_CHUNK_SIZE \in Nat
      BY <2>1, SetupFacts
    <3> QED BY <2>1, <3>1, SMT DEF n
  <2> QED BY <1>1, <2>2
<1> QED BY <1>5, <1>6 DEF z, n

\* Probe has an answer: until it knows how many records there are, nobody
\* fetches any.
LEMMA ProbeEndKeeps ==
    ASSUME NEW s \in BmcSetups, MailInv(s), Bmc(s)!ProbeEnd PROVE MailInv(s)'
<1>n. PICK next : next = IF Bmc(s)!Completed(PROBE)
                       THEN Bmc(s)!NextStage(op[PROBE], reply[PROBE].rsp)
                       ELSE IF \/ op[PROBE].stage = "jump"
                               \/ op[PROBE].jumped /\ op[PROBE].stage = "version"
                       THEN "fw" ELSE "gone"
  OBVIOUS
<1>o. PICK out, o :
        /\ out \in Bmc(s)!Outcomes(next, num_sdr')
        /\ sdrs' = IF out = "sdr" THEN [i \in 1 .. num_sdr' |-> Bmc(s)!Zeros] ELSE sdrs
        /\ op' = [op EXCEPT ![PROBE] = o]
        /\ o = IF out \in {"fw", "gone", "up", "bare"} THEN NONE
               ELSE IF out = "sdr" THEN Bmc(s)!Fetch(1, 1, "probe")
               ELSE [op[PROBE] EXCEPT !.stage = out, !.jumped = (@ \/ out = "jump")]
        /\ life' = IF out \in {"fw", "gone", "up", "bare"} THEN out ELSE life
  BY <1>n DEF Bmc!ProbeEnd
<1>1. /\ Bmc(s)!Answered(PROBE) /\ op[PROBE].name = "probe"
      /\ reply' = [reply EXCEPT ![PROBE] = NONE]
      /\ num_sdr' = IF next = "sdr" THEN reply[PROBE].rsp.data[1][2] ELSE num_sdr
      /\ UNCHANGED <<mutex, tx, calls, result, request, rcount, response, lo, hi,
                     bmc>>
  BY <1>n DEF Bmc!ProbeEnd, Bmc!memVars, Bmc!bmcVars
<1>2. PROBE \in Bmc(s)!All
  BY DEF Bmc!All
<1>3. /\ PROBE # mutex /\ op[PROBE] # NONE /\ reply[PROBE] # NONE
      /\ OpInv(s, PROBE) /\ PROBE # NONE
  BY <1>1, <1>2, AnsweredFacts
<1>4. /\ num_sdr = 0 /\ op[PROBE].stage \in {"version", "jump", "count"}
      /\ op[PROBE] = [name |-> "probe", stage |-> op[PROBE].stage,
                      jumped |-> op[PROBE].jumped]
  BY <1>1, <1>3 DEF OpInv
<1>e. ~Bare
  BY <1>1, <1>2, <1>3 DEF MailInv, SdrInv, Uses
<1>5. /\ next \in {"version", "jump", "count", "fw", "gone", "sdr"}
      /\ next = "sdr" => op[PROBE].stage = "count"
  <2>1. CASE Bmc(s)!Completed(PROBE)
    <3>1. next = Bmc(s)!NextStage(op[PROBE], reply[PROBE].rsp)
      BY <1>n, <2>1
    <3>2. CASE op[PROBE].stage = "version"
      <4>1. next \in {"count", "fw", "jump"}
        BY <3>1, <3>2 DEF Bmc!NextStage
      <4> QED BY <4>1
    <3>3. CASE op[PROBE].stage = "jump"
      <4>1. next = "version"
        BY <3>1, <3>3 DEF Bmc!NextStage
      <4> QED BY <4>1
    <3>4. CASE op[PROBE].stage = "count"
      <4>1. next = "sdr"
        BY <3>1, <3>4 DEF Bmc!NextStage
      <4> QED BY <3>4, <4>1
    <3> QED BY <1>4, <3>2, <3>3, <3>4
  <2>2. CASE ~Bmc(s)!Completed(PROBE)
    <3>1. next \in {"fw", "gone"}
      BY <1>n, <2>2
    <3> QED BY <3>1
  <2> QED BY <2>1, <2>2
<1>6. next = "sdr" => num_sdr' = Recs(s)
  <2> SUFFICES ASSUME next = "sdr" PROVE num_sdr' = Recs(s)
    OBVIOUS
  <2>1. SentFor(op[PROBE], reply[PROBE].req)
        /\ Right(s, reply[PROBE].rsp, reply[PROBE].req)
    BY <1>2, <1>3 DEF MailInv, ReplyInv
  <2>2. reply[PROBE].req.k = "count"
    BY <1>1, <1>5, <2>1 DEF SentFor
  <2>3. reply[PROBE].rsp.data = << <<0, Recs(s)>> >>
    BY <2>1, <2>2 DEF Right
  <2>4. \A x : << <<0, x>> >>[1][2] = x
    BY SMT
  <2> QED BY <1>1, <2>3, <2>4
<1>7. next # "sdr" => num_sdr' = 0
  BY <1>1, <1>4
<1>8. num_sdr' \in {0, Recs(s)} /\ num_sdr' \in Nat
  BY <1>6, <1>7, SetupFacts DEF Recs
<1>9. \A i \in 1 .. 0 : FALSE
  BY SMT
<1>a. /\ out \in {"version", "jump", "count", "fw", "gone", "up", "bare", "sdr"}
      /\ out = "sdr" => next = "sdr" /\ num_sdr' # 0
      /\ out \notin {"sdr", "bare"} => num_sdr' = 0
  <2>1. CASE next = "sdr"
    <3>1. CASE num_sdr' = 0
      <4>1. out \in {"bare", "up", "gone"}
        BY <1>o, <2>1, <3>1 DEF Bmc!Outcomes
      <4> QED BY <3>1, <4>1
    <3>2. CASE num_sdr' # 0
      <4>1. out \in {"bare", "sdr"}
        BY <1>o, <2>1, <3>2 DEF Bmc!Outcomes
      <4> QED BY <2>1, <3>2, <4>1
    <3> QED BY <3>1, <3>2
  <2>2. CASE next # "sdr"
    <3>1. out = next
      BY <1>o, <2>2 DEF Bmc!Outcomes
    <3> QED BY <1>5, <1>7, <2>2, <3>1
  <2> QED BY <2>1, <2>2
<1>10. /\ BmcTypes(s)' /\ BusInv(s)' /\ ReplyInv(s)' /\ op'[PROBE] = o
       /\ \A u \in Bmc(s)!All : u # PROBE => op'[u] = op[u]
  <2>1. result = [u \in Bmc(s)!All |-> result[u]] /\ calls \in Nat
    BY DEF MailInv, BmcTypes
  <2>2. result' = [u \in Bmc(s)!All |-> result'[u]] /\ calls' \in Nat
    BY <1>1, <2>1
  <2> QED BY <1>o, <1>1, <1>2, <1>3, <2>2, ThreadStep
<1>b. \A u \in Bmc(s)!All : u # PROBE /\ op[u] # NONE =>
        op[u].name = "xact" /\ op[u].n \in Nat
  <2> SUFFICES ASSUME NEW u \in Bmc(s)!All, u # PROBE, op[u] # NONE
               PROVE  op[u].name = "xact" /\ op[u].n \in Nat
    OBVIOUS
  <2>1. OpInv(s, u)
    BY DEF MailInv
  <2> QED BY <1>4, <1>9, <2>1 DEF OpInv, Fetching
<1>11. ASSUME NEW u \in Bmc(s)!All, u # PROBE PROVE OpInv(s, u)'
  <2>1. op'[u] = op[u] /\ (op[u] # NONE => op[u].name = "xact" /\ op[u].n \in Nat)
    BY <1>b, <1>10, <1>11
  <2> QED BY <2>1 DEF OpInv
<1>12. OpInv(s, PROBE)'
  <2>1. CASE o = NONE
    BY <1>10, <2>1 DEF OpInv
  <2>2. CASE o # NONE /\ out = "sdr"
    <3>1. o = Bmc(s)!Fetch(1, 1, "probe") /\ num_sdr' # 0
      BY <1>o, <1>a, <2>2
    <3>2. 1 \in 1 .. num_sdr' /\ \A i \in 1 .. num_sdr' : ~(i < 1)
      BY <1>8, <3>1, SMT
    <3>3. o.name = "sdr" /\ Fetching(s, o)'
      BY <1>8, <3>1, <3>2, FetchStarts
    <3>4. Fetching(s, op[PROBE])'
      BY <1>10, <3>3
    <3> QED BY <1>10, <3>3, <3>4 DEF OpInv
  <2>3. CASE o # NONE /\ out # "sdr"
    <3>1. out \in {"version", "jump", "count"} /\ num_sdr' = 0
      BY <1>o, <1>a, <2>3
    <3>2. PICK j : o = [op[PROBE] EXCEPT !.stage = out, !.jumped = j]
      BY <1>o, <2>3, <3>1
    <3>3. o = [name |-> "probe", stage |-> out, jumped |-> j]
      <4>1. PICK g, x : op[PROBE] = [name |-> "probe", stage |-> g, jumped |-> x]
        BY <1>4
      <4>2. PICK e : e = [op[PROBE] EXCEPT !.stage = out] /\ o = [e EXCEPT !.jumped = j]
        BY <3>2
      <4>3. e = [[name |-> "probe", stage |-> g, jumped |-> x] EXCEPT !.stage = out]
        BY <4>1, <4>2
      <4>4. e = [name |-> "probe", stage |-> out, jumped |-> x]
        BY <4>3, SMT
      <4>5. o = [[name |-> "probe", stage |-> out, jumped |-> x] EXCEPT !.jumped = j]
        BY <4>2, <4>4
      <4> QED BY <4>5, SMT
    <3>4. o.name = "probe" /\ o.stage = out /\ o.jumped = j
      BY <3>3, SMT
    <3> QED BY <1>10, <2>3, <3>1, <3>3, <3>4 DEF OpInv
  <2> QED BY <2>1, <2>2, <2>3
<1>13. SdrInv(s)'
  <2>1. life # "none" /\ life' # "none"
    BY <1>o, <1>3, <1>4 DEF MailInv, SdrInv
  <2>2. \A u \in Bmc(s)!All : ~Fetched(u) /\ ~Fetched(u)'
    BY <1>1, <1>4 DEF MailInv, SdrInv, Fetched
  <2>3. ASSUME NEW u \in Bmc(s)!All, Uses(u)' PROVE ~Bare'
    <3>1. op'[u] # NONE /\ op'[u].name # "xact"
      BY <2>2, <2>3 DEF Uses
    <3>2. u = PROBE /\ o # NONE
      BY <1>b, <1>10, <3>1
    <3>3. life' = life
      BY <1>o, <3>2
    <3> QED BY <1>e, <3>3 DEF Bare
  <2>4. ~Bare' => Room(s)'
    <3>1. CASE out = "sdr"
      <4>1. sdrs' = [i \in 1 .. num_sdr' |-> Bmc(s)!Zeros] /\ num_sdr' = Len(s.lens)
        BY <1>o, <1>6, <1>a, <3>1 DEF Recs
      <4>2. \A i \in 1 .. num_sdr' : sdrs'[i] = Bmc(s)!Zeros
        BY <4>1
      <4>3. \A i \in 1 .. num_sdr' : Clean(s, i)'
        BY <4>1, <4>2, ZerosFacts DEF Clean
      <4> QED BY <4>1, <4>2, <4>3, ZerosFacts DEF Room
    <3>2. CASE out = "bare"
      BY <1>o, <3>2 DEF Bare
    <3>3. CASE out \notin {"sdr", "bare"}
      <4>1. sdrs' = sdrs /\ num_sdr' = 0 /\ num_sdr = 0
        BY <1>o, <1>4, <1>a, <3>3
      <4>2. DOMAIN sdrs = 1 .. 0
        BY <1>4, <1>e DEF MailInv, SdrInv, Room
      <4> QED BY <1>9, <4>1, <4>2 DEF Room
    <3> QED BY <3>1, <3>2, <3>3
  <2> QED BY <1>8, <2>1, <2>2, <2>3, <2>4 DEF SdrInv, Recs
<1> QED BY <1>10, <1>11, <1>12, <1>13 DEF MailInv

\* Products of naturals.
LEMMA Products ==
    ASSUME NEW c \in Nat, NEW k \in Nat, NEW n \in Nat
    PROVE  /\ k * c \in Nat /\ c * n \in Nat /\ (k + 1) * c = k * c + c
           /\ k + 1 >= n => (k + 1) * c >= c * n
  BY SMT

\* A chunk is copied to its place, and leaves what is right as it is.
LEMMA CopyFacts ==
    ASSUME NEW s \in BmcSetups, NEW q, q.rec \in 1 .. Len(s.lens), q.off \in Nat,
           q.cnt \in Nat, q.off < s.lens[q.rec], NEW d \in Seq(Byte),
           SdrSize <= Len(d)
    PROVE  LET e == Bmc(s)!Copied(d, q.off, Chunk(s, q), q.cnt)
           IN  /\ e \in Seq(Byte) /\ Len(e) = Len(d)
               /\ \A j \in 1 .. s.lens[q.rec] :
                    \/ j > q.off /\ j <= q.off + q.cnt
                    \/ d[j] = <<q.rec, j>>
                    => e[j] = <<q.rec, j>>
               /\ \A j \in 1 .. s.lens[q.rec] : e[j] \in {d[j], <<q.rec, j>>}
<1> DEFINE l == s.lens[q.rec]
           R == Bmc(s)!Record(q.rec)
           g == Chunk(s, q)
           e == Bmc(s)!Copied(d, q.off, g, q.cnt)
           m == Len(d)
<1>0. PICK i, f, w : i = q.rec /\ f = q.off /\ w = q.cnt
  OBVIOUS
<1> DEFINE n == IF f + w < l THEN f + w ELSE l
<1>1. l \in Nat /\ l > 0 /\ l <= SdrSize /\ SdrSize \in Nat /\ i \in Nat
      /\ f \in Nat /\ w \in Nat /\ f < l
  <2>1. q.rec \in Nat
    BY SetupFacts, SMT
  <2> QED BY <1>0, <2>1, SetupFacts
<1>2. R = [j \in 1 .. l |-> <<i, j>>]
  BY <1>0 DEF Bmc!Record
<1>3. g = SubSeq(R, f + 1, n)
  BY <1>0 DEF Chunk
<1>4. DOMAIN d = 1 .. m /\ \A j \in 1 .. m : d[j] \in Byte
  BY SeqFacts
<1>5. e = [j \in 1 .. m |-> IF j \notin f + 1 .. f + w THEN d[j]
                            ELSE IF j - f \in DOMAIN g THEN g[j - f]
                            ELSE <<0, 0>>]
  BY <1>0, <1>4 DEF Bmc!Copied
<1> HIDE DEF R, g, e
<1>6. R \in Seq(Byte) /\ Len(R) = l /\ \A j \in 1 .. l : R[j] = <<i, j>>
  <2>1. \A j \in 1 .. l : <<i, j>> \in Byte
    <3>1. \A a, b \in Nat : <<a, b>> \in Byte
      BY SMT DEF Byte
    <3>2. \A x \in Nat : \A j \in 1 .. x : j \in Nat
      BY SMT
    <3> QED BY <1>1, <3>1, <3>2
  <2> HIDE DEF l
  <2>2. DOMAIN R = 1 .. l /\ R = [j \in 1 .. l |-> R[j]]
        /\ \A j \in 1 .. l : R[j] \in Byte /\ R[j] = <<i, j>>
    BY <1>2, <2>1
  <2> QED BY <1>1, <2>2, IsSeq
<1>7. n \in Nat /\ f <= n /\ n <= l /\ m \in Nat /\ l <= m
  <2>1. m \in Nat
    BY SeqFacts
  <2>2. \A a, b, c \in Nat : a <= b /\ b <= c => a <= c
    BY SMT
  <2>3. n \in Nat /\ f <= n /\ n <= l
    BY <1>1, SMT
  <2> QED BY <1>1, <2>1, <2>2, <2>3
<1> HIDE DEF l, n, m
<1>8. /\ g \in Seq(Byte) /\ Len(g) = n - f
      /\ \A j \in 1 .. n - f : g[j] = R[f + j]
  <2>1. n <= Len(R)
    BY <1>6, <1>7
  <2>2. R \in Seq(Byte) /\ f <= n /\ n \in Nat /\ f \in Nat
    BY <1>1, <1>6, <1>7
  <2>3. /\ SubSeq(R, f + 1, n) \in Seq(Byte) /\ Len(SubSeq(R, f + 1, n)) = n - f
        /\ \A j \in 1 .. n - f : SubSeq(R, f + 1, n)[j] = R[f + j]
    BY <2>1, <2>2, SMT
  <2> QED BY <1>3, <2>3
<1>9. DOMAIN g = 1 .. n - f /\ \A j \in 1 .. n - f : g[j] \in Byte
  BY <1>8, SeqFacts
<1>10. <<0, 0>> \in Byte
  BY SMT DEF Byte
<1>11. \A j \in 1 .. m : e[j] \in Byte
  BY <1>4, <1>5, <1>9, <1>10
<1>12. e \in Seq(Byte) /\ Len(e) = m
  <2>1. DOMAIN e = 1 .. m /\ e = [j \in 1 .. m |-> e[j]]
    BY <1>5
  <2> QED BY <1>7, <1>11, <2>1, IsSeq
<1>13. ASSUME NEW j \in 1 .. l, j > f, j <= f + w PROVE e[j] = <<i, j>>
  <2>1. /\ j \in 1 .. m /\ j \in f + 1 .. f + w /\ j - f \in 1 .. n - f
        /\ f + (j - f) = j
    BY <1>1, <1>7, <1>13, SMT DEF n
  <2>2. e[j] = g[j - f]
    BY <1>5, <1>9, <2>1
  <2> QED BY <1>6, <1>8, <2>1, <2>2
<1>14. ASSUME NEW j \in 1 .. l, ~(j > f /\ j <= f + w) PROVE e[j] = d[j]
  <2>1. j \in 1 .. m /\ j \notin f + 1 .. f + w
    BY <1>1, <1>7, <1>14, SMT
  <2> QED BY <1>5, <2>1
<1>15. \A j \in 1 .. l : \/ j > f /\ j <= f + w
                         \/ d[j] = <<i, j>>
                         => e[j] = <<i, j>>
  BY <1>13, <1>14
<1>16. \A j \in 1 .. l : e[j] \in {d[j], <<i, j>>}
  BY <1>13, <1>14
<1> QED BY <1>0, <1>12, <1>15, <1>16 DEF e, g, l, m

\* Records only get better: what the other threads have fetched stays.
LEMMA OthersKeep ==
    ASSUME NEW s \in BmcSetups, MailInv(s), NEW t \in Bmc(s)!All,
           \A u \in Bmc(s)!All : u # t => op'[u] = op[u], num_sdr' = num_sdr,
           \A i \in 1 .. num_sdr : \A n : Upto(s, i, n) => Upto(s, i, n)'
    PROVE  /\ \A u \in Bmc(s)!All : u # t => OpInv(s, u)'
           /\ \A i \in 1 .. num_sdr : Whole(s, i) => Whole(s, i)'
<1>1. \A i \in 1 .. num_sdr : Whole(s, i) => Whole(s, i)'
  BY DEF Whole
<1>2. ASSUME NEW u \in Bmc(s)!All, u # t PROVE OpInv(s, u)'
  <2>1. op'[u] = op[u] /\ OpInv(s, u)
    BY <1>2 DEF MailInv
  <2>2. ASSUME Fetching(s, op[u]) PROVE Fetching(s, op[u])'
    <3>1. /\ op[u].i \in 1 .. num_sdr /\ Upto(s, op[u].i, op[u].off)
          /\ \A i \in 1 .. num_sdr : i < op[u].i => Whole(s, i)
      BY <2>2 DEF Fetching
    <3>2. PICK i, n : i = op[u].i /\ n = op[u].off
      OBVIOUS
    <3>3. Upto(s, i, n)'
      BY <3>1, <3>2
    <3>4. Upto(s, op[u].i, op[u].off)'
      BY <2>1, <3>2, <3>3
    <3> QED BY <1>1, <2>1, <2>2, <3>1, <3>4 DEF Fetching
  <2> QED BY <2>1, <2>2 DEF OpInv
<1> QED BY <1>1, <1>2

\* With a full chunk, some of the record is left.
FullChunk(s, o, left) ==
    /\ o.cnt = SDR_CHUNK_SIZE /\ left \in Nat
    /\ o.off + o.cnt = (o.k + 1) * SDR_CHUNK_SIZE
    /\ (o.off + o.cnt) + left = s.lens[o.i]

\* Where a thread is that has fetched a chunk.
LEMMA ChunkFacts ==
    ASSUME NEW s \in BmcSetups, MailInv(s), NEW t \in Bmc(s)!All,
           Bmc(s)!Answered(t), op[t].name = "sdr", Bmc(s)!Completed(t),
           NEW o, o = op[t], NEW left, left = Bmc(s)!LeftAfter(o, reply[t].rsp)
    PROVE  /\ Fetching(s, o) /\ reply[t].rsp.q.k = "sdr" /\ reply[t].rsp.q.rec = o.i
           /\ reply[t].rsp.q.off = o.off /\ reply[t].rsp.q.cnt = o.cnt
           /\ reply[t].rsp.data = Chunk(s, reply[t].rsp.q)
           /\ o.off \in Nat /\ o.cnt \in Nat /\ o.off < s.lens[o.i]
           /\ o.off + o.cnt \in Nat
           /\ left > 0 => FullChunk(s, o, left)
           /\ ~(left > 0 /\ o.k + 1 < Bmc(s)!Loops) => o.off + o.cnt >= s.lens[o.i]
<1>1. /\ op[t] # NONE /\ reply[t] # NONE /\ Fetching(s, o)
      /\ Right(s, reply[t].rsp, reply[t].req) /\ SentFor(o, reply[t].req)
  BY AnsweredFacts DEF OpInv, MailInv, ReplyInv
<1>2. /\ o.rec = o.i /\ o.k \in Nat /\ o.i \in 1 .. Len(s.lens) /\ o.name = "sdr"
  BY <1>1, FetchTypes
<1>3. /\ reply[t].rsp.q = [k |-> "sdr", rec |-> o.rec, off |-> o.off, cnt |-> o.cnt]
      /\ reply[t].rsp.q = reply[t].req
  BY <1>1, <1>2 DEF SentFor, Right
<1>4. /\ reply[t].rsp.q.k = "sdr" /\ reply[t].rsp.q.rec = o.i
      /\ reply[t].rsp.q.off = o.off /\ reply[t].rsp.q.cnt = o.cnt
  BY <1>2, <1>3, SMT
<1>5. reply[t].rsp.data = Chunk(s, reply[t].rsp.q)
  BY <1>1, <1>3, <1>4 DEF Right, Bmc!Completed
<1>6. /\ o.off = o.k * SDR_CHUNK_SIZE
      /\ IF o.k = 0 THEN o.cnt = SDR_CHUNK_SIZE
         ELSE /\ o.left \in Nat /\ o.left > 0 /\ o.off + o.left = s.lens[o.i]
              /\ o.cnt = IF SDR_CHUNK_SIZE > o.left THEN o.left ELSE SDR_CHUNK_SIZE
  BY <1>1 DEF Fetching
<1>7. o.k = 0 => o.off = 0
  <2>1. 0 * SDR_CHUNK_SIZE = 0
    BY SetupFacts, SMT
  <2> QED BY <1>6, <2>1
<1>8. left = IF o.k = 0 THEN s.lens[o.i] - o.cnt ELSE o.left - o.cnt
  BY <1>4, <1>7 DEF Bmc!LeftAfter, Bmc!HeaderLen
<1>9. Bmc(s)!Loops \in Nat /\ SdrSize <= SDR_CHUNK_SIZE * Bmc(s)!Loops
  <2>1. SdrSize \in Nat /\ SDR_CHUNK_SIZE \in Nat \ {0}
    BY BoardAssumption
  <2>2. SdrSize \div SDR_CHUNK_SIZE \in Nat
    BY <2>1, SMT
  <2>3. \A n \in Nat : n + 1 \in Nat
    BY SMT
  <2>4. Bmc(s)!Loops \in Nat
    BY <2>2, <2>3 DEF Bmc!Loops
  <2> QED BY <2>4, BoardAssumption
<1>10. /\ s.lens[o.i] \in Nat /\ s.lens[o.i] > 0 /\ s.lens[o.i] <= SdrSize
       /\ SdrSize \in Nat /\ SDR_CHUNK_SIZE \in Nat /\ SDR_CHUNK_SIZE > 0
  BY <1>2, SetupFacts
<1>11. PICK c, z, l, n, k, f, w, y :
          /\ c = SDR_CHUNK_SIZE /\ z = SdrSize /\ l = s.lens[o.i] /\ n = Bmc(s)!Loops
          /\ k = o.k /\ f = o.off /\ w = o.cnt /\ y = o.left
  OBVIOUS
<1>12. /\ c \in Nat /\ c > 0 /\ z \in Nat /\ l \in Nat /\ l > 0 /\ l <= z
       /\ n \in Nat /\ z <= c * n /\ k \in Nat /\ f = k * c
       /\ IF k = 0 THEN w = c
          ELSE y \in Nat /\ y > 0 /\ f + y = l /\ w = IF c > y THEN y ELSE c
       /\ left = IF k = 0 THEN l - w ELSE y - w
  BY <1>2, <1>6, <1>8, <1>9, <1>10, <1>11
<1>13. /\ k * c \in Nat /\ (k + 1) * c = k * c + c /\ c * n \in Nat
       /\ k + 1 >= n => (k + 1) * c >= c * n
  BY <1>12, Products
<1>14. k = 0 => f = 0
  BY <1>12, SMT
<1>15. f \in Nat /\ f < l /\ w \in Nat /\ f + w \in Nat /\ left \in Int
       /\ (f + w) + left = l
  BY <1>12, <1>13, <1>14, SMT
<1>16. left > 0 => w = c /\ f + w = (k + 1) * c /\ left \in Nat
  BY <1>12, <1>13, <1>14, <1>15, SMT
<1>17. ~(left > 0) => f + w >= l
  BY <1>12, <1>15, SMT
<1>18. left > 0 /\ k + 1 >= n => f + w >= l
  BY <1>12, <1>13, <1>15, <1>16, SMT
<1>19. ~(left > 0 /\ k + 1 < n) => f + w >= l
  BY <1>12, <1>17, <1>18, SMT
<1> QED BY <1>1, <1>4, <1>5, <1>11, <1>15, <1>16, <1>19 DEF FullChunk

\* The records after a chunk was copied.
LEMMA RecordsAfter ==
    ASSUME NEW s \in BmcSetups, MailInv(s), NEW t \in Bmc(s)!All,
           Bmc(s)!Answered(t), op[t].name = "sdr", NEW o, o = op[t],
           num_sdr' = num_sdr,
           sdrs' = IF ~Bmc(s)!Completed(t) THEN sdrs
                   ELSE [sdrs EXCEPT ![o.i] =
                           Bmc(s)!Copied(@, o.off, reply[t].rsp.data, o.cnt)]
    PROVE  /\ Room(s)'
           /\ \A i \in 1 .. num_sdr : \A n : Upto(s, i, n) => Upto(s, i, n)'
           /\ Bmc(s)!Completed(t) => Upto(s, o.i, o.off + o.cnt)'
<1>r. Room(s)
  BY DEF MailInv, SdrInv, Uses, Bmc!Answered
<1>1. /\ DOMAIN sdrs = 1 .. num_sdr
      /\ \A i \in 1 .. num_sdr : sdrs[i] \in Seq(Byte)
                                 /\ Len(sdrs[i]) = SdrSize + SDR_CHUNK_SIZE
  BY <1>r DEF Room
<1>2. CASE ~Bmc(s)!Completed(t)
  <2>1. sdrs' = sdrs
    BY <1>2
  <2> QED BY <1>r, <1>2, <2>1 DEF Upto, Room, Clean
<1>3. CASE Bmc(s)!Completed(t)
  <2>1. PICK d, e : /\ d = sdrs[o.i]
                    /\ e = Bmc(s)!Copied(d, o.off, reply[t].rsp.data, o.cnt)
    OBVIOUS
  <2>2. sdrs' = [sdrs EXCEPT ![o.i] = e]
    BY <1>3, <2>1
  <2>3. PICK q : q = reply[t].rsp.q
    OBVIOUS
  <2>4. PICK left : left = Bmc(s)!LeftAfter(o, reply[t].rsp)
    OBVIOUS
  <2>5. /\ Fetching(s, o) /\ q.rec = o.i /\ q.off = o.off /\ q.cnt = o.cnt
        /\ reply[t].rsp.data = Chunk(s, q)
        /\ o.off \in Nat /\ o.cnt \in Nat /\ o.off < s.lens[o.i] /\ o.off + o.cnt \in Nat
    BY <1>3, <2>3, <2>4, ChunkFacts
  <2>6. o.i \in 1 .. num_sdr /\ o.i \in 1 .. Len(s.lens)
    BY <2>5, FetchTypes DEF Fetching
  <2>7. e = Bmc(s)!Copied(d, o.off, Chunk(s, q), o.cnt)
    BY <2>1, <2>5
  <2>8. d \in Seq(Byte) /\ Len(d) = SdrSize + SDR_CHUNK_SIZE
    BY <1>1, <2>1, <2>6
  <2>a. SdrSize <= Len(d)
    BY <2>8, SetupFacts, SMT
  <2>b. e = Bmc(s)!Copied(d, q.off, Chunk(s, q), q.cnt)
    BY <2>5, <2>7
  <2>c. /\ e \in Seq(Byte) /\ Len(e) = Len(d)
        /\ \A j \in 1 .. s.lens[q.rec] :
             \/ j > q.off /\ j <= q.off + q.cnt
             \/ d[j] = <<q.rec, j>>
             => e[j] = <<q.rec, j>>
        /\ \A j \in 1 .. s.lens[q.rec] : e[j] \in {d[j], <<q.rec, j>>}
    <3>1. q.rec \in 1 .. Len(s.lens) /\ q.off \in Nat /\ q.cnt \in Nat
          /\ q.off < s.lens[q.rec]
      BY <2>5, <2>6
    <3> QED BY <2>8, <2>a, <2>b, <3>1, CopyFacts
  <2>9. /\ e \in Seq(Byte) /\ Len(e) = SdrSize + SDR_CHUNK_SIZE
        /\ \A j \in 1 .. s.lens[o.i] :
             (j > o.off /\ j <= o.off + o.cnt) \/ d[j] = <<o.i, j>> => e[j] = <<o.i, j>>
        /\ \A j \in 1 .. s.lens[o.i] : e[j] \in {d[j], <<o.i, j>>}
    BY <2>5, <2>8, <2>c
  <2>10. sdrs'[o.i] = e /\ \A i \in 1 .. num_sdr : i # o.i => sdrs'[i] = sdrs[i]
    BY <1>1, <2>2, <2>6
  <2>11. /\ DOMAIN sdrs' = 1 .. num_sdr
         /\ \A i \in 1 .. num_sdr : sdrs'[i] \in Seq(Byte)
                                    /\ Len(sdrs'[i]) = SdrSize + SDR_CHUNK_SIZE
    BY <1>1, <2>2, <2>9, <2>10
  <2>12. ASSUME NEW i \in 1 .. num_sdr, NEW n, Upto(s, i, n) PROVE Upto(s, i, n)'
    <3> SUFFICES ASSUME NEW j \in 1 .. s.lens[i], j <= n PROVE sdrs'[i][j] = <<i, j>>
      BY DEF Upto
    <3>1. sdrs[i][j] = <<i, j>>
      BY <2>12 DEF Upto
    <3>2. CASE i = o.i
      BY <2>1, <2>9, <2>10, <3>1, <3>2
    <3>3. CASE i # o.i
      BY <2>10, <3>1, <3>3
    <3> QED BY <3>2, <3>3
  <2>13. Upto(s, o.i, o.off + o.cnt)'
    <3> SUFFICES ASSUME NEW j \in 1 .. s.lens[o.i], j <= o.off + o.cnt
                 PROVE  sdrs'[o.i][j] = <<o.i, j>>
      BY DEF Upto
    <3>1. CASE j > o.off
      BY <2>9, <2>10, <3>1
    <3>2. CASE ~(j > o.off)
      <4>1. j <= o.off
        <5>1. j \in Int /\ o.off \in Int
          BY <2>5, SMT
        <5> QED BY <3>2, <5>1, SMT
      <4>2. Upto(s, o.i, o.off)
        BY <2>5 DEF Fetching
      <4>3. d[j] = <<o.i, j>>
        BY <2>1, <4>1, <4>2 DEF Upto
      <4> QED BY <2>9, <2>10, <4>3
    <3> QED BY <3>1, <3>2
  <2>14. ASSUME NEW i \in 1 .. num_sdr PROVE Clean(s, i)'
    <3>1. Clean(s, i)
      BY <1>r DEF Room
    <3>2. CASE i = o.i
      <4> SUFFICES ASSUME NEW j \in 1 .. s.lens[i]
                   PROVE  sdrs'[i][j] \in {<<0, 0>>, <<i, j>>}
        BY DEF Clean
      <4>1. d[j] \in {<<0, 0>>, <<i, j>>} /\ e[j] \in {d[j], <<i, j>>}
        BY <2>1, <2>9, <3>1, <3>2 DEF Clean
      <4> QED BY <2>10, <3>2, <4>1
    <3>3. CASE i # o.i
      BY <2>10, <3>1, <3>3 DEF Clean
    <3> QED BY <3>2, <3>3
  <2>15. Room(s)'
    BY <2>11, <2>14 DEF Room
  <2> QED BY <2>12, <2>13, <2>15
<1> QED BY <1>2, <1>3

\* A chunk has come, or was refused.
LEMMA SdrEndKeeps ==
    ASSUME NEW s \in BmcSetups, MailInv(s), NEW t \in Bmc(s)!All, Bmc(s)!SdrEnd(t)
    PROVE  MailInv(s)'
<1>1. PICK o, left : o = op[t] /\ left = Bmc(s)!LeftAfter(o, reply[t].rsp)
  OBVIOUS
<1>2. /\ Bmc(s)!Answered(t) /\ o.name = "sdr" /\ op[t].name = "sdr"
      /\ reply' = [reply EXCEPT ![t] = NONE]
      /\ sdrs' = IF ~Bmc(s)!Completed(t) THEN sdrs
                 ELSE [sdrs EXCEPT ![o.i] =
                         Bmc(s)!Copied(@, o.off, reply[t].rsp.data, o.cnt)]
      /\ UNCHANGED <<mutex, tx, num_sdr, calls, request, rcount, response, lo, hi,
                     bmc>>
  BY <1>1 DEF Bmc!SdrEnd, Bmc!memVars, Bmc!bmcVars
<1>3. t # mutex /\ op[t] # NONE /\ reply[t] # NONE /\ OpInv(s, t)
  BY <1>2, AnsweredFacts
<1>4. Fetching(s, o)
  BY <1>1, <1>2, <1>3 DEF OpInv
<1>5. /\ o.rec = o.i /\ o.i \in Nat /\ o.k \in Nat /\ o.i \in 1 .. num_sdr
      /\ num_sdr \in Nat /\ o.i <= num_sdr
      /\ \A i \in 1 .. num_sdr : i < o.i => Whole(s, i)
  BY <1>4, FetchTypes DEF Fetching
<1>6. /\ Room(s)'
      /\ \A i \in 1 .. num_sdr : \A n : Upto(s, i, n) => Upto(s, i, n)'
      /\ Bmc(s)!Completed(t) => Upto(s, o.i, o.off + o.cnt)'
  BY <1>1, <1>2, RecordsAfter
<1>7. \A i \in 1 .. num_sdr : Whole(s, i) => Whole(s, i)'
  BY <1>6 DEF Whole
<1> DEFINE goesOn == Bmc(s)!Completed(t) /\ left > 0 /\ o.k + 1 < Bmc(s)!Loops
           whole  == Bmc(s)!Completed(t) /\ ~(left > 0 /\ o.k + 1 < Bmc(s)!Loops)
<1>8. whole => \A i \in 1 .. num_sdr : i <= o.i => Whole(s, i)'
  <2> SUFFICES ASSUME whole PROVE \A i \in 1 .. num_sdr : i <= o.i => Whole(s, i)'
    OBVIOUS
  <2>1. o.off + o.cnt >= s.lens[o.i] /\ o.off + o.cnt \in Nat
    BY <1>1, <1>2, ChunkFacts
  <2>2. PICK l, n : l = s.lens[o.i] /\ n = o.off + o.cnt
    OBVIOUS
  <2>3. \A j \in 1 .. l : j <= n
    <3>1. n >= l /\ n \in Nat
      BY <2>1, <2>2
    <3>2. l \in Nat
      BY <1>4, <2>2, FetchTypes, SetupFacts
    <3> QED BY <3>1, <3>2, SMT
  <2>4. Whole(s, o.i)'
    BY <1>6, <2>2, <2>3 DEF Whole, Upto
  <2>5. \A i \in 1 .. num_sdr : i <= o.i => i < o.i \/ i = o.i
    BY <1>5, SMT
  <2> QED BY <1>5, <1>7, <2>4, <2>5
<1>9. num_sdr # 0 /\ life # "none" /\ ~Bare
  <2>1. num_sdr # 0
    BY <1>5, SMT
  <2> QED BY <1>2, <1>3, <2>1 DEF MailInv, SdrInv, Uses
<1>10. result = [u \in Bmc(s)!All |-> result[u]] /\ calls \in Nat
  BY DEF MailInv, BmcTypes
<1>11. ASSUME NEW p, op' = [op EXCEPT ![t] = p], life' # "none", ~Bare',
              result' = [u \in Bmc(s)!All |-> result'[u]],
              \A u \in Bmc(s)!All : Fetched(u)' =>
                \/ Fetched(u) /\ result'[u] = result[u]
                \/ \A i \in 1 .. num_sdr : HasRead(u, i)' => Whole(s, i)',
              op'[t] = p => OpInv(s, t)'
       PROVE  MailInv(s)'
  <2>1. /\ BmcTypes(s)' /\ BusInv(s)' /\ ReplyInv(s)' /\ op'[t] = p
        /\ \A u \in Bmc(s)!All : u # t => op'[u] = op[u]
    <3>1. calls' \in Nat
      BY <1>2, <1>10
    <3> QED BY <1>2, <1>3, <1>11, <3>1, ThreadStep
  <2>2. \A u \in Bmc(s)!All : OpInv(s, u)'
    BY <1>2, <1>6, <1>11, <2>1, OthersKeep
  <2>3. SdrInv(s)'
    <3>1. ASSUME NEW u \in Bmc(s)!All, Fetched(u)', NEW i \in 1 .. num_sdr, HasRead(u, i)'
          PROVE  Whole(s, i)'
      <4>1. CASE Fetched(u) /\ result'[u] = result[u]
        <5>1. HasRead(u, i)
          BY <3>1, <4>1 DEF HasRead
        <5> QED BY <1>7, <4>1, <5>1 DEF MailInv, SdrInv
      <4> QED BY <1>11, <3>1, <4>1
    <3> QED BY <1>2, <1>6, <1>9, <1>11, <3>1 DEF MailInv, SdrInv, Recs
  <2> QED BY <2>1, <2>2, <2>3 DEF MailInv
<1>12. CASE goesOn
  <2>1. PICK p : op' = [op EXCEPT ![t] = p] /\ p = Bmc(s)!NextChunk(o, left)
    BY <1>1, <1>12 DEF Bmc!SdrEnd
  <2>2. p = [name |-> "sdr", i |-> o.i, rec |-> o.i, k |-> o.k + 1,
             off |-> o.off + o.cnt, cnt |-> IF o.cnt > left THEN left ELSE o.cnt,
             left |-> left, then |-> o.then]
    BY <1>5, <2>1 DEF Bmc!NextChunk
  <2>3. result' = result /\ life' = life
    BY <1>1, <1>12 DEF Bmc!SdrEnd
  <2>4. /\ p.name = "sdr" /\ p.i = o.i /\ p.k = o.k + 1 /\ p.off = o.off + o.cnt
        /\ p.cnt = (IF o.cnt > left THEN left ELSE o.cnt)
        /\ p.left = left /\ p.then = o.then
    BY <2>2, SMT
  <2>5. /\ left > 0 /\ left \in Nat /\ o.cnt = SDR_CHUNK_SIZE
        /\ o.off + o.cnt = (o.k + 1) * SDR_CHUNK_SIZE
        /\ (o.off + o.cnt) + left = s.lens[o.i]
    <3>1. Bmc(s)!Completed(t) /\ left > 0
      BY <1>12
    <3>2. FullChunk(s, o, left)
      BY <1>1, <1>2, <3>1, ChunkFacts
    <3> QED BY <3>1, <3>2 DEF FullChunk
  <2>6. o.k + 1 \in Nat /\ o.k + 1 # 0
    BY <1>5, SMT
  <2>7. Fetching(s, p)'
    <3>1. p = [name |-> "sdr", i |-> p.i, rec |-> p.i, k |-> p.k, off |-> p.off,
               cnt |-> p.cnt, left |-> p.left, then |-> p.then]
      BY <2>2, <2>4
    <3>2. p.i \in 1 .. num_sdr' /\ p.k \in Nat /\ p.off = p.k * SDR_CHUNK_SIZE
      BY <1>2, <1>5, <2>4, <2>5, <2>6
    <3>3. /\ p.k # 0 /\ p.left \in Nat /\ p.left > 0 /\ p.off + p.left = s.lens[p.i]
          /\ p.cnt = IF SDR_CHUNK_SIZE > p.left THEN p.left ELSE SDR_CHUNK_SIZE
      BY <2>4, <2>5, <2>6
    <3>4. \A i \in 1 .. num_sdr' : i < p.i => Whole(s, i)'
      BY <1>2, <1>5, <1>7, <2>4
    <3>5. Upto(s, p.i, p.off)'
      BY <1>6, <1>12, <2>4 DEF Upto
    <3> QED BY <3>1, <3>2, <3>3, <3>4, <3>5 DEF Fetching
  <2>8. op'[t] = p => OpInv(s, t)'
    BY <2>4, <2>7 DEF OpInv, Fetching
  <2>9. \A u \in Bmc(s)!All : Fetched(u)' => Fetched(u) /\ result'[u] = result[u]
    BY <2>3 DEF Fetched
  <2>10. result' = [u \in Bmc(s)!All |-> result'[u]] /\ life' # "none" /\ ~Bare'
    BY <1>9, <1>10, <2>3 DEF Bare
  <2> QED BY <1>11, <2>1, <2>8, <2>9, <2>10
<1>13. CASE whole /\ o.i < num_sdr
  <2>1. PICK p : /\ op' = [op EXCEPT ![t] = p]
                 /\ p = Bmc(s)!Fetch(o.i + 1, Bmc(s)!NextRecord(reply[t].rsp), o.then)
                 /\ result' = result /\ life' = life
    BY <1>1, <1>13 DEF Bmc!SdrEnd
  <2>2. Bmc(s)!NextRecord(reply[t].rsp) = o.i + 1
    <3>1. reply[t].rsp.q.k = "sdr" /\ reply[t].rsp.q.rec = o.i
      BY <1>1, <1>2, <1>13, ChunkFacts
    <3> QED BY <3>1 DEF Bmc!NextRecord
  <2>3. /\ o.i + 1 \in 1 .. num_sdr
        /\ \A i \in 1 .. num_sdr : i < o.i + 1 => i <= o.i
    BY <1>5, <1>13, SMT
  <2>4. p.name = "sdr" /\ Fetching(s, p)'
    <3>1. p = Bmc(s)!Fetch(o.i + 1, o.i + 1, o.then)
      BY <2>1, <2>2
    <3>2. /\ num_sdr' \in Nat /\ o.i + 1 \in 1 .. num_sdr'
          /\ \A i \in 1 .. num_sdr' : i < o.i + 1 => Whole(s, i)'
      BY <1>2, <1>5, <1>8, <1>13, <2>3
    <3> QED BY <3>1, <3>2, FetchStarts
  <2>5. op'[t] = p => OpInv(s, t)'
    BY <2>4 DEF OpInv, Fetching
  <2>6. \A u \in Bmc(s)!All : Fetched(u)' => Fetched(u) /\ result'[u] = result[u]
    BY <2>1 DEF Fetched
  <2>7. result' = [u \in Bmc(s)!All |-> result'[u]] /\ life' # "none" /\ ~Bare'
    BY <1>9, <1>10, <2>1 DEF Bare
  <2> QED BY <1>11, <2>1, <2>5, <2>6, <2>7
<1>14. CASE ~goesOn /\ ~(whole /\ o.i < num_sdr)
  <2>1. PICK r, ok : /\ Bmc(s)!Return(t, r)
                     /\ r = [op |-> o, reply |-> reply[t], ok |-> ok,
                             read |-> Bmc(s)!Completed(t)]
                     /\ life' = IF o.then = "show" THEN life
                                ELSE IF ok THEN "up" ELSE "gone"
    BY <1>1, <1>14 DEF Bmc!SdrEnd
  <2>2. op' = [op EXCEPT ![t] = NONE] /\ result' = [result EXCEPT ![t] = r]
    BY <2>1 DEF Bmc!Return
  <2>3. r.read = Bmc(s)!Completed(t) /\ r.op = o
    BY <2>1
  <2>4. result'[t] = r /\ result' = [u \in Bmc(s)!All |-> result'[u]]
        /\ \A u \in Bmc(s)!All : u # t => result'[u] = result[u]
    BY <1>10, <2>2
  <2>5. ASSUME NEW u \in Bmc(s)!All, Fetched(u)'
        PROVE  \/ Fetched(u) /\ result'[u] = result[u]
               \/ \A i \in 1 .. num_sdr : HasRead(u, i)' => Whole(s, i)'
    <3>1. CASE u # t
      BY <2>4, <2>5, <3>1 DEF Fetched
    <3>2. CASE u = t
      <4> SUFFICES ASSUME NEW i \in 1 .. num_sdr, HasRead(t, i)' PROVE Whole(s, i)'
        BY <3>2
      <4>1. CASE i < o.i
        BY <1>5, <1>7, <4>1
      <4>2. CASE Bmc(s)!Completed(t)
        <5>1. whole /\ ~(o.i < num_sdr)
          BY <1>14, <4>2
        <5>2. i <= o.i
          BY <1>5, <5>1, SMT
        <5> QED BY <1>8, <5>1, <5>2
      <4> QED BY <2>3, <2>4, <4>1, <4>2 DEF HasRead
    <3> QED BY <3>1, <3>2
  <2>6. op'[t] = NONE => OpInv(s, t)'
    BY DEF OpInv
  <2>7. life' # "none" /\ ~Bare'
    BY <1>9, <2>1 DEF Bare
  <2> QED BY <1>11, <2>2, <2>4, <2>5, <2>6, <2>7
<1> QED BY <1>12, <1>13, <1>14

\* The start of a sequence.
LEMMA StartFacts ==
    ASSUME NEW R, NEW r \in Seq(R), NEW n \in Nat, n <= Len(r)
    PROVE  /\ SubSeq(r, 1, n) \in Seq(R) /\ Len(SubSeq(r, 1, n)) = n
           /\ \A j \in 1 .. n : SubSeq(r, 1, n)[j] = r[j]
  BY SMT

\* The invariant is what is claimed.
LEMMA MailSuffices ==
    ASSUME NEW s \in BmcSetups, MailInv(s)
    PROVE  Bmc(s)!AnswersMatch /\ Bmc(s)!SdrsRight
<1>1. Bmc(s)!AnswersMatch
  <2>1. DOMAIN op = Bmc(s)!All
    BY DEF MailInv, BmcTypes
  <2> SUFFICES ASSUME NEW t \in Bmc(s)!All, reply[t] # NONE
               PROVE  /\ reply[t].rsp.q = reply[t].req
                      /\ reply[t].count = Bmc(s)!AnswerLen(reply[t].rsp.q)
    BY <2>1 DEF Bmc!AnswersMatch
  <2> QED BY DEF MailInv, ReplyInv, Right
<1>2. ASSUME NEW t \in Bmc(s)!All, Fetched(t), NEW i \in 1 .. num_sdr, HasRead(t, i)
      PROVE  Bmc(s)!InFull(i)
  <2>1. /\ sdrs[i] \in Seq(Byte) /\ Len(sdrs[i]) = SdrSize + SDR_CHUNK_SIZE
        /\ Whole(s, i) /\ num_sdr = Len(s.lens)
    BY <1>2 DEF MailInv, SdrInv, Recs, Uses, Room
  <2>2. PICK d, l : d = sdrs[i] /\ l = s.lens[i]
    OBVIOUS
  <2>3. /\ l \in Nat /\ l <= SdrSize /\ SdrSize \in Nat /\ SDR_CHUNK_SIZE \in Nat
        /\ Len(d) = SdrSize + SDR_CHUNK_SIZE
    BY <2>1, <2>2, SetupFacts
  <2>4. l <= Len(d)
    BY <2>3, SMT
  <2>5. /\ SubSeq(d, 1, l) \in Seq(Byte) /\ Len(SubSeq(d, 1, l)) = l
        /\ \A j \in 1 .. l : SubSeq(d, 1, l)[j] = d[j]
    BY <2>1, <2>2, <2>3, <2>4, StartFacts
  <2>6. \A j \in 1 .. l : d[j] = <<i, j>>
    <3>1. \A j \in 1 .. l : j <= l
      BY <2>3, SMT
    <3> QED BY <2>1, <2>2, <3>1 DEF Whole, Upto
  <2>7. PICK e : e = SubSeq(d, 1, l)
    OBVIOUS
  <2>8. e = [j \in 1 .. Len(e) |-> e[j]] /\ Len(e) = l
    BY <2>5, <2>7, SeqFacts
  <2>9. e = [j \in 1 .. l |-> <<i, j>>]
    BY <2>5, <2>6, <2>7, <2>8
  <2> QED BY <2>2, <2>7, <2>9 DEF Bmc!Record, Bmc!InFull
<1>3. ASSUME NEW t \in Bmc(s)!All, Fetched(t), NEW i \in 1 .. num_sdr
      PROVE  \A j \in 1 .. s.lens[i] : sdrs[i][j] \in {<<0, 0>>, <<i, j>>}
  BY <1>3 DEF MailInv, SdrInv, Uses, Room, Clean
<1>4. Bmc(s)!SdrsRight
  BY <1>2, <1>3 DEF Bmc!SdrsRight, Fetched, HasRead
<1> QED BY <1>1, <1>4

\* The mailbox is empty and nobody uses it.
LEMMA MailInit ==
    ASSUME NEW s \in BmcSetups, Bmc(s)!Init PROVE MailInv(s)
<1>1. /\ life = "none" /\ mutex = NONE /\ op = [t \in Bmc(s)!All |-> NONE]
      /\ reply = [t \in Bmc(s)!All |-> NONE] /\ tx = NONE
      /\ sdrs = <<>> /\ num_sdr = 0 /\ calls = 0
      /\ result = [t \in Bmc(s)!All |-> NONE]
      /\ rcount = 0 /\ lo = 0 /\ hi = 0 /\ bmc = NONE
  BY DEF Bmc!Init
<1>2. DOMAIN <<>> = 1 .. 0 /\ 0 \in Nat /\ \A i \in 1 .. 0 : FALSE
  BY SMT
<1>3. PROBE \in Bmc(s)!All
  BY DEF Bmc!All
<1>4. /\ op[PROBE] = NONE
      /\ \A t \in Bmc(s)!All : op[t] = NONE /\ reply[t] = NONE /\ result[t] = NONE
  BY <1>1, <1>3
<1>5. BmcTypes(s)
  BY <1>1, <1>2 DEF BmcTypes
<1>6. BusInv(s) /\ ReplyInv(s)
  BY <1>1, <1>4 DEF BusInv, ReplyInv
<1>7. SdrInv(s)
  <2>1. Room(s)
    BY <1>1, <1>2 DEF Room
  <2>2. \A t \in Bmc(s)!All : ~Fetched(t) /\ ~Uses(t)
    BY <1>4 DEF Fetched, Uses
  <2> QED BY <1>1, <1>4, <2>1, <2>2 DEF SdrInv, Recs
<1>8. \A t \in Bmc(s)!All : OpInv(s, t)
  BY <1>4 DEF OpInv
<1> QED BY <1>5, <1>6, <1>7, <1>8 DEF MailInv

\* Every step of the driver and of the BMC.
LEMMA MailKeeps ==
    ASSUME NEW s \in BmcSetups, ~s.late, MailInv(s), Bmc(s)!Next PROVE MailInv(s)'
<1>1. CASE Bmc(s)!Bmc
  BY <1>1, TakeKeeps, AnswerKeeps, CountedKeeps DEF Bmc!Bmc
<1>2. CASE Bmc(s)!Bus
  <2>1. ~Bmc(s)!SendTimeout
    BY DEF Bmc!SendTimeout
  <2> QED BY <1>2, <2>1, PollClearedKeeps, ReadLowKeeps, ReadHighKeeps,
             ReadResponseKeeps DEF Bmc!Bus
<1>3. CASE \/ Bmc(s)!ProbeBegin \/ Bmc(s)!ProbeEnd \/ Bmc(s)!RemoveDriver
           \/ Bmc(s)!RemoveFiles
  BY <1>3, ProbeBeginKeeps, ProbeEndKeeps, RemoveKeeps
<1>4. ASSUME NEW t \in Bmc(s)!All, Bmc(s)!SendBegin(t) \/ Bmc(s)!Ends(t)
      PROVE  MailInv(s)'
  BY <1>4, SendBeginKeeps, XactEndKeeps, SensorEndKeeps, SdrEndKeeps DEF Bmc!Ends
<1>5. ASSUME NEW t \in s.threads, NEW c \in s.ops, Bmc(s)!Call(t, c)
      PROVE  MailInv(s)'
  BY <1>5, CallKeepsMail
<1> QED BY <1>1, <1>2, <1>3, <1>4, <1>5 DEF Bmc!Next

\* The invariant of the BMC's part, the clock's steps leave it alone.
LEMMA BmcAlways == Spec => []BmcInv
<1>0. \A s, u : <<"bmc", s>> = <<"bmc", u>> => s = u
  BY SMT
<1>1. Init => BmcInv
  <2> SUFFICES ASSUME Init, NEW s \in BmcSetups, part = <<"bmc", s>> PROVE MailInv(s)
    BY DEF BmcInv
  <2>1. part[1] = "bmc"
    BY SMT
  <2>2. PICK u \in BmcSetups : Bmc(u)!Init /\ part = <<"bmc", u>>
    BY <2>1 DEF Init
  <2>3. u = s
    BY <1>0, <2>2
  <2> QED BY <2>2, <2>3, MailInit
<1>2. BmcInv /\ [Next]_vars => BmcInv'
  <2> SUFFICES ASSUME BmcInv, [Next]_vars, NEW s \in BmcSetups, ~s.late,
                      part' = <<"bmc", s>>
               PROVE  MailInv(s)'
    BY DEF BmcInv
  <2>1. part = <<"bmc", s>>
    BY DEF Next, vars
  <2>2. MailInv(s)
    BY <2>1 DEF BmcInv
  <2>3. CASE UNCHANGED bmcVars
    <3>1. /\ UNCHANGED <<op, sdrs, num_sdr, result, life, reply, mutex, calls>>
          /\ UNCHANGED <<tx, request, rcount, response, lo, hi, bmc>>
      BY <2>3 DEF bmcVars
    <3>2. BusInv(s)'
      BY <2>2, <3>1 DEF MailInv, BusInv, Asked, Working, Counting, Ready, Seen,
                        Right, Chunk
    <3> QED BY <2>2, <3>1, <3>2, ExchangeSteps
  <2>4. CASE BmcNext
    <3>1. PICK u \in BmcSetups : part = <<"bmc", u>> /\ Bmc(u)!Next
      BY <2>4 DEF BmcNext
    <3>2. u = s
      BY <1>0, <2>1, <3>1
    <3> QED BY <2>2, <3>1, <3>2, MailKeeps
  <2> QED BY <2>3, <2>4 DEF Next, vars
<1> QED BY <1>1, <1>2, PTL DEF Spec

\* As long as the BMC is never later than the driver waits, an operation gets
\* the whole answer to its own request through the mailbox it shares with
\* other threads (avmmi_send_one).  When avmmi_get_sdr ends, which its callers
\* take for a success in any case, the records before the one it failed at, or all
\* of them, are in full, and nothing but zeros is in place of the rest.  This holds
\* for every number of threads and calls, whatever lengths the records have and
\* however the reads of the two count bytes fall between their writes.
THEOREM AnswersAlwaysRight == Spec => []AnswersRight
<1>1. BmcInv => AnswersRight
  BY MailSuffices DEF BmcInv, AnswersRight
<1> QED BY <1>1, BmcAlways, PTL

=============================================================================
