---------------------------- MODULE RxLoopProofs ----------------------------
(***************************************************************************)
(* Proofs about the transmit/receive loop, for every pool, burst, ring     *)
(* size and bound, and every behaviour of the port and of the clock.       *)
(***************************************************************************)
EXTENDS RxLoop, MempoolProofs

(* A buffer that was handed over at most once and is not the receiver's    *)
(* holds the packet of the burst that was loaded into it.                  *)
Loaded(m) == txq[m] > 0 \/ Held(m) = 1

BurstIntact == \A m \in Mbufs : sent[m] <= 1 /\ Loaded(m) => data[m] # Foreign

IInv == TypeOK /\ MbufAccounting /\ BurstIntact /\ CleanWire

-----------------------------------------------------------------------------

(* A burst has a length, and its entries are buffers.                      *)
LEMMA BurstLength ==
  ASSUME TypeOK
  PROVE  /\ tx_packets \in Seq(Mbufs) /\ NbPkts \in Nat
         /\ \A i \in 1 .. NbPkts : tx_packets[i] \in Mbufs
         /\ \A i, j \in 1 .. NbPkts : tx_packets[i] = tx_packets[j] => i = j
  BY LoopAssumption DEF LoopAssumption, TypeOK, NbPkts

(* The first k packets of a burst are k references.                        *)
LEMMA HandType ==
  ASSUME NEW place \in Places, NEW k \in Nat
  PROVE  /\ Hand(place, k) \in Places
         /\ \A m \in Mbufs :
              Hand(place, k)[m] = IF Among(m, k) THEN place[m] + 1 ELSE place[m]
  <1>1. \A m \in Mbufs : place[m] \in Nat
    BY DEF Places
  <1> QED
    BY <1>1 DEF Hand, Places

LEMMA TotalHand ==
  ASSUME tx_packets \in Seq(Mbufs),
         \A i, j \in 1 .. NbPkts : tx_packets[i] = tx_packets[j] => i = j,
         NEW place \in Places, NEW k \in 0 .. NbPkts
  PROVE  Total(Hand(place, k)) = Total(place) + k
  <1> DEFINE First == {m \in Mbufs : Among(m, k)}
             f == [i \in 1 .. k |-> tx_packets[i]]
  <1>1. NbPkts \in Nat /\ k \in Nat /\ \A i \in 1 .. k : i \in 1 .. NbPkts
    BY DEF NbPkts
  <1>2. f \in Bijection(1 .. k, First)
    <2>1. f \in [1 .. k -> First]
      BY <1>1 DEF Among, NbPkts
    <2>2. \A i, j \in 1 .. k : f[i] = f[j] => i = j
      BY <1>1
    <2>3. \A t \in First : \E i \in 1 .. k : f[i] = t
      BY DEF Among
    <2> QED
      BY <2>1, <2>2, <2>3, Fun_IsBij
  <1>3. Cardinality(First) = k
    <2>1. IsFiniteSet(1 .. k) /\ Cardinality(1 .. k) = k
      BY <1>1, FS_Interval
    <2>2. ExistsBijection(1 .. k, First)
      BY <1>2 DEF ExistsBijection
    <2> QED
      BY <2>1, <2>2, FS_Bijection
  <1>4. /\ Hand(place, k) \in Places
        /\ \A m \in Mbufs : Hand(place, k)[m] = IF m \in First THEN place[m] + 1 ELSE place[m]
    BY <1>1, HandType
  <1> HIDE DEF First, f
  <1>5. Total(Hand(place, k)) = Total(place) + Cardinality(First)
    BY <1>4, TotalMore DEF First
  <1> QED
    BY <1>3, <1>5

(* The counters of the port stay naturals when one is incremented.         *)
LEMMA StatsType ==
  ASSUME NEW s \in Stats
  PROVE  /\ [s EXCEPT !.rx = @ + 1] \in Stats
         /\ [s EXCEPT !.tx = @ + 1] \in Stats
         /\ [s EXCEPT !.qfull = @ + 1] \in Stats
  <1>1. s.rx + 1 \in Nat /\ s.tx + 1 \in Nat /\ s.qfull + 1 \in Nat
    BY DEF Stats
  <1> QED
    BY <1>1 DEF Stats

(* References are counted by naturals.                                     *)
LEMMA CountType ==
  ASSUME TypeOK, NEW m \in Mbufs
  PROVE  /\ pool[m] \in Nat /\ rxq[m] \in Nat /\ rxd[m] \in Nat /\ txq[m] \in Nat
         /\ txd[m] \in Nat /\ lost[m] \in Nat /\ sent[m] \in Nat
         /\ Held(m) \in {0, 1}
  BY DEF TypeOK, Places, Held

(* A step that leaves the buffers alone keeps what is said of them.        *)
LEMMA BuffersAlone ==
  ASSUME IInv, UNCHANGED buffers, UNCHANGED fixed
  PROVE  MbufAccounting' /\ BurstIntact' /\ CleanWire'
  <1>1. \A m \in Mbufs : References(m)' = References(m) /\ Held(m)' = Held(m)
    BY DEF References, Held, InBurst, Among, NbPkts, buffers, fixed
  <1> QED
    BY <1>1 DEF IInv, MbufAccounting, BurstIntact, Loaded, CleanWire, NbPkts, buffers, fixed

-----------------------------------------------------------------------------

(* The loop is called with the burst in buffers of its own.                *)
LEMMA InitIInv == Init => IInv
  <1> SUFFICES ASSUME Init PROVE IInv
    OBVIOUS
  <1>1. PICK F \in SUBSET {m \in Mbufs : ~ InBurst(m)} :
        \E P \in SUBSET {m \in Mbufs \ F : running /\ ~ InBurst(m)} : \E D \in SUBSET P :
          /\ pool = Bag(F) /\ rxq = Bag(P \ D) /\ rxd = Bag(D) /\ free0 = Total(pool)
          /\ lost = [m \in Mbufs |-> IF m \in F \cup P \/ InBurst(m) THEN 0 ELSE 1]
    BY DEF Init
  <1>1b. PICK P \in SUBSET {m \in Mbufs \ F : running /\ ~ InBurst(m)} : \E D \in SUBSET P :
          /\ pool = Bag(F) /\ rxq = Bag(P \ D) /\ rxd = Bag(D) /\ free0 = Total(pool)
          /\ lost = [m \in Mbufs |-> IF m \in F \cup P \/ InBurst(m) THEN 0 ELSE 1]
    BY <1>1
  <1>2. PICK D \in SUBSET P :
          /\ pool = Bag(F) /\ rxq = Bag(P \ D) /\ rxd = Bag(D) /\ free0 = Total(pool)
          /\ lost = [m \in Mbufs |-> IF m \in F \cup P \/ InBurst(m) THEN 0 ELSE 1]
    BY <1>1b
  <1>3. TypeOK
    <2>1. pool \in Places /\ rxq \in Places /\ rxd \in Places /\ lost \in Places
      BY <1>2 DEF Bag, Places
    <2>2. txq \in Places /\ txd \in Places /\ sent \in Places
      BY DEF Init, Nowhere, Places
    <2>3. summary \in Stats /\ stats \in Stats
      <3>1. PICK r \in 0 .. MaxFrames, q \in 0 .. MaxFrames :
              stats = [Zero EXCEPT !.rx = r, !.qfull = q]
        BY DEF Init
      <3>2. r \in Nat /\ q \in Nat
        BY <3>1, LoopAssumption DEF LoopAssumption
      <3> QED
        BY <3>1, <3>2 DEF Init, Zero, Stats
    <2>4. tx_packets \in Bursts /\ NbPkts \in Nat
      BY LoopAssumption DEF LoopAssumption, Init, NbPkts
    <2>5. cnt \in - IntMax - 1 .. IntMax /\ got \in 0 .. NbPkts
      BY <2>4, LoopAssumption DEF LoopAssumption, Init
    <2>6. duration \in Nat /\ running \in BOOLEAN /\ data \in [Mbufs -> 0 .. NbPkts]
      BY LoopAssumption DEF LoopAssumption, Init
    <2> QED
      BY <2>1, <2>2, <2>3, <2>4, <2>5, <2>6 DEF Init, TypeOK
  <1>4. MbufAccounting
    <2> SUFFICES ASSUME NEW m \in Mbufs
                 PROVE  References(m) = IF sent[m] <= 1 THEN 1 ELSE sent[m]
      BY DEF MbufAccounting
    <2>1. txq[m] = 0 /\ txd[m] = 0 /\ sent[m] = 0
      BY DEF Init, Nowhere
    <2>2. Held(m) = IF InBurst(m) THEN 1 ELSE 0
      BY <2>1 DEF Held
    <2>3. /\ pool[m] = (IF m \in F THEN 1 ELSE 0)
          /\ rxq[m] = (IF m \in P \ D THEN 1 ELSE 0)
          /\ rxd[m] = (IF m \in D THEN 1 ELSE 0)
      BY <1>2 DEF Bag
    <2>4. lost[m] = IF m \in F \cup P \/ InBurst(m) THEN 0 ELSE 1
      BY <1>2
    <2>5. ~ (m \in F /\ m \in P) /\ (m \in F \cup P => ~ InBurst(m)) /\ (m \in D => m \in P)
      BY <1>1, <1>1b, <1>2
    <2> QED
      BY <2>1, <2>2, <2>3, <2>4, <2>5 DEF References
  <1>5. BurstIntact
    BY DEF Init, BurstIntact, Loaded, Held, Nowhere
  <1>6. CleanWire
    BY DEF Init, CleanWire
  <1> QED
    BY <1>3, <1>4, <1>5, <1>6 DEF IInv

-----------------------------------------------------------------------------

(* The types, one lemma for the steps that move buffers and one for the    *)
(* others.                                                                 *)
LEMMA TypeProgram ==
  ASSUME TypeOK, TimeIsUp \/ Iterate \/ ReceiveEnd \/ Report
  PROVE  TypeOK' /\ UNCHANGED buffers /\ UNCHANGED fixed
  <1>0. NbPkts \in Nat
    BY BurstLength
  <1>1. CASE TimeIsUp
    BY <1>1 DEF TimeIsUp, TypeOK, buffers, fixed, world, NbPkts
  <1>2. CASE Iterate
    <2>1. cnt' \in - IntMax - 1 .. IntMax /\ gap' \in Nat
      BY <1>2, LoopAssumption DEF LoopAssumption, Iterate, Increment, TypeOK
    <2> QED
      BY <1>2, <2>1 DEF Iterate, TypeOK, buffers, fixed, world, NbPkts
  <1>3. CASE ReceiveEnd
    <2>1. stats' \in Stats
      BY <1>3 DEF ReceiveEnd, TypeOK, Stats
    <2>2. got' \in 0 .. NbPkts
      BY <1>0, <1>3 DEF ReceiveEnd
    <2> QED
      BY <1>3, <2>1, <2>2 DEF ReceiveEnd, TypeOK, buffers, fixed, NbPkts
  <1>4. CASE Report
    BY <1>4 DEF Report, Summary, TypeOK, buffers, fixed, world, NbPkts
  <1> QED
    BY <1>1, <1>2, <1>3, <1>4

LEMMA TypeWorld ==
  ASSUME TypeOK, Miss \/ Clock
  PROVE  TypeOK' /\ UNCHANGED buffers /\ UNCHANGED fixed
  <1>1. CASE Miss
    <2>1. stats' \in Stats
      BY <1>1, StatsType DEF Miss, TypeOK
    <2> QED
      BY <1>1, <2>1 DEF Miss, TypeOK, buffers, fixed, program, NbPkts
  <1>2. CASE Tick
    BY <1>2 DEF Tick, TypeOK, buffers, fixed, program, NbPkts
  <1>3. ASSUME NEW d \in {-1, 2}, Jump(d)
        PROVE  TypeOK' /\ UNCHANGED buffers /\ UNCHANGED fixed
    BY <1>3 DEF Jump, TypeOK, buffers, fixed, program, NbPkts
  <1> QED
    BY <1>1, <1>2, <1>3 DEF Clock

-----------------------------------------------------------------------------

(* The driver frees a buffer it sent.                                      *)
LEMMA TxCleanIInv ==
  ASSUME IInv, NEW m \in Mbufs, TxClean(m)
  PROVE  IInv'
  <1> USE DEF TxClean, program, world, fixed
  <1>1. TypeOK /\ txd \in Places /\ pool \in Places /\ txd[m] > 0
    BY DEF IInv, TypeOK
  <1>2. /\ txd' \in Places /\ txd'[m] = txd[m] - 1
        /\ \A x \in Mbufs : x # m => txd'[x] = txd[x]
    BY <1>1, TakeType
  <1>3. /\ pool' \in Places /\ pool'[m] = pool[m] + 1
        /\ \A x \in Mbufs : x # m => pool'[x] = pool[x]
    BY <1>1, PutType
  <1>4. TypeOK'
    BY <1>1, <1>2, <1>3 DEF TypeOK, NbPkts
  <1>5. \A x \in Mbufs : Held(x)' = Held(x)
    BY DEF Held, InBurst, Among, NbPkts
  <1>6. ASSUME NEW x \in Mbufs PROVE References(x)' = References(x)
    <2>1. /\ txd'[x] \in Nat /\ pool'[x] \in Nat
          /\ txd'[x] + pool'[x] = txd[x] + pool[x]
      BY <1>1, MoveSum
    <2>2. UNCHANGED <<rxq[x], rxd[x], txq[x], lost[x]>>
      OBVIOUS
    <2> HIDE DEF TxClean
    <2>3. Held(x)' = Held(x) /\ Held(x) \in Nat
      BY <1>1, <1>5, CountType
    <2>4. /\ pool[x] \in Nat /\ rxq[x] \in Nat /\ rxd[x] \in Nat
          /\ txq[x] \in Nat /\ txd[x] \in Nat /\ lost[x] \in Nat
      BY <1>1, CountType
    <2> QED
      BY <2>1, <2>2, <2>3, <2>4 DEF References
  <1> QED
    BY <1>4, <1>5, <1>6 DEF IInv, MbufAccounting, BurstIntact, Loaded, CleanWire, NbPkts

(* The burst, or the first k packets of it, is handed over.                *)
LEMMA SendIInv ==
  ASSUME IInv, NEW k \in 0 .. NbPkts, Send(k)
  PROVE  IInv'
  <1> USE DEF Send, HandOver, world, fixed
  <1>1. TypeOK /\ txq \in Places /\ sent \in Places /\ NbPkts \in Nat /\ k \in Nat
    BY BurstLength DEF IInv, TypeOK
  <1>2. /\ txq' \in Places
        /\ \A m \in Mbufs : txq'[m] = IF Among(m, k) THEN txq[m] + 1 ELSE txq[m]
    BY <1>1, HandType
  <1>3. /\ sent' \in Places
        /\ \A m \in Mbufs : sent'[m] = IF Among(m, k) THEN sent[m] + 1 ELSE sent[m]
    BY <1>1, HandType
  <1>4. TypeOK'
    BY <1>1, <1>2, <1>3 DEF TypeOK, NbPkts
  <1>5. \A m \in Mbufs : Among(m, k) => InBurst(m)
    BY <1>1 DEF InBurst, Among
  <1>6. \A m \in Mbufs : Held(m)' = IF InBurst(m) /\ sent'[m] = 0 THEN 1 ELSE 0
    BY DEF Held, InBurst, Among, NbPkts
  <1>7. ASSUME NEW m \in Mbufs
        PROVE  References(m)' = IF sent'[m] <= 1 THEN 1 ELSE sent'[m]
    <2>1. References(m) = IF sent[m] <= 1 THEN 1 ELSE sent[m]
      BY DEF IInv, MbufAccounting
    <2>2. /\ pool'[m] = pool[m] /\ rxq'[m] = rxq[m] /\ rxd'[m] = rxd[m]
          /\ txd'[m] = txd[m] /\ lost'[m] = lost[m]
      OBVIOUS
    <2> HIDE DEF Send
    <2>3. CASE ~ Among(m, k)
      <3>1. txq'[m] = txq[m] /\ sent'[m] = sent[m] /\ Held(m)' = Held(m)
        BY <1>2, <1>3, <1>6, <2>3 DEF Held
      <3> QED
        BY <2>1, <2>2, <3>1 DEF References
    <2>4. CASE Among(m, k)
      <3>1. txq'[m] = txq[m] + 1 /\ sent'[m] = sent[m] + 1 /\ Held(m)' = 0
        BY <1>1, <1>2, <1>3, <1>6, <2>4, CountType
      <3>2. Held(m) = IF sent[m] = 0 THEN 1 ELSE 0
        BY <1>5, <2>4 DEF Held
      <3>3. /\ pool[m] \in Nat /\ rxq[m] \in Nat /\ rxd[m] \in Nat
            /\ txq[m] \in Nat /\ txd[m] \in Nat /\ lost[m] \in Nat /\ sent[m] \in Nat
        BY <1>1, CountType
      <3>4. CASE sent[m] = 0
        BY <2>1, <2>2, <3>1, <3>2, <3>3, <3>4 DEF References
      <3>5. CASE sent[m] # 0
        <4>1. References(m)' = References(m) + 1
          BY <2>2, <3>1, <3>2, <3>3, <3>5 DEF References
        <4>2. References(m) = sent[m]
          BY <2>1, <3>3, <3>5
        <4> QED
          BY <3>1, <3>3, <3>5, <4>1, <4>2
      <3> QED
        BY <3>4, <3>5
    <2> QED
      BY <2>3, <2>4
  <1>8. ASSUME NEW m \in Mbufs, sent'[m] <= 1, txq'[m] > 0 \/ Held(m)' = 1
        PROVE  data'[m] # Foreign
    <2>1. sent[m] <= 1 /\ data' = data
      BY <1>1, <1>3, <1>8, CountType
    <2>2. Loaded(m)
      BY <1>1, <1>2, <1>3, <1>5, <1>6, <1>8, CountType DEF Loaded, Held
    <2> QED
      BY <2>1, <2>2 DEF IInv, BurstIntact
  <1>9. CleanWire'
    <2>1. ASSUME NEW m \in Mbufs, sent'[m] <= 1 PROVE sent[m] <= 1
      <3>1. sent[m] \in Nat
        BY <1>1, CountType
      <3> QED
        BY <1>3, <2>1, <3>1
    <2> QED
      BY <2>1 DEF IInv, CleanWire, NbPkts
  <1> QED
    BY <1>4, <1>7, <1>8, <1>9 DEF IInv, MbufAccounting, BurstIntact, Loaded

(* A packet is received and the place in the ring refilled.                *)
LEMMA ReceiveIInv ==
  ASSUME IInv, NEW m \in Mbufs, NEW m2 \in Mbufs, Receive(m, m2)
  PROVE  IInv'
  <1> USE DEF Receive, world, fixed
  <1>1. /\ TypeOK /\ NbPkts \in Nat
        /\ rxd \in Places /\ rxq \in Places /\ pool \in Places /\ lost \in Places
        /\ rxd[m] > 0 /\ pool[m2] > 0
    BY BurstLength DEF IInv, TypeOK
  <1>2. /\ rxd' \in Places /\ rxd'[m] = rxd[m] - 1
        /\ \A x \in Mbufs : x # m => rxd'[x] = rxd[x]
    BY <1>1, TakeType
  <1>3. /\ lost' \in Places /\ lost'[m] = lost[m] + 1
        /\ \A x \in Mbufs : x # m => lost'[x] = lost[x]
    BY <1>1, PutType
  <1>4. /\ pool' \in Places /\ pool'[m2] = pool[m2] - 1
        /\ \A x \in Mbufs : x # m2 => pool'[x] = pool[x]
    BY <1>1, TakeType
  <1>5. /\ rxq' \in Places /\ rxq'[m2] = rxq[m2] + 1
        /\ \A x \in Mbufs : x # m2 => rxq'[x] = rxq[x]
    BY <1>1, PutType
  <1>6. TypeOK'
    <2>1. pkts' \in Nat /\ got' \in 0 .. NbPkts
      BY <1>1 DEF TypeOK
    <2> QED
      BY <1>1, <1>2, <1>3, <1>4, <1>5, <2>1 DEF TypeOK, NbPkts
  <1>7. \A x \in Mbufs : Held(x)' = Held(x)
    BY DEF Held, InBurst, Among, NbPkts
  <1>8. ASSUME NEW x \in Mbufs PROVE References(x)' = References(x)
    <2>1. /\ rxd'[x] \in Nat /\ lost'[x] \in Nat
          /\ rxd'[x] + lost'[x] = rxd[x] + lost[x]
      BY <1>1, MoveSum
    <2>2. /\ pool'[x] \in Nat /\ rxq'[x] \in Nat
          /\ pool'[x] + rxq'[x] = pool[x] + rxq[x]
      BY <1>1, MoveSum
    <2>3. txq'[x] = txq[x] /\ txd'[x] = txd[x]
      OBVIOUS
    <2> HIDE DEF Receive
    <2>4. Held(x)' = Held(x) /\ Held(x) \in Nat
      BY <1>1, <1>7, CountType
    <2>5. /\ pool[x] \in Nat /\ rxq[x] \in Nat /\ rxd[x] \in Nat
          /\ txq[x] \in Nat /\ txd[x] \in Nat /\ lost[x] \in Nat
      BY <1>1, CountType
    <2> QED
      BY <2>1, <2>2, <2>3, <2>4, <2>5 DEF References
  <1> QED
    BY <1>6, <1>7, <1>8 DEF IInv, MbufAccounting, BurstIntact, Loaded, CleanWire, NbPkts

(* The port sends what a descriptor points to, as it is at that moment.    *)
LEMMA TransmitIInv ==
  ASSUME IInv, NEW m \in Mbufs, Transmit(m)
  PROVE  IInv'
  <1> USE DEF Transmit, program, fixed
  <1>1. TypeOK /\ txd \in Places /\ txq \in Places /\ txq[m] > 0
    BY DEF IInv, TypeOK
  <1>2. /\ txq' \in Places /\ txq'[m] = txq[m] - 1
        /\ \A x \in Mbufs : x # m => txq'[x] = txq[x]
    BY <1>1, TakeType
  <1>3. /\ txd' \in Places /\ txd'[m] = txd[m] + 1
        /\ \A x \in Mbufs : x # m => txd'[x] = txd[x]
    BY <1>1, PutType
  <1>4. TypeOK'
    <2>1. stats' \in Stats
      BY <1>1, StatsType DEF TypeOK
    <2>2. wire' \subseteq 0 .. NbPkts
      <3>1. wire \subseteq 0 .. NbPkts /\ data[m] \in 0 .. NbPkts
        BY <1>1 DEF TypeOK
      <3> QED
        BY <3>1
    <2> QED
      BY <1>1, <1>2, <1>3, <2>1, <2>2 DEF TypeOK, NbPkts
  <1>5. \A x \in Mbufs : Held(x)' = Held(x)
    BY DEF Held, InBurst, Among, NbPkts
  <1>6. ASSUME NEW x \in Mbufs PROVE References(x)' = References(x)
    <2>1. /\ txq'[x] \in Nat /\ txd'[x] \in Nat
          /\ txq'[x] + txd'[x] = txq[x] + txd[x]
      BY <1>1, MoveSum
    <2>2. UNCHANGED <<pool[x], rxq[x], rxd[x], lost[x]>>
      OBVIOUS
    <2> HIDE DEF Transmit
    <2>3. Held(x)' = Held(x) /\ Held(x) \in Nat
      BY <1>1, <1>5, CountType
    <2>4. /\ pool[x] \in Nat /\ rxq[x] \in Nat /\ rxd[x] \in Nat
          /\ txq[x] \in Nat /\ txd[x] \in Nat /\ lost[x] \in Nat
      BY <1>1, CountType
    <2> QED
      BY <2>1, <2>2, <2>3, <2>4 DEF References
  <1>7. BurstIntact'
    BY <1>1, <1>2, <1>5, CountType DEF IInv, BurstIntact, Loaded
  <1>8. CleanWire'
    <2> SUFFICES ASSUME \A x \in Mbufs : sent[x] <= 1
                 PROVE  wire' \subseteq 1 .. NbPkts
      BY DEF CleanWire, NbPkts
    <2>1. data[m] \in 1 .. NbPkts
      <3>1. data[m] \in 0 .. NbPkts /\ NbPkts \in Nat
        BY <1>1, BurstLength DEF TypeOK
      <3>2. data[m] # 0
        BY <1>1 DEF IInv, BurstIntact, Loaded, Foreign
      <3> QED
        BY <3>1, <3>2
    <2> QED
      BY <2>1 DEF IInv, CleanWire
  <1> QED
    BY <1>4, <1>6, <1>7, <1>8 DEF IInv, MbufAccounting

(* A frame is written to a buffer the receiver has posted.                 *)
LEMMA ArriveIInv ==
  ASSUME IInv, NEW m \in Mbufs, Arrive(m)
  PROVE  IInv'
  <1> USE DEF Arrive, program, fixed
  <1>1. /\ TypeOK /\ rxd \in Places /\ rxq \in Places /\ rxq[m] > 0
        /\ NbPkts \in Nat
    BY BurstLength DEF IInv, TypeOK
  <1>2. /\ rxq' \in Places /\ rxq'[m] = rxq[m] - 1
        /\ \A x \in Mbufs : x # m => rxq'[x] = rxq[x]
    BY <1>1, TakeType
  <1>3. /\ rxd' \in Places /\ rxd'[m] = rxd[m] + 1
        /\ \A x \in Mbufs : x # m => rxd'[x] = rxd[x]
    BY <1>1, PutType
  <1>4. data' \in [Mbufs -> 0 .. NbPkts] /\ \A x \in Mbufs : x # m => data'[x] = data[x]
    BY <1>1 DEF TypeOK, Foreign
  <1>5. TypeOK'
    <2>1. stats' \in Stats
      BY <1>1, StatsType DEF TypeOK
    <2> QED
      BY <1>1, <1>2, <1>3, <1>4, <2>1 DEF TypeOK, NbPkts
  <1>6. \A x \in Mbufs : Held(x)' = Held(x)
    BY DEF Held, InBurst, Among, NbPkts
  <1>7. ASSUME NEW x \in Mbufs PROVE References(x)' = References(x)
    <2>1. /\ rxq'[x] \in Nat /\ rxd'[x] \in Nat
          /\ rxq'[x] + rxd'[x] = rxq[x] + rxd[x]
      BY <1>1, MoveSum
    <2>2. UNCHANGED <<pool[x], txq[x], txd[x], lost[x]>>
      OBVIOUS
    <2> HIDE DEF Arrive
    <2>3. Held(x)' = Held(x) /\ Held(x) \in Nat
      BY <1>1, <1>6, CountType
    <2>4. /\ pool[x] \in Nat /\ rxq[x] \in Nat /\ rxd[x] \in Nat
          /\ txq[x] \in Nat /\ txd[x] \in Nat /\ lost[x] \in Nat
      BY <1>1, CountType
    <2> QED
      BY <2>1, <2>2, <2>3, <2>4 DEF References
  <1>8. BurstIntact'
    <2>1. sent[m] <= 1 => ~ Loaded(m)
      <3>1. sent[m] <= 1 => References(m) = 1
        BY DEF IInv, MbufAccounting
      <3>2. rxq[m] \in Nat /\ rxq[m] >= 1
        BY <1>1, CountType
      <3> HIDE DEF Arrive
      <3>3. sent[m] <= 1 => txq[m] = 0 /\ Held(m) = 0
        <4>1. /\ pool[m] \in Nat /\ rxq[m] \in Nat /\ rxd[m] \in Nat
              /\ txq[m] \in Nat /\ txd[m] \in Nat /\ lost[m] \in Nat /\ Held(m) \in Nat
          BY <1>1, CountType
        <4> QED
          BY <3>1, <3>2, <4>1 DEF References
      <3> QED
        BY <3>3 DEF Loaded
    <2> QED
      BY <1>4, <1>6, <2>1 DEF IInv, BurstIntact, Loaded
  <1> QED
    BY <1>5, <1>7, <1>8 DEF IInv, MbufAccounting, CleanWire, NbPkts

(* Every step of the loop, the port and the clock keeps the invariant.     *)
LEMMA NextIInv == IInv /\ [Next]_vars => IInv'
  <1> SUFFICES ASSUME IInv, [Next]_vars PROVE IInv'
    OBVIOUS
  <1>1. CASE TimeIsUp \/ Iterate \/ ReceiveEnd \/ Report
    BY <1>1, TypeProgram, BuffersAlone DEF IInv
  <1>2. CASE Miss \/ Clock
    BY <1>2, TypeWorld, BuffersAlone DEF IInv
  <1>3. ASSUME NEW k \in 0 .. NbPkts, Send(k) PROVE IInv'
    BY <1>3, SendIInv
  <1>4. ASSUME NEW m \in Mbufs, TxClean(m) \/ \E m2 \in Mbufs : Receive(m, m2)
        PROVE  IInv'
    BY <1>4, TxCleanIInv, ReceiveIInv
  <1>5. ASSUME NEW m \in Mbufs, Transmit(m) \/ Arrive(m) PROVE IInv'
    BY <1>5, TransmitIInv, ArriveIInv
  <1>6. CASE UNCHANGED vars
    <2>1. UNCHANGED buffers /\ UNCHANGED fixed
      BY <1>6 DEF vars
    <2>2. TypeOK'
      BY <1>6 DEF IInv, TypeOK, NbPkts, vars, buffers, program, world, fixed
    <2> QED
      BY <2>1, <2>2, BuffersAlone DEF IInv
  <1> QED
    BY <1>1, <1>2, <1>3, <1>4, <1>5, <1>6 DEF Next, Program, Port

(* The inductive invariant holds in every reachable state.                 *)
THEOREM Inductive == Spec => []IInv
  BY InitIInv, NextIInv, PTL DEF Spec

(* No counter or place leaves its range, cnt and its wrap included.        *)
THEOREM LoopTypeOK == Spec => []TypeOK
  <1>1. IInv => TypeOK
    BY DEF IInv
  <1> QED
    BY <1>1, Inductive, PTL

(* Where the buffers are, for every number of bursts: one place each until *)
(* the second hand-over, and one more with every further one.              *)
THEOREM LoopAccounting == Spec => []MbufAccounting
  <1>1. IInv => MbufAccounting
    BY DEF IInv
  <1> QED
    BY <1>1, Inductive, PTL

(* Until a buffer is handed over again, only the burst goes out.           *)
THEOREM LoopCleanWire == Spec => []CleanWire
  <1>1. IInv => CleanWire
    BY DEF IInv
  <1> QED
    BY <1>1, Inductive, PTL

-----------------------------------------------------------------------------

(* What a look at the clock has shown stays so while nobody sets it.       *)
Lasted == jumps = 0 /\ (pc = "report" \/ result = "success") => now >= DurationSeconds

(* rx_loop does not return success before the seconds of the test          *)
(* description are over, if they fit the parameter.                        *)
THEOREM LoopLasts == Spec => []LastsAsConfigured
  <1>1. Init => Lasted
    BY DEF Init, Lasted
  <1>2. IInv /\ Lasted /\ [Next]_vars => Lasted'
    <2> SUFFICES ASSUME IInv, Lasted, [Next]_vars PROVE Lasted'
      OBVIOUS
    <2>1. /\ now \in Int /\ jumps \in Nat /\ DurationSeconds \in Int
          /\ UNCHANGED duration => DurationSeconds' = DurationSeconds
      BY LoopAssumption DEF LoopAssumption, IInv, TypeOK, DurationSeconds
    <2>2. CASE TimeIsUp
      BY <2>1, <2>2 DEF TimeIsUp, Lasted, Elapsed, world, fixed
    <2>3. CASE Iterate \/ ReceiveEnd
      BY <2>1, <2>3 DEF Iterate, ReceiveEnd, Lasted, world, fixed
    <2>4. CASE Report
      BY <2>1, <2>4 DEF Report, Lasted, world, fixed
    <2>5. ASSUME NEW k \in 0 .. NbPkts, Send(k) PROVE Lasted'
      BY <2>1, <2>5 DEF Send, Lasted, world, fixed
    <2>6. ASSUME NEW m \in Mbufs, TxClean(m) \/ \E m2 \in Mbufs : Receive(m, m2)
          PROVE  Lasted'
      BY <2>1, <2>6 DEF TxClean, Receive, Lasted, program, world, fixed
    <2>7. CASE Port \/ UNCHANGED vars
      BY <2>1, <2>7 DEF Port, Miss, Transmit, Arrive, Lasted, vars, program, world, fixed
    <2>8. CASE Tick
      BY <2>1, <2>8 DEF Tick, Lasted, program, fixed
    <2>9. ASSUME NEW d \in {-1, 2}, Jump(d) PROVE Lasted'
      BY <2>1, <2>9 DEF Jump, Lasted
    <2> QED
      BY <2>2, <2>3, <2>4, <2>5, <2>6, <2>7, <2>8, <2>9 DEF Next, Program, Clock
  <1>3. IInv /\ Lasted => LastsAsConfigured
    <2> SUFFICES ASSUME IInv, Lasted, duration < U16 PROVE DurationSeconds = duration
      BY LoopAssumption DEF LoopAssumption, IInv, TypeOK, Lasted, LastsAsConfigured
    <2> QED
      BY LoopAssumption DEF LoopAssumption, IInv, TypeOK, DurationSeconds
  <1> QED
    BY <1>1, <1>2, <1>3, Inductive, PTL DEF Spec

-----------------------------------------------------------------------------

(* The receiver's budget, beside the budget's starting point.              *)
Budget == free0 \in Nat /\ RxBudget

(* What is received is paid for from the free list, which nothing but the  *)
(* driver's clean-up fills.                                                *)
THEOREM LoopBudget == Spec => []RxBudget
  <1>1. Init => Budget
    <2> SUFFICES ASSUME Init PROVE Budget
      OBVIOUS
    <2>1. pool \in Places
      BY InitIInv DEF IInv, TypeOK
    <2>2. free0 = Total(pool) /\ Total(pool) \in Nat /\ pkts = 0 /\ cleaned = 0
      BY <2>1, TotalType DEF Init
    <2> QED
      BY <2>2 DEF Budget, RxBudget
  <1>2. IInv /\ Budget /\ [Next]_vars => Budget'
    <2> SUFFICES ASSUME IInv, Budget, [Next]_vars PROVE Budget'
      OBVIOUS
    <2>1. /\ pool \in Places /\ pkts \in Nat /\ cleaned \in Nat /\ free0 \in Nat
          /\ Total(pool) \in Nat /\ pkts + Total(pool) = free0 + cleaned
      BY TotalType DEF IInv, TypeOK, Budget, RxBudget
    <2>2. ASSUME UNCHANGED <<pool, pkts, cleaned, free0>> PROVE Budget'
      BY <2>1, <2>2 DEF Budget, RxBudget
    <2>3. ASSUME NEW m \in Mbufs, TxClean(m) PROVE Budget'
      <3>1. /\ Total(pool') = Total(pool) + 1 /\ cleaned' = cleaned + 1
            /\ UNCHANGED <<pkts, free0>>
        BY <2>1, <2>3, TotalPut DEF TxClean, program, fixed
      <3>2. pkts' + Total(pool') = free0' + cleaned'
        BY <2>1, <3>1
      <3> QED
        BY <2>1, <3>1, <3>2 DEF Budget, RxBudget
    <2>4. ASSUME NEW m \in Mbufs, NEW m2 \in Mbufs, Receive(m, m2) PROVE Budget'
      <3>1. /\ Total(pool') = Total(pool) - 1 /\ pkts' = pkts + 1
            /\ UNCHANGED <<cleaned, free0>>
        BY <2>1, <2>4, TotalTake DEF Receive, fixed
      <3> QED
        BY <2>1, <3>1 DEF Budget, RxBudget
    <2>5. CASE TimeIsUp \/ Iterate \/ ReceiveEnd \/ Report \/ \E k \in 0 .. NbPkts : Send(k)
      BY <2>2, <2>5
         DEF TimeIsUp, Iterate, ReceiveEnd, Report, Send, HandOver, buffers, fixed
    <2>6. CASE Port \/ Clock \/ UNCHANGED vars
      BY <2>2, <2>6
         DEF Port, Miss, Transmit, Arrive, Clock, Tick, Jump, vars, buffers, program, fixed
    <2> QED
      BY <2>3, <2>4, <2>5, <2>6 DEF Next, Program
  <1>3. Budget => RxBudget
    BY DEF Budget
  <1> QED
    BY <1>1, <1>2, <1>3, Inductive, PTL DEF Spec

(* The port's counters against the buffers, at any time.                   *)
Counted ==
  /\ running => stats.rx = pkts + Total(rxd)
  /\ stats.tx = Total(sent) - Total(txq)
  /\ wire # {} => stats.tx > 0

(* The transmit queue has a descriptor for each buffer in it.              *)
RingBound == Total(txq) + Total(txd) <= TxDesc

(* The summary, which only the end of the loop writes: the port counts on, *)
(* by no more than what was in the queue when its counters were read.      *)
Reported ==
  /\ result # "running" <=> pc = "done"
  /\ result # "success" => summary = Zero
  /\ result = "success" =>
       summary.tx <= Total(sent) - Total(txq) /\ Total(sent) <= summary.tx + TxDesc

(* Taken together, a step leaves what is counted as it is, or counts what  *)
(* it moves.                                                               *)
LEMMA CountedStep ==
  ASSUME IInv, Counted, [Next]_vars
  PROVE  Counted'
  <1>1. /\ rxd \in Places /\ txq \in Places /\ sent \in Places /\ pkts \in Nat
        /\ Total(rxd) \in Nat /\ Total(txq) \in Nat /\ Total(sent) \in Nat
        /\ stats \in Stats /\ stats.rx \in Nat /\ stats.tx \in Nat
    BY TotalType DEF IInv, TypeOK, Stats
  <1>2. ASSUME UNCHANGED <<pkts, rxd, txq, sent, running, wire>>,
               stats'.rx = stats.rx, stats'.tx = stats.tx
        PROVE  Counted'
    BY <1>2 DEF Counted
  <1>3. ASSUME NEW k \in 0 .. NbPkts, Send(k) PROVE Counted'
    <2>1. /\ Total(txq') = Total(txq) + k /\ Total(sent') = Total(sent) + k /\ k \in Int
          /\ UNCHANGED <<pkts, rxd, stats, running, wire>>
      BY <1>1, <1>3, BurstLength, TotalHand DEF IInv, Send, HandOver, world, fixed
    <2> QED
      BY <1>1, <2>1 DEF Counted
  <1>4. ASSUME NEW m \in Mbufs, NEW m2 \in Mbufs, Receive(m, m2) PROVE Counted'
    <2>1. /\ Total(rxd') = Total(rxd) - 1 /\ pkts' = pkts + 1
          /\ UNCHANGED <<txq, sent, stats, running, wire>>
      BY <1>1, <1>4, TotalTake DEF Receive, world, fixed
    <2> QED
      BY <1>1, <2>1 DEF Counted
  <1>5. ASSUME NEW m \in Mbufs, Transmit(m) PROVE Counted'
    <2>1. /\ Total(txq') = Total(txq) - 1 /\ stats'.tx = stats.tx + 1
          /\ stats'.rx = stats.rx /\ UNCHANGED <<pkts, rxd, sent, running>>
      BY <1>1, <1>5, TotalTake DEF Transmit, program, fixed, Stats
    <2> QED
      BY <1>1, <2>1 DEF Counted
  <1>6. ASSUME NEW m \in Mbufs, Arrive(m) PROVE Counted'
    <2>1. /\ Total(rxd') = Total(rxd) + 1 /\ stats'.rx = stats.rx + 1
          /\ stats'.tx = stats.tx /\ UNCHANGED <<pkts, txq, sent, running, wire>>
      BY <1>1, <1>6, TotalPut DEF Arrive, program, fixed, Stats
    <2> QED
      BY <1>1, <2>1 DEF Counted
  <1>7. CASE TimeIsUp \/ Iterate \/ Report
    BY <1>2, <1>7 DEF TimeIsUp, Iterate, Report, buffers, world, fixed
  <1>8. CASE ReceiveEnd
    BY <1>1, <1>2, <1>8 DEF ReceiveEnd, buffers, fixed, Stats
  <1>9. ASSUME NEW m \in Mbufs, TxClean(m) PROVE Counted'
    BY <1>2, <1>9 DEF TxClean, program, world, fixed
  <1>10. CASE Miss
    BY <1>1, <1>2, <1>10 DEF Miss, buffers, program, fixed, Stats
  <1>11. CASE Clock \/ UNCHANGED vars
    BY <1>2, <1>11 DEF Clock, Tick, Jump, vars, buffers, program, world, fixed
  <1> QED
    BY <1>3, <1>4, <1>5, <1>6, <1>7, <1>8, <1>9, <1>10, <1>11 DEF Next, Program, Port

LEMMA RingBoundStep ==
  ASSUME IInv, RingBound, [Next]_vars
  PROVE  RingBound'
  <1>1. /\ txq \in Places /\ txd \in Places /\ TxDesc \in Nat
        /\ Total(txq) \in Nat /\ Total(txd) \in Nat
    BY TotalType, LoopAssumption DEF LoopAssumption, IInv, TypeOK
  <1>2. ASSUME UNCHANGED <<txq, txd>> PROVE RingBound'
    BY <1>2 DEF RingBound
  <1>3. ASSUME NEW k \in 0 .. NbPkts, Send(k) PROVE RingBound'
    <2>1. /\ Total(txq') = Total(txq) + k /\ UNCHANGED txd /\ k \in Nat /\ NbPkts \in Nat
      BY <1>1, <1>3, BurstLength, TotalHand DEF IInv, Send, HandOver
    <2>2. k <= TxDesc - Total(txq) - Total(txd)
      BY <1>1, <1>3, <2>1 DEF Send, Accepted, FreeDesc, RingBound
    <2> QED
      BY <1>1, <2>1, <2>2 DEF RingBound
  <1>4. ASSUME NEW m \in Mbufs, TxClean(m) PROVE RingBound'
    <2>1. Total(txd') = Total(txd) - 1 /\ UNCHANGED txq
      BY <1>1, <1>4, TotalTake DEF TxClean
    <2> QED
      BY <1>1, <2>1 DEF RingBound
  <1>5. ASSUME NEW m \in Mbufs, Transmit(m) PROVE RingBound'
    <2>1. Total(txq') = Total(txq) - 1 /\ Total(txd') = Total(txd) + 1
      BY <1>1, <1>5, TotalTake, TotalPut DEF Transmit
    <2> QED
      BY <1>1, <2>1 DEF RingBound
  <1>6. CASE TimeIsUp \/ Iterate \/ ReceiveEnd \/ Report
    BY <1>2, <1>6 DEF TimeIsUp, Iterate, ReceiveEnd, Report, buffers
  <1>7. ASSUME NEW m \in Mbufs, Arrive(m) \/ \E m2 \in Mbufs : Receive(m, m2)
        PROVE  RingBound'
    BY <1>2, <1>7 DEF Arrive, Receive
  <1>8. CASE Miss \/ Clock \/ UNCHANGED vars
    BY <1>2, <1>8 DEF Miss, Clock, Tick, Jump, vars, buffers
  <1> QED
    BY <1>3, <1>4, <1>5, <1>6, <1>7, <1>8 DEF Next, Program, Port

LEMMA ReportedStep ==
  ASSUME IInv, Counted, RingBound, Reported, [Next]_vars
  PROVE  Reported' /\ Reports
  <1>1. /\ txq \in Places /\ txd \in Places /\ TxDesc \in Nat /\ Total(sent) \in Nat
        /\ Total(txq) \in Nat /\ Total(txd) \in Nat
        /\ summary \in Stats /\ stats \in Stats /\ summary.tx \in Nat /\ stats.tx \in Nat
    BY TotalType, LoopAssumption DEF LoopAssumption, IInv, TypeOK, Stats
  <1>2. ASSUME UNCHANGED <<result, summary>>, pc = "done" <=> pc' = "done",
               UNCHANGED sent, Total(txq') \in Nat, Total(txq') <= Total(txq)
        PROVE  Reported' /\ Reports
    <2>1. result = "success" =>
            summary.tx <= Total(sent) - Total(txq') /\ Total(sent) <= summary.tx + TxDesc
      BY <1>1, <1>2 DEF Reported
    <2> QED
      BY <1>2, <2>1 DEF Reported, Reports
  <1>3. CASE TimeIsUp \/ Iterate \/ ReceiveEnd
    BY <1>1, <1>2, <1>3 DEF TimeIsUp, Iterate, ReceiveEnd, buffers
  <1>4. CASE Report
    <2>1. /\ UNCHANGED <<sent, txq>> /\ result = "running" /\ summary = Zero
          /\ pc' = "done" /\ result' \in {"success", "failure"}
          /\ result' = "failure" => summary' = summary
          /\ result' = "success" => summary' = stats
      BY <1>4 DEF Report, Summary, Reported, buffers
    <2>2. /\ stats.tx = Total(sent) - Total(txq)
          /\ Total(sent) <= stats.tx + TxDesc
      BY <1>1 DEF Counted, RingBound
    <2>3. Reported'
      BY <1>1, <2>1, <2>2 DEF Reported
    <2> QED
      BY <2>1, <2>3 DEF Reports, Counted
  <1>5. ASSUME NEW k \in 0 .. NbPkts, Send(k) PROVE Reported' /\ Reports
    BY <1>5 DEF Send, Reported, Reports
  <1>6. ASSUME NEW m \in Mbufs, TxClean(m) \/ \E m2 \in Mbufs : Receive(m, m2)
        PROVE  Reported' /\ Reports
    BY <1>1, <1>2, <1>6 DEF TxClean, Receive, program
  <1>7. ASSUME NEW m \in Mbufs, Transmit(m) PROVE Reported' /\ Reports
    <2>1. Total(txq') = Total(txq) - 1 /\ Total(txq') \in Nat
      BY <1>1, <1>7, TotalTake DEF Transmit
    <2> QED
      BY <1>1, <1>2, <1>7, <2>1 DEF Transmit, program
  <1>8. ASSUME NEW m \in Mbufs, Arrive(m) PROVE Reported' /\ Reports
    BY <1>1, <1>2, <1>8 DEF Arrive, program
  <1>9. CASE Miss \/ Clock \/ UNCHANGED vars
    BY <1>1, <1>2, <1>9 DEF Miss, Clock, Tick, Jump, vars, buffers, program
  <1> QED
    BY <1>3, <1>4, <1>5, <1>6, <1>7, <1>8, <1>9 DEF Next, Program, Port

LEMMA NothingCounted == Init => Counted /\ RingBound /\ Reported
  <1> SUFFICES ASSUME Init PROVE Counted /\ RingBound /\ Reported
    OBVIOUS
  <1>1. /\ Total(txq) = 0 /\ Total(txd) = 0 /\ Total(sent) = 0 /\ pkts = 0
        /\ result = "running" /\ summary = Zero /\ wire = {} /\ pc = "check"
    BY TotalNowhere DEF Init
  <1>2. rxd \in Places /\ Total(rxd) \in Nat
    BY InitIInv, TotalType DEF IInv, TypeOK
  <1>3. PICK r \in 0 .. MaxFrames, q \in 0 .. MaxFrames :
          (running => r = Total(rxd)) /\ stats = [Zero EXCEPT !.rx = r, !.qfull = q]
    BY DEF Init
  <1>4. stats.rx = r /\ stats.tx = 0
    BY <1>3 DEF Zero
  <1> QED
    BY <1>1, <1>2, <1>3, <1>4, LoopAssumption
       DEF LoopAssumption, Counted, RingBound, Reported

(* What a run reports is what the port and the buffers said when its       *)
(* counters were read, and stays so while the port goes on.                *)
THEOREM LoopReport == Spec => ReportFaithful
  <1>1. IInv /\ Counted /\ RingBound /\ Reported /\ [Next]_vars => Reports
    BY ReportedStep
  <1> QED
    BY <1>1, NothingCounted, RingBoundStep, ReportedStep, CountedStep, Inductive, PTL
       DEF Spec, ReportFaithful

(* The same of a program that calls rx_loop later in its run.              *)
LEMMA ReadyLoop == Init' => IInv' /\ Counted' /\ RingBound' /\ Reported'
  BY InitIInv, NothingCounted, PTL

-----------------------------------------------------------------------------

(* Quotient and remainder of the counter by the period.                    *)
LEMMA Division ==
  ASSUME NEW i \in Int
  PROVE  /\ Period \in Nat \ {0} /\ i \div Period \in Int /\ i % Period \in 0 .. Period - 1
         /\ i = Period * (i \div Period) + (i % Period)
  BY LoopAssumption DEF LoopAssumption

LEMMA Remainder ==
  ASSUME NEW q \in Int, NEW r \in 0 .. Period - 1
  PROVE  (Period * q + r) % Period = r
  <1> DEFINE i == Period * q + r
             d == q - (i \div Period)
  <1>1. Period \in Nat \ {0} /\ r \in Int
    BY LoopAssumption DEF LoopAssumption
  <1>2. Period * q \in Int /\ i \in Int
    BY <1>1
  <1>3. i \div Period \in Int /\ i % Period \in 0 .. Period - 1
        /\ i = Period * (i \div Period) + (i % Period)
    BY <1>2, Division
  <1>4. d \in Int /\ Period * d = (i % Period) - r
    BY <1>1, <1>3
  <1> HIDE DEF i, d
  <1>5. Period * d < Period /\ - Period < Period * d
    BY <1>1, <1>3, <1>4
  <1>6. d < 1 /\ - 1 < d
    <2>1. d >= 1 => Period * d >= Period
      BY <1>1, <1>4
    <2>2. d <= -1 => Period * d <= - Period
      BY <1>1, <1>4
    <2> QED
      BY <1>1, <1>4, <1>5, <2>1, <2>2
  <1>7. d = 0
    BY <1>4, <1>6
  <1> QED
    BY <1>1, <1>3, <1>4, <1>7 DEF i

(* The remainder counts, up to the next multiple of the period.            *)
LEMMA RemainderNext ==
  ASSUME NEW i \in Int
  PROVE  (i + 1) % Period = IF i % Period = Period - 1 THEN 0 ELSE (i % Period) + 1
  <1> DEFINE q == i \div Period
             r == i % Period
  <1>1. Period \in Nat \ {0} /\ q \in Int /\ r \in 0 .. Period - 1 /\ i = Period * q + r
    BY Division
  <1> HIDE DEF q, r
  <1>2. CASE r = Period - 1
    <2>1. i + 1 = Period * (q + 1) + 0
      BY <1>1, <1>2
    <2>2. (Period * (q + 1) + 0) % Period = 0
      BY <1>1, Remainder
    <2> QED
      BY <1>2, <2>1, <2>2 DEF r
  <1>3. CASE r # Period - 1
    <2>1. r + 1 \in 0 .. Period - 1 /\ i + 1 = Period * q + (r + 1)
      BY <1>1, <1>3
    <2>2. (Period * q + (r + 1)) % Period = r + 1
      BY <1>1, <2>1, Remainder
    <2> QED
      BY <1>3, <2>1, <2>2 DEF r
  <1> QED
    BY <1>2, <1>3

(* The first multiple of the period among the values of an int.            *)
FirstDue == - Period * ((IntMax + 1) \div Period)

LEMMA AroundFirstDue ==
  /\ FirstDue \in Int /\ FirstDue < 0 /\ - IntMax - 1 <= FirstDue
  /\ FirstDue + IntMax + 1 = (IntMax + 1) % Period
  /\ WrapGap = (IntMax % Period) + 1 + (FirstDue + IntMax + 1)
  /\ \A i \in Int : FirstDue - Period < i /\ i < FirstDue + Period =>
       (Due(i) <=> i = FirstDue)
  <1> DEFINE q == (IntMax + 1) \div Period
             s == IntMax \div Period
  <1>1. /\ Period \in Nat \ {0} /\ q \in Int /\ (IntMax + 1) % Period \in 0 .. Period - 1
        /\ IntMax \in Nat /\ Period <= IntMax
        /\ IntMax + 1 = Period * q + ((IntMax + 1) % Period)
    BY Division, LoopAssumption DEF LoopAssumption
  <1>2. s \in Int /\ IntMax = Period * s + (IntMax % Period) /\ IntMax % Period \in 0 .. Period - 1
    BY <1>1, Division
  <1>3. FirstDue = - (Period * q) /\ Period * q \in Int /\ Period * s \in Int
    BY <1>1, <1>2 DEF FirstDue
  <1>4. WrapGap = 2 * (IntMax + 1) - Period * s - Period * q
    BY DEF WrapGap
  <1> HIDE DEF q, s
  <1>5. ASSUME NEW i \in Int, FirstDue - Period < i, i < FirstDue + Period
        PROVE  Due(i) <=> i = FirstDue
    <2>1. CASE i >= FirstDue
      <3>1. i - FirstDue \in 0 .. Period - 1 /\ i = Period * (- q) + (i - FirstDue)
        BY <1>1, <1>3, <1>5, <2>1
      <3>2. (Period * (- q) + (i - FirstDue)) % Period = i - FirstDue
        BY <1>1, <3>1, Remainder
      <3>3. i % Period = i - FirstDue
        BY <3>1, <3>2
      <3> QED
        BY <1>1, <1>3, <3>3 DEF Due
    <2>2. CASE i < FirstDue
      <3> DEFINE r == i - FirstDue + Period
      <3>1. r \in 1 .. Period - 1 /\ i = Period * (- q - 1) + r
        BY <1>1, <1>3, <1>5, <2>2
      <3>2. (Period * (- q - 1) + r) % Period = r
        BY <1>1, <3>1, Remainder
      <3>3. i % Period = r /\ r # 0
        BY <3>1, <3>2
      <3> QED
        BY <1>1, <1>3, <2>2, <3>3 DEF Due
    <2> QED
      BY <1>1, <1>3, <2>1, <2>2
  <1>6. Period * q > 0
    BY <1>1, <1>3
  <1> QED
    BY <1>1, <1>2, <1>3, <1>4, <1>5, <1>6

(* No value of an int before it is due.                                    *)
LEMMA DueNotEarly ==
  ASSUME NEW i \in Int, - IntMax - 1 <= i, Due(i)
  PROVE  FirstDue <= i
  <1>1. IntMax \in Nat /\ Period \in Nat \ {0}
    BY LoopAssumption DEF LoopAssumption
  <1>2. /\ FirstDue \in Int /\ FirstDue + IntMax + 1 = (IntMax + 1) % Period
        /\ (IntMax + 1) % Period \in 0 .. Period - 1
    BY <1>1, AroundFirstDue, Division
  <1>3. i < FirstDue => FirstDue - Period < i
    BY <1>1, <1>2
  <1> QED
    BY <1>1, <1>2, <1>3, AroundFirstDue

(* How long ago the last burst was, from the counter: a multiple of the    *)
(* period ago, or, between the wrap and the first multiple after it, in    *)
(* the last, cut period before the wrap.                                   *)
Since(i) ==
  IF i < FirstDue THEN (IntMax % Period) + 1 + (i + IntMax + 1) ELSE i % Period

Spaced ==
  IF pc = "send"
  THEN Due(cnt) /\ gap = IF cnt = FirstDue THEN WrapGap ELSE Period
  ELSE gap = Since(cnt)

(* One iteration, in any place of the range of cnt.                        *)
LEMMA IterateSpaced ==
  ASSUME IInv, Spaced, Iterate
  PROVE  Spaced'
  <1>1. /\ cnt \in Int /\ - IntMax - 1 <= cnt /\ cnt <= IntMax /\ gap \in Nat
        /\ IntMax \in Nat /\ Period \in Nat \ {0} /\ Period <= IntMax
    BY LoopAssumption DEF LoopAssumption, IInv, TypeOK
  <1>2. /\ gap = Since(cnt) /\ cnt' = Increment(cnt) /\ gap' = gap + 1
        /\ pc' = IF Due(cnt') THEN "send" ELSE "receive"
    BY DEF Iterate, Spaced
  <1>3. /\ FirstDue \in Int /\ FirstDue < 0 /\ - IntMax - 1 <= FirstDue
        /\ IntMax % Period \in 0 .. Period - 1 /\ (IntMax + 1) % Period \in 0 .. Period - 1
        /\ FirstDue + IntMax + 1 = (IntMax + 1) % Period
        /\ WrapGap = (IntMax % Period) + 1 + (FirstDue + IntMax + 1)
    BY <1>1, AroundFirstDue, Division
  <1>4. SUFFICES IF Due(cnt')
                 THEN gap + 1 = IF cnt' = FirstDue THEN WrapGap ELSE Period
                 ELSE gap + 1 = Since(cnt')
    BY <1>2 DEF Spaced, Due, Since, FirstDue, WrapGap
  <1>5. CASE cnt = IntMax
    <2>1. cnt' = - IntMax - 1 /\ gap = IntMax % Period
      BY <1>1, <1>2, <1>3, <1>5 DEF Increment, Since
    <2>2. Due(cnt') <=> cnt' = FirstDue
      BY <1>1, <1>3, <2>1, AroundFirstDue
    <2> QED
      BY <1>1, <1>3, <2>1, <2>2 DEF Since
  <1>6. CASE cnt < FirstDue
    <2>1. cnt' = cnt + 1 /\ gap = (IntMax % Period) + 1 + (cnt + IntMax + 1)
      BY <1>1, <1>2, <1>3, <1>6 DEF Increment, Since
    <2>2. Due(cnt') <=> cnt' = FirstDue
      BY <1>1, <1>3, <1>6, <2>1, AroundFirstDue
    <2> QED
      BY <1>1, <1>3, <1>6, <2>1, <2>2 DEF Since
  <1>7. CASE cnt # IntMax /\ FirstDue <= cnt
    <2>1. cnt' = cnt + 1 /\ gap = cnt % Period
      BY <1>1, <1>2, <1>3, <1>7 DEF Increment, Since
    <2>2. /\ cnt' % Period = IF gap = Period - 1 THEN 0 ELSE gap + 1
          /\ gap \in 0 .. Period - 1
      BY <1>1, <2>1, RemainderNext, Division
    <2>3. cnt' # FirstDue /\ ~ cnt' < FirstDue
      BY <1>1, <1>3, <1>7, <2>1
    <2> QED
      BY <1>1, <2>2, <2>3 DEF Due, Since
  <1> QED
    BY <1>1, <1>3, <1>5, <1>6, <1>7

(* Bursts are a period apart, and the one after the wrap less than two.    *)
THEOREM LoopSpacing == Spec => []BurstSpacing
  <1>1. Init => Spaced
    <2> SUFFICES ASSUME Init PROVE Spaced
      OBVIOUS
    <2>1. 0 % Period = 0 /\ FirstDue < 0 /\ FirstDue \in Int
      BY AroundFirstDue, LoopAssumption DEF LoopAssumption
    <2> QED
      BY <2>1 DEF Init, Spaced, Since
  <1>2. IInv /\ Spaced /\ [Next]_vars => Spaced'
    <2> SUFFICES ASSUME IInv, Spaced, [Next]_vars PROVE Spaced'
      OBVIOUS
    <2>1. ASSUME UNCHANGED <<cnt, gap>>, pc = "send" <=> pc' = "send" PROVE Spaced'
      BY <2>1 DEF Spaced, Due, Since, FirstDue, WrapGap
    <2>2. ASSUME NEW k \in 0 .. NbPkts, Send(k) PROVE Spaced'
      <3>1. Due(cnt) /\ cnt' = cnt /\ gap' = 0 /\ pc' # "send"
        BY <2>2 DEF Send, Spaced
      <3>2. cnt \in Int /\ - IntMax - 1 <= cnt /\ FirstDue \in Int
        BY AroundFirstDue, LoopAssumption DEF LoopAssumption, IInv, TypeOK
      <3>3. cnt % Period = 0 /\ ~ cnt < FirstDue
        BY <3>1, <3>2, DueNotEarly DEF Due
      <3> QED
        BY <3>1, <3>3 DEF Spaced, Since, FirstDue
    <2>3. CASE TimeIsUp \/ ReceiveEnd \/ Report
      BY <2>1, <2>3 DEF TimeIsUp, ReceiveEnd, Report
    <2>4. ASSUME NEW m \in Mbufs, TxClean(m) \/ \E m2 \in Mbufs : Receive(m, m2)
          PROVE  Spaced'
      BY <2>1, <2>4 DEF TxClean, Receive, program
    <2>5. CASE Port \/ Clock \/ UNCHANGED vars
      BY <2>1, <2>5 DEF Port, Miss, Transmit, Arrive, Clock, Tick, Jump, vars, program
    <2> QED
      BY <2>2, <2>3, <2>4, <2>5, IterateSpaced DEF Next, Program
  <1>3. IInv /\ Spaced => BurstSpacing
    <2> SUFFICES ASSUME IInv, Spaced PROVE BurstSpacing
      OBVIOUS
    <2>1. /\ cnt \in Int /\ - IntMax - 1 <= cnt /\ cnt <= IntMax /\ gap \in Nat
          /\ IntMax \in Nat /\ Period \in Nat \ {0} /\ Period <= IntMax
      BY LoopAssumption DEF LoopAssumption, IInv, TypeOK
    <2>2. /\ FirstDue \in Int /\ FirstDue < 0 /\ - IntMax - 1 <= FirstDue
          /\ IntMax % Period \in 0 .. Period - 1 /\ (IntMax + 1) % Period \in 0 .. Period - 1
          /\ FirstDue + IntMax + 1 = (IntMax + 1) % Period
          /\ WrapGap = (IntMax % Period) + 1 + (FirstDue + IntMax + 1)
      BY <2>1, AroundFirstDue, Division
    <2>3. CASE pc = "send"
      <3>1. Due(cnt) /\ FirstDue <= cnt /\ gap = IF cnt = FirstDue THEN WrapGap ELSE Period
        BY <2>1, <2>3, DueNotEarly DEF Spaced, IInv, TypeOK
      <3>2. cnt # FirstDue => FirstDue + Period <= cnt
        BY <2>1, <2>2, <3>1, AroundFirstDue
      <3>3. AfterWrap <=> cnt = FirstDue
        BY <2>1, <2>2, <3>1, <3>2 DEF AfterWrap
      <3>4. gap < 2 * Period
        BY <2>1, <2>2, <3>1
      <3> QED
        BY <3>1, <3>3, <3>4 DEF BurstSpacing
    <2>4. CASE pc # "send"
      <3>1. gap = Since(cnt)
        BY <2>4 DEF Spaced
      <3>2. cnt % Period \in 0 .. Period - 1
        BY <2>1, Division
      <3>3. gap < 2 * Period
        BY <2>1, <2>2, <3>1, <3>2 DEF Since
      <3> QED
        BY <2>4, <3>3 DEF BurstSpacing
    <2> QED
      BY <2>3, <2>4
  <1> QED
    BY <1>1, <1>2, <1>3, Inductive, PTL DEF Spec

-----------------------------------------------------------------------------

(* A buffer that was handed over stays so.                                 *)
LEMMA SentGrows ==
  ASSUME IInv, [Next]_vars, NEW m \in Mbufs
  PROVE  sent[m] \in Nat /\ sent[m] <= sent'[m]
  <1>1. sent \in Places /\ sent[m] \in Nat
    BY CountType DEF IInv, TypeOK
  <1>2. CASE TimeIsUp \/ Iterate \/ ReceiveEnd \/ Report
    BY <1>1, <1>2 DEF TimeIsUp, Iterate, ReceiveEnd, Report, buffers
  <1>3. ASSUME NEW k \in 0 .. NbPkts, Send(k) PROVE sent[m] <= sent'[m]
    <2>1. k \in Nat
      OBVIOUS
    <2>2. sent'[m] = IF Among(m, k) THEN sent[m] + 1 ELSE sent[m]
      BY <1>1, <1>3, <2>1, HandType DEF Send, HandOver
    <2> QED
      BY <1>1, <2>2
  <1>4. ASSUME NEW x \in Mbufs, TxClean(x) \/ \E m2 \in Mbufs : Receive(x, m2)
        PROVE  sent' = sent
    BY <1>4 DEF TxClean, Receive
  <1>5. CASE Port \/ Clock \/ UNCHANGED vars
    BY <1>1, <1>5 DEF Port, Clock, Miss, Transmit, Arrive, Tick, Jump, vars, buffers
  <1> QED
    BY <1>1, <1>2, <1>3, <1>4, <1>5 DEF Next, Program

(* Of naturals that add up to one, one is one.                             *)
LEMMA OneOfSeven ==
  ASSUME NEW a \in Nat, NEW b \in Nat, NEW c \in Nat, NEW d \in Nat, NEW e \in Nat,
         NEW f \in Nat, NEW g \in Nat, a + b + c + d + e + f + g = 1
  PROVE  /\ a \in {0, 1} /\ f \in {0, 1} /\ g \in {0, 1}
         /\ f = 1 \/ g = 1 => a = 0 /\ b = 0 /\ c = 0 /\ d = 0 /\ e = 0
  <1>1. a <= 1 /\ f <= 1 /\ g <= 1
    OBVIOUS
  <1>2. f = 1 \/ g = 1 => a + b + c + d + e <= 0
    OBVIOUS
  <1> QED
    BY <1>1, <1>2

(* A buffer with one reference has the owner its place has.                *)
OwnerOfPlace(m) ==
  /\ pool[m] > 0 <=> Owner(m) = "pool"
  /\ lost[m] > 0 \/ Held(m) = 1 <=> Owner(m) = "program"
  /\ rxq[m] > 0 \/ rxd[m] > 0 \/ txq[m] > 0 \/ txd[m] > 0 <=> Owner(m) = "driver"
  /\ Owner(m) \in {"pool", "program", "driver"}

LEMMA OwnerOf ==
  ASSUME TypeOK, NEW m \in Mbufs, References(m) = 1
  PROVE  OwnerOfPlace(m)
  <1> DEFINE a == pool[m]
             b == rxq[m]
             c == rxd[m]
             d == txq[m]
             e == txd[m]
             f == lost[m]
             g == Held(m)
  <1>1. /\ a \in Nat /\ b \in Nat /\ c \in Nat /\ d \in Nat
        /\ e \in Nat /\ f \in Nat /\ g \in Nat
    BY CountType
  <1>2. a + b + c + d + e + f + g = 1
    BY DEF References
  <1>7. /\ a \in {0, 1} /\ f \in {0, 1} /\ g \in {0, 1}
        /\ f = 1 \/ g = 1 => a = 0 /\ b = 0 /\ c = 0 /\ d = 0 /\ e = 0
    <2> HIDE DEF a, b, c, d, e, f, g
    <2> QED
      BY <1>1, <1>2, OneOfSeven
  <1>3. Owner(m) = IF pool[m] = 1 THEN "pool"
                   ELSE IF lost[m] = 1 \/ Held(m) = 1 THEN "program" ELSE "driver"
    BY <1>1, <1>2 DEF Owner
  <1>4. CASE pool[m] = 1
    BY <1>1, <1>2, <1>3, <1>4 DEF OwnerOfPlace
  <1>5. CASE lost[m] = 1 \/ Held(m) = 1
    <2>1. pool[m] = 0 /\ rxq[m] = 0 /\ rxd[m] = 0 /\ txq[m] = 0 /\ txd[m] = 0
      BY <1>5, <1>7
    <2> QED
      BY <1>3, <1>5, <2>1 DEF OwnerOfPlace
  <1>6. CASE pool[m] = 0 /\ lost[m] = 0 /\ Held(m) = 0
    <2>1. rxq[m] > 0 \/ rxd[m] > 0 \/ txq[m] > 0 \/ txd[m] > 0
      BY <1>1, <1>2, <1>6
    <2>2. Owner(m) = "driver"
      BY <1>3, <1>6
    <2> QED
      BY <1>6, <2>1, <2>2 DEF OwnerOfPlace
  <1> QED
    BY <1>4, <1>5, <1>6, <1>7

(* Before any buffer is handed over twice, every one has an owner.         *)
Owned == \A m \in Mbufs : OwnerOfPlace(m) /\ References(m) = 1

SentOnce == \A m \in Mbufs : sent[m] <= 1

LEMMA OneOwner == IInv /\ SentOnce => Owned
  <1> SUFFICES ASSUME IInv, SentOnce, NEW m \in Mbufs
               PROVE  OwnerOfPlace(m) /\ References(m) = 1
    BY DEF Owned
  <1>1. References(m) = 1
    BY DEF IInv, MbufAccounting, SentOnce
  <1> QED
    BY <1>1, OwnerOf DEF IInv

(* The first burst, and the reception beside it, keep to the contract      *)
(* between a program and its driver: each step of rx_loop and the port, up *)
(* to the first that hands a buffer over again, is one that passes a       *)
(* buffer on by its owner, or none.                                        *)
THEOREM FirstBurstContract == Spec => Contract
  <1>1. Init => Owners!Init
    <2> SUFFICES ASSUME Init PROVE Owners!Init
      OBVIOUS
    <2>1. IInv
      BY InitIInv
    <2>2. ASSUME NEW m \in Mbufs PROVE Owner(m) \in {"pool", "program", "driver"}
      <3>1. sent[m] = 0
        BY DEF Init, Nowhere
      <3>2. References(m) = 1
        BY <2>1, <3>1 DEF IInv, MbufAccounting
      <3>3. OwnerOfPlace(m)
        BY <2>1, <3>2, OwnerOf DEF IInv
      <3> QED
        BY <3>3 DEF OwnerOfPlace
    <2> QED
      BY <2>2 DEF Owners!Init, owner
  <1>2. IInv /\ IInv' /\ [Next]_vars => FirstOwners
    <2> SUFFICES ASSUME IInv, IInv', [Next]_vars, SentOnce'
                 PROVE  Owners!Next \/ owner' = owner
      BY DEF FirstOwners, SentOnce
    <2>0. SentOnce
      <3> SUFFICES ASSUME NEW m \in Mbufs PROVE sent[m] <= 1
        BY DEF SentOnce
      <3>1. sent[m] \in Nat /\ sent[m] <= sent'[m] /\ sent'[m] <= 1
        BY SentGrows DEF SentOnce
      <3>2. sent'[m] \in Nat
        BY DEF IInv, TypeOK, Places
      <3> QED
        BY <3>1, <3>2
    <2>1. Owned /\ Owned'
      BY <2>0, OneOwner, PTL
    <2>2. TypeOK /\ TypeOK'
      BY DEF IInv
    <2>3. ASSUME UNCHANGED buffers, UNCHANGED fixed PROVE owner' = owner
      BY <2>3 DEF owner, Owner, References, Held, InBurst, Among, NbPkts, buffers, fixed
    <2>4. ASSUME UNCHANGED fixed PROVE \A x \in Mbufs : InBurst(x)' = InBurst(x)
      BY <2>4 DEF fixed, InBurst, Among, NbPkts
    <2>a. ASSUME NEW x \in Mbufs,
                 pool'[x] = pool[x], rxq'[x] = rxq[x], rxd'[x] = rxd[x],
                 txq'[x] = txq[x], txd'[x] = txd[x], lost'[x] = lost[x],
                 sent'[x] = sent[x], UNCHANGED fixed
          PROVE  Owner(x)' = Owner(x)
      <3>1. Held(x)' = Held(x)
        BY <2>4, <2>a DEF Held
      <3> QED
        BY <2>a, <3>1 DEF Owner, References
    <2>b. /\ pool \in Places /\ rxq \in Places /\ rxd \in Places /\ txq \in Places
          /\ txd \in Places /\ lost \in Places /\ sent \in Places
      BY <2>2 DEF TypeOK
    <2>c. \A x \in Mbufs : OwnerOfPlace(x) /\ OwnerOfPlace(x)'
      BY <2>1 DEF Owned
    <2>5. ASSUME NEW m \in Mbufs, TxClean(m) PROVE Owners!GiveBack(m)
      <3>1. Owner(m) = "driver"
        BY <2>5, <2>c DEF TxClean, OwnerOfPlace
      <3>2. pool'[m] = pool[m] + 1 /\ pool[m] \in Nat
        BY <2>5, <2>b, PutType DEF TxClean, Places
      <3>3. Owner(m)' = "pool"
        BY <2>c, <3>2 DEF OwnerOfPlace
      <3>4. ASSUME NEW x \in Mbufs, x # m PROVE Owner(x)' = Owner(x)
        <4>1. pool'[x] = pool[x] /\ txd'[x] = txd[x]
          BY <2>5, <2>b, <3>4, PutType, TakeType DEF TxClean
        <4> QED
          BY <2>5, <2>a, <4>1 DEF TxClean
      <3> QED
        BY <3>1, <3>3, <3>4 DEF Owners!GiveBack, owner
    <2>6. ASSUME NEW k \in 0 .. NbPkts, Send(k)
          PROVE  Owners!HandOver({m \in Mbufs : Among(m, k)})
      <3>1. /\ \A m \in Mbufs : txq'[m] = IF Among(m, k) THEN txq[m] + 1 ELSE txq[m]
            /\ \A m \in Mbufs : sent'[m] = IF Among(m, k) THEN sent[m] + 1 ELSE sent[m]
        BY <2>6, <2>b, HandType DEF Send, HandOver
      <3>2. ASSUME NEW m \in Mbufs, Among(m, k)
            PROVE  Owner(m) = "program" /\ Owner(m)' = "driver"
        <4>1. sent[m] \in Nat /\ txq[m] \in Nat /\ sent'[m] <= 1
          BY <2>b DEF Places, SentOnce
        <4>2. InBurst(m)
          BY <2>2, <3>2, BurstLength DEF InBurst, Among
        <4>3. Held(m) = 1 /\ txq'[m] > 0
          BY <3>1, <3>2, <4>1, <4>2 DEF Held
        <4> QED
          BY <2>c, <4>3 DEF OwnerOfPlace
      <3>3. ASSUME NEW x \in Mbufs, ~ Among(x, k) PROVE Owner(x)' = Owner(x)
        BY <2>6, <2>a, <3>1, <3>3 DEF Send, HandOver
      <3> QED
        BY <3>2, <3>3 DEF Owners!HandOver, owner
    <2>7. ASSUME NEW m \in Mbufs, NEW m2 \in Mbufs, Receive(m, m2)
          PROVE  Owners!Exchange(m, m2)
      <3>1. Owner(m) = "driver" /\ Owner(m2) = "pool" /\ m # m2
        BY <2>7, <2>c DEF Receive, OwnerOfPlace
      <3>2. /\ lost'[m] = lost[m] + 1 /\ lost[m] \in Nat
            /\ rxq'[m2] = rxq[m2] + 1 /\ rxq[m2] \in Nat
        BY <2>7, <2>b, PutType DEF Receive, Places
      <3>3. Owner(m)' = "program" /\ Owner(m2)' = "driver"
        BY <2>c, <3>2 DEF OwnerOfPlace
      <3>4. ASSUME NEW x \in Mbufs, x # m, x # m2 PROVE Owner(x)' = Owner(x)
        <4>1. pool'[x] = pool[x] /\ rxd'[x] = rxd[x]
          BY <2>7, <2>b, <3>4, TakeType DEF Receive
        <4>2. rxq'[x] = rxq[x] /\ lost'[x] = lost[x]
          BY <2>7, <2>b, <3>4, PutType DEF Receive
        <4> QED
          BY <2>7, <2>a, <4>1, <4>2 DEF Receive
      <3> QED
        BY <3>1, <3>3, <3>4 DEF Owners!Exchange, owner
    <2>8. ASSUME NEW m \in Mbufs, Transmit(m) \/ Arrive(m) PROVE owner' = owner
      <3>1. Owner(m) = "driver"
        BY <2>8, <2>c DEF Transmit, Arrive, OwnerOfPlace
      <3>2. Owner(m)' = "driver"
        <4>1. CASE Transmit(m)
          <5>1. txd'[m] = txd[m] + 1 /\ txd[m] \in Nat
            BY <2>b, <4>1, PutType DEF Transmit, Places
          <5> QED
            BY <2>c, <5>1 DEF OwnerOfPlace
        <4>2. CASE Arrive(m)
          <5>1. rxd'[m] = rxd[m] + 1 /\ rxd[m] \in Nat
            BY <2>b, <4>2, PutType DEF Arrive, Places
          <5> QED
            BY <2>c, <5>1 DEF OwnerOfPlace
        <4> QED
          BY <2>8, <4>1, <4>2
      <3>3. ASSUME NEW x \in Mbufs, x # m PROVE Owner(x)' = Owner(x)
        <4>1. CASE Transmit(m)
          <5>1. txq'[x] = txq[x] /\ txd'[x] = txd[x]
            BY <2>b, <3>3, <4>1, PutType, TakeType DEF Transmit
          <5> QED
            BY <2>a, <4>1, <5>1 DEF Transmit
        <4>2. CASE Arrive(m)
          <5>1. rxq'[x] = rxq[x] /\ rxd'[x] = rxd[x]
            BY <2>b, <3>3, <4>2, PutType, TakeType DEF Arrive
          <5> QED
            BY <2>a, <4>2, <5>1 DEF Arrive
        <4> QED
          BY <2>8, <4>1, <4>2
      <3> QED
        BY <3>1, <3>2, <3>3 DEF owner
    <2>9. CASE TimeIsUp \/ Iterate \/ ReceiveEnd \/ Report
      BY <2>2, <2>3, <2>9, TypeProgram
    <2>10. CASE Miss \/ Clock
      BY <2>2, <2>3, <2>10, TypeWorld
    <2>11. CASE UNCHANGED vars
      BY <2>3, <2>11 DEF vars
    <2> QED
      BY <2>5, <2>6, <2>7, <2>8, <2>9, <2>10, <2>11
         DEF Next, Program, Port, Owners!Next
  <1>3. QED
    BY <1>1, <1>2, Inductive, PTL DEF Spec, Contract

=============================================================================
