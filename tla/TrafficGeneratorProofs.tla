----------------------- MODULE TrafficGeneratorProofs ------------------------
(***************************************************************************)
(* Proofs about the whole program: that main with the steps of the loader, *)
(* of rx_loop and of the port in it is the main of Startup, where only     *)
(* their results are, and that no buffer is lost on its way through all of *)
(* them; for every capture, pool, ring, period and duration.               *)
(***************************************************************************)
EXTENDS TrafficGenerator, StartupProofs, MempoolProofs

LoaderP == INSTANCE PcapLoaderProofs

LoopP == INSTANCE RxLoopProofs WITH pc <- loop_pc, summary <- counts,
                                    running <- port = "started", Bursts <- Arrays

BeforePort == {"eal", "config", "pool", "ports", "queues", "start"}

Ran == port \in {"started", "stopped"}

(* A port that was never started has received nothing, counts nothing, and *)
(* so nothing but zeros is reported of it.                                 *)
Silent ==
  /\ pc \in BeforePort => ~ Ran
  /\ ~ Ran => rxd = Nowhere /\ stats = Loop!Zero /\ counts = Loop!Zero

-----------------------------------------------------------------------------

(* Steps of rx_loop.                                                       *)
LEMMA ProgramSilent ==
  ASSUME rxd = Nowhere, stats = Loop!Zero, counts = Loop!Zero, port # "started",
         Loop!Program
  PROVE  rxd' = Nowhere /\ stats' = Loop!Zero /\ counts' = Loop!Zero
  <1>1. \A m \in Mbufs : rxd[m] = 0
    BY DEF Nowhere
  <1>2. Loop!Exhausted(rxd)
    BY <1>1 DEF Loop!Exhausted
  <1> USE DEF Loop!buffers, Loop!program, Loop!world, Loop!fixed
  <1>3. CASE Loop!TimeIsUp \/ Loop!Iterate
    BY <1>3 DEF Loop!TimeIsUp, Loop!Iterate
  <1>4. CASE Loop!ReceiveEnd
    <2> DEFINE none == stats.nombuf \/ (~ Loop!Exhausted(rxd) /\ got < Loop!NbPkts)
    <2>1. stats' = [stats EXCEPT !.nombuf = none]
      BY <1>4, Zenon DEF Loop!ReceiveEnd
    <2>4. rxd' = rxd /\ counts' = counts
      BY <1>4 DEF Loop!ReceiveEnd
    <2>2. stats.nombuf = FALSE
      BY DEF Loop!Zero
    <2>3. none = FALSE
      BY ONLY <1>2, <2>2, Zenon
    <2> HIDE DEF none
    <2> QED
      BY <2>1, <2>3, <2>4 DEF Loop!Zero
  <1>5. CASE Loop!Report
    BY <1>5 DEF Loop!Report, Loop!Summary
  <1>6. ASSUME NEW k \in 0 .. Loop!NbPkts, Loop!Send(k)
        PROVE  rxd' = Nowhere /\ stats' = Loop!Zero /\ counts' = Loop!Zero
    BY <1>6 DEF Loop!Send
  <1>7. ASSUME NEW m \in Mbufs, Loop!TxClean(m)
        PROVE  rxd' = Nowhere /\ stats' = Loop!Zero /\ counts' = Loop!Zero
    BY <1>7 DEF Loop!TxClean
  <1>8. ASSUME NEW m \in Mbufs, NEW m2 \in Mbufs, Loop!Receive(m, m2)
        PROVE  FALSE
    BY <1>1, <1>8 DEF Loop!Receive
  <1> QED
    BY <1>3, <1>4, <1>5, <1>6, <1>7, <1>8 DEF Loop!Program

(* Steps of the port and of the clock.                                     *)
LEMMA WorldSilent ==
  ASSUME Loop!Port \/ Loop!Tick
  PROVE  /\ Loop!Port => port = "started"
         /\ Loop!Tick => UNCHANGED <<rxd, stats, counts>>
  BY DEF Loop!Port, Loop!Tick, Loop!Miss, Loop!Transmit, Loop!Arrive, Loop!buffers,
    Loop!program, Loop!fixed

-----------------------------------------------------------------------------

(* Each step of the program is one of Startup's main, or one inside a call *)
(* of which Startup has the result only.                                   *)
LEMMA ThreadRefines ==
  ASSUME IInv, Silent, Thread
  PROVE  Main \/ UNCHANGED vars
  <1>1. CASE Create \/ Start \/ Wait \/ Open
    BY <1>1 DEF Create, Start, Wait, Open, Main
  <1>2. CASE Check
    BY <1>2 DEF Check, CheckFile, Require, Main
  <1>3. CASE Load \/ LoopStep
    BY <1>3 DEF Load, LoopStep
  <1>4. CASE Loaded
    <2>1. mbuf_pool # "NULL"
      BY <1>4 DEF Loaded, IInv, Reached, Linear
    <2>2. CASE Goto("crashed")
      BY <1>4, <2>2 DEF Loaded, LoadPackets, Main
    <2>3. ASSUME NEW mac \in BOOLEAN, NEW dut \in BOOLEAN,
                 Require(pkt_num # 0 /\ mac /\ dut, "loop")
          PROVE  LoadPackets
      <3>1. PICK loaded \in BOOLEAN : loaded <=> pkt_num # 0
        OBVIOUS
      <3>2. Require(loaded /\ mac /\ dut, "loop")
        BY <2>3, <3>1 DEF Require
      <3> QED
        BY <1>4, <2>1, <3>2 DEF Loaded, LoadPackets
    <2> QED
      BY <1>4, <2>2, <2>3 DEF Loaded, Main
  <1>5. CASE LoopReturns
    BY <1>5 DEF LoopReturns, RunLoop, Counted, Silent, Ran, Main
  <1>6. CASE \/ EalInit \/ Configure \/ CountPorts \/ InitQueues \/ OpenYaml
             \/ PrsCfg \/ PrintCfg \/ OpenSummary \/ CloseSummary
    BY <1>6 DEF Main
  <1> QED
    BY <1>1, <1>2, <1>3, <1>4, <1>5, <1>6 DEF Thread

LEMMA StepRefines ==
  ASSUME IInv, Silent, [SystemNext]_all
  PROVE  [Next]_vars
  <1>1. CASE Thread
    BY <1>1, ThreadRefines DEF Next
  <1>2. CASE PortStep \/ TimePasses
    BY <1>2 DEF PortStep, TimePasses
  <1>3. CASE LinkChange \/ Kill
    BY <1>3 DEF Next
  <1>4. CASE UNCHANGED all
    BY <1>4 DEF all
  <1> QED
    BY <1>1, <1>2, <1>3, <1>4 DEF SystemNext

LEMMA SilentStep ==
  ASSUME IInv, Silent, [SystemNext]_all
  PROVE  Silent'
  <1> USE DEF Silent, Ran, BeforePort, Goto, Return, Require, device, path, ring, looping
  <1>1. CASE Create
    BY <1>1 DEF Create, CreatePool, MakePool
  <1>2. CASE Start
    BY <1>2 DEF Start, StartPort, DevStart, PostRing
  <1>3. CASE Wait
    BY <1>3 DEF Wait, WaitForLink, PollLink, StartSettled, Settled, DrainRing
  <1>4. CASE Open
    BY <1>4 DEF Open, OpenPcap, OpenCapture
  <1>5. CASE Check
    BY <1>5 DEF Check, CheckCapture
  <1>6. CASE Load
    BY <1>6 DEF Load, LoadOne, vars
  <1>7. CASE Loaded
    BY <1>7 DEF Loaded, EnterLoop
  <1>8. CASE LoopStep
    BY <1>8, ProgramSilent DEF LoopStep, InLoop, vars
  <1>9. CASE LoopReturns
    BY <1>9 DEF LoopReturns
  <1>10. CASE /\ \/ EalInit \/ Configure \/ CountPorts \/ InitQueues \/ OpenYaml
                 \/ PrsCfg \/ PrintCfg \/ OpenSummary \/ CloseSummary
              /\ UNCHANGED path
    BY <1>10 DEF EalInit, Configure, CountPorts, InitQueues, OpenYaml, PrsCfg, PrintCfg,
      OpenSummary, CloseSummary, InitRxTxQueues
  <1>11. CASE PortStep
    BY <1>11 DEF PortStep, vars
  <1>12. CASE TimePasses
    BY <1>12, WorldSilent DEF TimePasses, InLoop, vars
  <1>13. CASE (LinkChange \/ Kill) /\ UNCHANGED path
    BY <1>13 DEF LinkChange, Kill
  <1>14. CASE UNCHANGED all
    BY <1>14 DEF all, vars
  <1> QED
    BY <1>1, <1>2, <1>3, <1>4, <1>5, <1>6, <1>7, <1>8, <1>9, <1>10, <1>11, <1>12, <1>13,
     <1>14
    DEF SystemNext, Thread

LEMMA InitSilent ==
  ASSUME SystemInit
  PROVE  Init /\ IInv /\ Silent
  <1>1. Init /\ IInv
    BY InitIInv DEF SystemInit
  <1>2. Silent
    BY DEF SystemInit, Init, EthDevInit, PathInit, Silent, Ran
  <1> QED
    BY <1>1, <1>2

(* The whole program is the program of Startup: what that module says of   *)
(* main's failures, and of the file it leaves, holds of the program with   *)
(* its real loader, loop and port.                                         *)
THEOREM ProgramIsStartup == System => Spec
  <1> DEFINE Both == IInv /\ Silent
  <1>1. SystemInit => Both /\ Init
    BY InitSilent
  <1>2. Both /\ [SystemNext]_all => Both' /\ [Next]_vars
    <2>1. ASSUME Both, [SystemNext]_all PROVE [Next]_vars
      BY <2>1, StepRefines
    <2>2. ASSUME Both, [SystemNext]_all PROVE IInv'
      BY <2>2, StepRefines, FlowStep, SetUpStep DEF IInv
    <2>3. ASSUME Both, [SystemNext]_all PROVE Silent'
      BY <2>3, SilentStep
    <2> QED
      BY <2>1, <2>2, <2>3
  <1> HIDE DEF Both
  <1> QED
    BY <1>1, <1>2, PTL DEF System, Spec

-----------------------------------------------------------------------------

(* Where the buffers are.  Before the loop nothing was handed over, before *)
(* the port starts its ring is empty.                                      *)
BuffersType ==
  /\ pool \in [Mbufs -> Nat] /\ rxq \in [Mbufs -> Nat] /\ rxd \in [Mbufs -> Nat]
  /\ txq \in [Mbufs -> Nat] /\ txd \in [Mbufs -> Nat] /\ lost \in [Mbufs -> Nat]
  /\ sent \in [Mbufs -> Nat] /\ tx_packets \in Seq(Mbufs)

AfterLoad == {"loop", "save", "close"} \cup Final

Untouched(m) ==
  /\ mbuf_pool # "pool" \/ pc \notin AfterLoad => sent[m] = 0
  /\ pc \in BeforePort => rxq[m] = 0

LifeInv == BuffersType /\ WholeLife /\ \A m \in Mbufs : Untouched(m)

Placed(m) == pool[m] + rxq[m] + rxd[m] + txq[m] + txd[m] + lost[m]

InHands(m) == IF m \in Loader!Loaded /\ sent[m] = 0 THEN 1 ELSE 0

Owed(m) == IF mbuf_pool # "pool" THEN 0 ELSE IF sent[m] <= 1 THEN 1 ELSE sent[m]

LEMMA Counts ==
  ASSUME BuffersType, NEW m \in Mbufs
  PROVE  /\ pool[m] \in Nat /\ rxq[m] \in Nat /\ rxd[m] \in Nat /\ txq[m] \in Nat
         /\ txd[m] \in Nat /\ lost[m] \in Nat /\ sent[m] \in Nat
         /\ Placed(m) \in Nat
  BY DEF BuffersType, Placed

(* A reference more, or less.                                              *)
LEMMA OneMore ==
  ASSUME NEW place \in [Mbufs -> Nat], NEW m \in Mbufs,
         NEW more, more = [place EXCEPT ![m] = place[m] + 1]
  PROVE  /\ more \in [Mbufs -> Nat] /\ more[m] = place[m] + 1
         /\ \A x \in Mbufs \ {m} : more[x] = place[x]
  OBVIOUS

LEMMA OneLess ==
  ASSUME NEW place \in [Mbufs -> Nat], NEW m \in Mbufs, place[m] > 0,
         NEW less, less = [place EXCEPT ![m] = place[m] - 1]
  PROVE  /\ less \in [Mbufs -> Nat] /\ less[m] = place[m] - 1
         /\ \A x \in Mbufs \ {m} : less[x] = place[x]
  OBVIOUS

LEMMA LifeIs == WholeLife <=> \A m \in Mbufs : Placed(m) + InHands(m) = Owed(m)
  BY DEF WholeLife, References, Placed, InHands, Owed

(* A step that only moves references, from one place to another.           *)
LEMMA Moves ==
  ASSUME WholeLife, UNCHANGED <<sent, tx_packets, mbuf_pool>>,
         \A m \in Mbufs : Placed(m)' = Placed(m)
  PROVE  WholeLife'
  <1>1. \A m \in Mbufs : InHands(m)' = InHands(m) /\ Owed(m)' = Owed(m)
    BY DEF InHands, Owed, Loader!Loaded
  <1>2. \A m \in Mbufs : Placed(m)' + InHands(m)' = Owed(m)'
    BY <1>1, LifeIs
  <1> QED
    BY <1>2 DEF WholeLife, References, Placed, InHands, Owed

LEMMA InitLife ==
  ASSUME SystemInit
  PROVE  LifeInv
  <1>1. /\ BuffersType /\ mbuf_pool # "pool" /\ pc \in BeforePort
        /\ \A m \in Mbufs : Untouched(m)
    BY DEF SystemInit, Init, PoolInit, PathInit, BuffersType, Nowhere, Untouched, BeforePort
  <1>2. Loader!Loaded = {}
    BY DEF SystemInit, PathInit, Loader!Loaded
  <1>3. \A m \in Mbufs : Placed(m) = 0 /\ InHands(m) = 0
    BY <1>2 DEF SystemInit, PathInit, Nowhere, Placed, InHands
  <1>4. WholeLife
    BY <1>1, <1>3, LifeIs DEF Owed
  <1> QED
    BY <1>1, <1>4 DEF LifeInv

-----------------------------------------------------------------------------

(* The pool is made.                                                       *)
LEMMA CreateLife ==
  ASSUME IInv, LifeInv, Create
  PROVE  LifeInv'
  <1>1. /\ mbuf_pool # "pool" /\ pc = "pool" /\ pc' = "ports" /\ BuffersType
    BY DEF Create, CreatePool, Goto, IInv, Reached, LifeInv
  <1>2. /\ UNCHANGED <<rxq, rxd, txq, txd, lost, sent, tx_packets>>
        /\ IF mbuf_pool' = "pool" THEN pool' = [m \in Mbufs |-> 1] ELSE pool' = pool
    BY DEF Create, MakePool, path, loading, ring, looping
  <1>7. /\ pool' \in [Mbufs -> Nat]
        /\ \A m \in Mbufs : pool'[m] = IF mbuf_pool' = "pool" THEN 1 ELSE pool[m]
    <2>1. CASE mbuf_pool' = "pool"
      <3>1. pool' = [m \in Mbufs |-> 1]
        BY <1>2, <2>1
      <3> QED
        BY <2>1, <3>1
    <2>2. CASE mbuf_pool' # "pool"
      <3>1. pool' = pool
        BY <1>2, <2>2
      <3> QED
        BY <1>1, <2>2, <3>1 DEF BuffersType
    <2> QED
      BY <2>1, <2>2
  <1>3. BuffersType'
    BY <1>1, <1>2, <1>7 DEF BuffersType
  <1>4. ASSUME NEW m \in Mbufs
        PROVE  /\ Untouched(m)' /\ Placed(m) = 0 /\ InHands(m) = 0 /\ sent[m] = 0
    <2>1. sent[m] = 0 /\ rxq[m] = 0
      BY <1>1 DEF LifeInv, Untouched, BeforePort
    <2>2. Placed(m) + InHands(m) = 0
      BY <1>1, LifeIs DEF LifeInv, Owed
    <2>3. InHands(m) \in {0, 1}
      BY DEF InHands
    <2> QED
      BY <1>1, <1>2, <2>1, <2>2, <2>3, Counts DEF Untouched
  <1>5. ASSUME NEW m \in Mbufs
        PROVE  Placed(m)' + InHands(m)' = Owed(m)'
    <2>1. InHands(m)' = 0
      BY <1>2, <1>4 DEF InHands, Loader!Loaded
    <2>2. Placed(m)' = IF mbuf_pool' = "pool" THEN 1 ELSE 0
      <3>1. /\ pool[m] = 0 /\ rxq[m] = 0 /\ rxd[m] = 0 /\ txq[m] = 0 /\ txd[m] = 0
            /\ lost[m] = 0
        <4>1. /\ pool[m] \in Nat /\ rxq[m] \in Nat /\ rxd[m] \in Nat /\ txq[m] \in Nat
              /\ txd[m] \in Nat /\ lost[m] \in Nat
          BY <1>1, Counts
        <4>2. Placed(m) = 0
          BY <1>4
        <4>3. pool[m] + rxq[m] + rxd[m] + txq[m] + txd[m] + lost[m] = 0
          BY ONLY <4>2 DEF Placed
        <4> DEFINE five == pool[m] + rxq[m] + rxd[m] + txq[m] + txd[m]
                   three == pool[m] + rxq[m] + rxd[m]
        <4>4. five \in Nat /\ three \in Nat /\ five = three + txq[m] + txd[m]
          BY ONLY <4>1
        <4>5. five = 0 /\ lost[m] = 0
          <5> HIDE DEF five
          <5>1. five + lost[m] = 0
            BY ONLY <4>3 DEF five
          <5> QED
            BY ONLY <4>1, <4>4, <5>1
        <4>6. three = 0 /\ txq[m] = 0 /\ txd[m] = 0
          <5> HIDE DEF five, three
          <5> QED
            BY ONLY <4>1, <4>4, <4>5
        <4>7. pool[m] = 0 /\ rxq[m] = 0 /\ rxd[m] = 0
          BY ONLY <4>1, <4>6
        <4> QED
          BY ONLY <4>5, <4>6, <4>7
      <3>2. pool'[m] = IF mbuf_pool' = "pool" THEN 1 ELSE 0
        BY <1>7, <3>1
      <3>3. /\ rxq'[m] = 0 /\ rxd'[m] = 0 /\ txq'[m] = 0 /\ txd'[m] = 0 /\ lost'[m] = 0
        BY <1>2, <3>1
      <3> HIDE DEF Placed
      <3>4. Placed(m)' = pool'[m] + rxq'[m] + rxd'[m] + txq'[m] + txd'[m] + lost'[m]
        BY DEF Placed
      <3> QED
        BY <3>2, <3>3, <3>4
    <2> QED
      BY <1>2, <1>4, <2>1, <2>2 DEF Owed
  <1>6. WholeLife'
    BY <1>5 DEF WholeLife, References, Placed, InHands, Owed
  <1> QED
    BY <1>3, <1>4, <1>6 DEF LifeInv

(* The receiver's ring is filled,                                          *)
LEMMA StartLife ==
  ASSUME LifeInv, Start
  PROVE  LifeInv'
  <1>1. /\ pc = "start" /\ pc' \in {"poll", "yaml"} /\ mbuf_pool' = mbuf_pool
        /\ UNCHANGED <<rxd, txq, txd, lost, sent, tx_packets>>
    BY DEF Start, StartPort, Goto, PostRing, pooling, path, loading, ring, looping
  <1>2. \A m \in Mbufs : Untouched(m)'
    BY <1>1 DEF LifeInv, Untouched, BeforePort, AfterLoad, Final
  <1>3. CASE UNCHANGED path
    <2>1. pool' = pool /\ rxq' = rxq
      BY <1>3 DEF path, ring
    <2> QED
      BY <1>1, <1>2, <2>1, Moves DEF LifeInv, BuffersType, Placed
  <1>4. CASE PostRing
    <2>1. PICK S \in SUBSET {m \in Mbufs : pool[m] > 0} :
            /\ pool' = [m \in Mbufs |-> pool[m] - (IF m \in S THEN 1 ELSE 0)]
            /\ rxq' = [m \in Mbufs |-> IF m \in S THEN 1 ELSE 0]
      BY <1>4 DEF PostRing, kSubset
    <2>2. BuffersType'
      BY <1>1, <2>1 DEF LifeInv, BuffersType
    <2>3. ASSUME NEW m \in Mbufs PROVE Placed(m)' = Placed(m)
      <3>1. rxq[m] = 0
        BY <1>1 DEF LifeInv, Untouched, BeforePort
      <3> QED
        BY <1>1, <2>1, <3>1, Counts DEF LifeInv, Placed
    <2> QED
      BY <1>1, <1>2, <2>2, <2>3, Moves DEF LifeInv
  <1> QED
    BY <1>3, <1>4 DEF Start

(* and given back.                                                         *)
LEMMA WaitLife ==
  ASSUME LifeInv, Wait
  PROVE  LifeInv'
  <1>1. /\ pc = "poll" /\ pc' \in {"poll", "yaml"} /\ mbuf_pool' = mbuf_pool
        /\ UNCHANGED <<txq, txd, lost, sent, tx_packets>>
    BY DEF Wait, WaitForLink, Goto, DrainRing, pooling, path, loading, ring, looping
  <1>2. \A m \in Mbufs : Untouched(m)'
    BY <1>1 DEF LifeInv, Untouched, BeforePort, AfterLoad, Final
  <1>3. CASE UNCHANGED path
    <2>1. pool' = pool /\ rxq' = rxq /\ rxd' = rxd
      BY <1>3 DEF path, ring
    <2> QED
      BY <1>1, <1>2, <2>1, Moves DEF LifeInv, BuffersType, Placed
  <1>4. CASE DrainRing
    <2>1. /\ pool' = [m \in Mbufs |-> pool[m] + rxq[m] + rxd[m]]
          /\ rxq' = [m \in Mbufs |-> 0] /\ rxd' = [m \in Mbufs |-> 0]
      BY <1>4 DEF DrainRing, Nowhere
    <2>2. BuffersType'
      BY <1>1, <2>1 DEF LifeInv, BuffersType
    <2>3. ASSUME NEW m \in Mbufs PROVE Placed(m)' = Placed(m)
      BY <1>1, <2>1, Counts DEF LifeInv, Placed
    <2> QED
      BY <1>1, <1>2, <2>2, <2>3, Moves DEF LifeInv
  <1> QED
    BY <1>3, <1>4 DEF Wait

(* The loader takes, gives back, keeps or loses a buffer.                  *)
LEMMA LoadLife ==
  ASSUME IInv, LifeInv, Load
  PROVE  LifeInv'
  <1>1. /\ pc = "load" /\ UNCHANGED <<pc, mbuf_pool>> /\ mbuf_pool = "pool"
        /\ UNCHANGED <<rxq, rxd, txq, txd, sent>> /\ BuffersType
    BY DEF Load, LoadOne, vars, pooling, ring, looping, LifeInv
  <1>2. \A m \in Mbufs : Untouched(m)' /\ sent[m] = 0 /\ sent'[m] = 0
    BY <1>1 DEF LifeInv, Untouched, BeforePort, AfterLoad, Final
  <1>3. \A m \in Mbufs : Placed(m) + InHands(m) = 1
    BY <1>1, <1>2, LifeIs DEF LifeInv, Owed
  <1>4. ASSUME UNCHANGED <<pool, lost, tx_packets>> PROVE LifeInv'
    BY <1>1, <1>2, <1>4, Moves DEF LifeInv, BuffersType, Placed
  <1>5. CASE Loader!NoMbuf
    BY <1>4, <1>5 DEF Loader!NoMbuf, Loader!Finish
  <1>6. ASSUME NEW m \in Mbufs, Loader!GetPacket(m) PROVE LifeInv'
    <2>1. pool[m] \in Nat /\ pool[m] > 0 /\ lost[m] \in Nat
      BY <1>1, <1>6, Counts DEF Loader!GetPacket
    <2>2. ASSUME Loader!Release(m), UNCHANGED <<lost, tx_packets>> PROVE LifeInv'
      <3>1. pool' = pool
        BY <1>1, <2>1, <2>2
        DEF BuffersType, Loader!Release, Loader!Alloc, Loader!Put, Loader!Take
      <3> QED
        BY <1>4, <2>2, <3>1
    <2>3. CASE Loader!HeaderAtEof(m)
      <3>1. /\ pool' = [pool EXCEPT ![m] = pool[m] - 1] /\ lost' = [lost EXCEPT ![m] = lost[m] + 1]
            /\ tx_packets' = tx_packets
        BY <2>3
        DEF Loader!HeaderAtEof, Loader!Finish, Loader!Alloc, Loader!Put, Loader!Take
      <3>2. BuffersType'
        BY <1>1, <2>1, <3>1 DEF BuffersType
      <3>3. ASSUME NEW x \in Mbufs PROVE Placed(x)' = Placed(x)
        <4>1. /\ pool[x] \in Nat /\ rxq[x] \in Nat /\ rxd[x] \in Nat /\ txq[x] \in Nat
              /\ txd[x] \in Nat /\ lost[x] \in Nat
          BY <1>1, Counts
        <4>2. /\ pool'[x] = IF x = m THEN pool[x] - 1 ELSE pool[x]
              /\ lost'[x] = IF x = m THEN lost[x] + 1 ELSE lost[x]
          BY <1>1, <3>1 DEF BuffersType
        <4>3. rxq'[x] = rxq[x] /\ rxd'[x] = rxd[x] /\ txq'[x] = txq[x] /\ txd'[x] = txd[x]
          BY <1>1
        <4> QED
          BY ONLY <4>1, <4>2, <4>3 DEF Placed
      <3> QED
        BY <1>1, <1>2, <3>1, <3>2, <3>3, Moves DEF LifeInv
    <2>4. CASE Loader!ReadError(m) \/ Loader!DataAtEof(m) \/ Loader!Refused(m)
      BY <2>2, <2>4 DEF Loader!ReadError, Loader!DataAtEof, Loader!Refused, Loader!Finish
    <2>5. CASE Loader!Overrun(m)
      BY <1>4, <2>5 DEF Loader!Overrun
    <2>6. CASE Loader!Stored(m)
      <3>1. /\ pool' = [pool EXCEPT ![m] = pool[m] - 1] /\ lost' = lost
            /\ tx_packets' = Append(tx_packets, m)
        BY <2>6 DEF Loader!Stored, Loader!Alloc, Loader!Take
      <3>2. BuffersType'
        BY <1>1, <2>1, <3>1 DEF BuffersType
      <3>3. Loader!Loaded' = Loader!Loaded \cup {m}
        <4>1. /\ Len(tx_packets) \in Nat /\ DOMAIN tx_packets = 1 .. Len(tx_packets)
              /\ DOMAIN tx_packets' = 1 .. Len(tx_packets) + 1
              /\ tx_packets'[Len(tx_packets) + 1] = m
              /\ \A i \in DOMAIN tx_packets : tx_packets'[i] = tx_packets[i]
          <5>1. tx_packets \in Seq(Mbufs) /\ tx_packets' = Append(tx_packets, m)
            BY <1>1, <3>1 DEF BuffersType
          <5>2. /\ Len(tx_packets) \in Nat /\ DOMAIN tx_packets = 1 .. Len(tx_packets)
                /\ Len(tx_packets') = Len(tx_packets) + 1 /\ tx_packets' \in Seq(Mbufs)
            BY ONLY <5>1, m \in Mbufs
          <5>3. /\ tx_packets'[Len(tx_packets) + 1] = m
                /\ \A i \in 1 .. Len(tx_packets) : tx_packets'[i] = tx_packets[i]
            BY ONLY <5>1, <5>2, m \in Mbufs
          <5>4. DOMAIN tx_packets' = 1 .. Len(tx_packets')
            BY ONLY <5>2
          <5> QED
            BY <5>2, <5>3, <5>4
        <4>2. \A i \in DOMAIN tx_packets' :
                i \in DOMAIN tx_packets \/ i = Len(tx_packets) + 1
          BY <4>1
        <4>3. DOMAIN tx_packets \subseteq DOMAIN tx_packets'
              /\ Len(tx_packets) + 1 \in DOMAIN tx_packets'
          BY <4>1
        <4> QED
          BY <4>1, <4>2, <4>3 DEF Loader!Loaded
      <3>4. m \notin Loader!Loaded
        <4>1. Placed(m) > 0
          BY <1>1, <2>1, Counts DEF Placed
        <4> QED
          BY <1>1, <1>2, <1>3, <4>1, Counts DEF InHands
      <3>5. ASSUME NEW x \in Mbufs PROVE Placed(x)' + InHands(x)' = Owed(x)'
        <4>1. CASE x = m
          <5>1. Placed(m)' = Placed(m) - 1
            <6>1. /\ pool[m] \in Nat /\ rxq[m] \in Nat /\ rxd[m] \in Nat /\ txq[m] \in Nat
                  /\ txd[m] \in Nat /\ lost[m] \in Nat
              BY <1>1, Counts
            <6>2. pool'[m] = pool[m] - 1
              BY <1>1, <3>1 DEF BuffersType
            <6>3. /\ rxq'[m] = rxq[m] /\ rxd'[m] = rxd[m] /\ txq'[m] = txq[m]
                  /\ txd'[m] = txd[m] /\ lost'[m] = lost[m]
              BY <1>1, <3>1
            <6> QED
              BY ONLY <6>1, <6>2, <6>3 DEF Placed
          <5>2. InHands(m)' = 1 /\ InHands(m) = 0
            BY <1>2, <3>3, <3>4 DEF InHands
          <5> QED
            BY <1>1, <1>2, <1>3, <4>1, <5>1, <5>2, Counts DEF Owed
        <4>2. CASE x # m
          <5>1. Placed(x)' = Placed(x) /\ InHands(x)' = InHands(x)
            BY <1>1, <1>2, <3>1, <3>3, <4>2, Counts DEF BuffersType, Placed, InHands
          <5> QED
            BY <1>1, <1>2, <1>3, <5>1 DEF Owed
        <4> QED
          BY <4>1, <4>2
      <3>6. WholeLife'
        BY <3>5 DEF WholeLife, References, Placed, InHands, Owed
      <3> QED
        BY <1>2, <3>2, <3>6 DEF LifeInv
    <2> QED
      BY <1>6, <2>3, <2>4, <2>5, <2>6 DEF Loader!GetPacket
  <1> QED
    BY <1>5, <1>6 DEF Load, LoadOne

(* rx_loop, with DPDK on its thread: what is handed over for the first     *)
(* time leaves its hands, and what is handed over again is there twice.    *)
LEMMA SendLife ==
  ASSUME LifeInv, mbuf_pool = "pool", UNCHANGED <<pc, mbuf_pool>>, pc = "loop",
         NEW k \in 0 .. Loop!NbPkts, Loop!Send(k)
  PROVE  LifeInv'
  <1>1. /\ UNCHANGED <<pool, rxq, rxd, txd, lost, tx_packets>> /\ BuffersType
        /\ txq' = [m \in Mbufs |-> txq[m] + (IF Loop!Among(m, k) THEN 1 ELSE 0)]
        /\ sent' = [m \in Mbufs |-> sent[m] + (IF Loop!Among(m, k) THEN 1 ELSE 0)]
    BY DEF Loop!Send, Loop!HandOver, Loop!Hand, Loop!fixed, LifeInv
  <1>2. BuffersType'
    <2>1. txq' \in [Mbufs -> Nat]
      BY <1>1 DEF BuffersType
    <2>2. sent' \in [Mbufs -> Nat]
      BY <1>1 DEF BuffersType
    <2> QED
      BY <1>1, <2>1, <2>2 DEF BuffersType
  <1>3. \A m \in Mbufs : Untouched(m)'
    BY DEF Untouched, AfterLoad, BeforePort
  <1>4. ASSUME NEW m \in Mbufs, Loop!Among(m, k) PROVE m \in Loader!Loaded
    <2>1. PICK i \in 1 .. k : tx_packets[i] = m
      BY <1>4 DEF Loop!Among
    <2>2. i \in DOMAIN tx_packets
      BY <1>1, <2>1 DEF Loop!NbPkts, BuffersType
    <2> QED
      BY <2>1, <2>2 DEF Loader!Loaded
  <1>5. ASSUME NEW m \in Mbufs PROVE Placed(m)' + InHands(m)' = Owed(m)'
    <2>1. Placed(m) + InHands(m) = Owed(m)
      BY LifeIs DEF LifeInv
    <2>2. /\ pool[m] \in Nat /\ rxq[m] \in Nat /\ rxd[m] \in Nat /\ txq[m] \in Nat
          /\ txd[m] \in Nat /\ lost[m] \in Nat /\ sent[m] \in Nat /\ Placed(m) \in Nat
      BY <1>1, Counts
    <2>3. Loader!Loaded' = Loader!Loaded
      BY <1>1 DEF Loader!Loaded
    <2>4. CASE ~ Loop!Among(m, k)
      <3>1. txq'[m] = txq[m] /\ sent'[m] = sent[m]
        BY <1>1, <2>2, <2>4
      <3> QED
        BY <1>1, <2>1, <2>3, <3>1 DEF Placed, InHands, Owed
    <2>5. CASE Loop!Among(m, k)
      <3>1. txq'[m] = txq[m] + 1 /\ sent'[m] = sent[m] + 1
        BY <1>1, <2>5
      <3>2. Placed(m)' = Placed(m) + 1
        <4>1. pool'[m] = pool[m] /\ rxq'[m] = rxq[m] /\ rxd'[m] = rxd[m] /\ txd'[m] = txd[m]
              /\ lost'[m] = lost[m]
          BY <1>1
        <4> QED
          BY ONLY <2>2, <3>1, <4>1, SMTT(30) DEF Placed
      <3>3. InHands(m)' = 0 /\ InHands(m) = IF sent[m] = 0 THEN 1 ELSE 0
        BY <1>4, <2>2, <2>5, <3>1 DEF InHands
      <3>4. /\ Owed(m) = IF sent[m] <= 1 THEN 1 ELSE sent[m]
            /\ Owed(m)' = IF sent[m] = 0 THEN 1 ELSE sent[m] + 1
        BY <2>2, <3>1 DEF Owed
      <3> QED
        BY ONLY <2>1, <2>2, <3>2, <3>3, <3>4
    <2> QED
      BY <2>4, <2>5
  <1>6. WholeLife'
    BY <1>5 DEF WholeLife, References, Placed, InHands, Owed
  <1> QED
    BY <1>2, <1>3, <1>6 DEF LifeInv

(* Everything else that rx_loop and the port do moves buffers.             *)
LEMMA LoopMoves ==
  ASSUME LifeInv, UNCHANGED <<pc, mbuf_pool>>, pc \notin BeforePort,
         UNCHANGED <<sent, tx_packets>>, BuffersType',
         \A m \in Mbufs : Placed(m)' = Placed(m)
  PROVE  LifeInv'
  BY Moves DEF LifeInv, Untouched

LEMMA ProgramLife ==
  ASSUME LifeInv, mbuf_pool = "pool", UNCHANGED <<pc, mbuf_pool>>, pc = "loop",
         Loop!Program
  PROVE  LifeInv'
  <1>1. BuffersType /\ pc \notin BeforePort
    BY DEF LifeInv, BeforePort
  <1>2. ASSUME UNCHANGED <<pool, rxq, rxd, txq, txd, lost, sent, tx_packets>> PROVE LifeInv'
    BY <1>1, <1>2, LoopMoves DEF BuffersType, Placed
  <1>3. CASE Loop!TimeIsUp \/ Loop!Iterate \/ Loop!ReceiveEnd \/ Loop!Report
    BY <1>2, <1>3
    DEF Loop!TimeIsUp, Loop!Iterate, Loop!ReceiveEnd, Loop!Report, Loop!buffers, Loop!fixed
  <1>4. ASSUME NEW m \in Mbufs, Loop!TxClean(m) PROVE LifeInv'
    <2>1. /\ txd' = [txd EXCEPT ![m] = txd[m] - 1] /\ pool' = [pool EXCEPT ![m] = pool[m] + 1]
          /\ UNCHANGED <<rxq, rxd, txq, lost, sent, tx_packets>> /\ txd[m] > 0
      BY <1>4 DEF Loop!TxClean, Loop!Take, Loop!Put, Loop!fixed
    <2>2. BuffersType'
      BY <1>1, <2>1 DEF BuffersType
    <2>3. ASSUME NEW x \in Mbufs PROVE Placed(x)' = Placed(x)
      <3>1. /\ pool[x] \in Nat /\ rxq[x] \in Nat /\ rxd[x] \in Nat /\ txq[x] \in Nat
            /\ txd[x] \in Nat /\ lost[x] \in Nat
        BY <1>1, Counts
      <3>2. /\ pool'[x] = IF x = m THEN pool[x] + 1 ELSE pool[x]
            /\ txd'[x] = IF x = m THEN txd[x] - 1 ELSE txd[x]
        BY <1>1, <2>1 DEF BuffersType
      <3>3. rxq'[x] = rxq[x] /\ rxd'[x] = rxd[x] /\ txq'[x] = txq[x] /\ lost'[x] = lost[x]
        BY <2>1
      <3>4. CASE x = m
        BY ONLY <3>1, <3>2, <3>3, <3>4, SMTT(30) DEF Placed
      <3>5. CASE x # m
        BY ONLY <3>1, <3>2, <3>3, <3>5, SMTT(30) DEF Placed
      <3> QED
        BY <3>4, <3>5
    <2> QED
      BY <1>1, <2>1, <2>2, <2>3, LoopMoves
  <1>5. ASSUME NEW m \in Mbufs, NEW m2 \in Mbufs, Loop!Receive(m, m2) PROVE LifeInv'
    <2>1. /\ rxd' = [rxd EXCEPT ![m] = rxd[m] - 1] /\ pool' = [pool EXCEPT ![m2] = pool[m2] - 1]
          /\ rxq' = [rxq EXCEPT ![m2] = rxq[m2] + 1] /\ lost' = [lost EXCEPT ![m] = lost[m] + 1]
          /\ UNCHANGED <<txq, txd, sent, tx_packets>> /\ rxd[m] > 0 /\ pool[m2] > 0
      BY <1>5 DEF Loop!Receive, Loop!Take, Loop!Put, Loop!fixed
    <2>2. BuffersType'
      <3>1. /\ rxd \in [Mbufs -> Nat] /\ pool \in [Mbufs -> Nat]
            /\ rxq \in [Mbufs -> Nat] /\ lost \in [Mbufs -> Nat]
        BY <1>1 DEF BuffersType
      <3>2. /\ rxd' \in [Mbufs -> Nat] /\ pool' \in [Mbufs -> Nat]
            /\ rxq' \in [Mbufs -> Nat] /\ lost' \in [Mbufs -> Nat]
        BY ONLY <2>1, <3>1, m \in Mbufs, m2 \in Mbufs, OneMore, OneLess
      <3> QED
        BY <1>1, <2>1, <3>1, <3>2 DEF BuffersType
    <2>3. ASSUME NEW x \in Mbufs PROVE Placed(x)' = Placed(x)
      <3>1. /\ pool[x] \in Nat /\ rxq[x] \in Nat /\ rxd[x] \in Nat /\ txq[x] \in Nat
            /\ txd[x] \in Nat /\ lost[x] \in Nat
        BY <1>1, Counts
      <3>2. /\ pool'[x] = IF x = m2 THEN pool[x] - 1 ELSE pool[x]
            /\ rxq'[x] = IF x = m2 THEN rxq[x] + 1 ELSE rxq[x]
            /\ rxd'[x] = IF x = m THEN rxd[x] - 1 ELSE rxd[x]
            /\ lost'[x] = IF x = m THEN lost[x] + 1 ELSE lost[x]
        BY <1>1, <2>1 DEF BuffersType
      <3>3. txq'[x] = txq[x] /\ txd'[x] = txd[x]
        BY <2>1
      <3>4. CASE x = m
        BY ONLY <3>1, <3>2, <3>3, <3>4, SMTT(30) DEF Placed
      <3>5. CASE x # m
        BY ONLY <3>1, <3>2, <3>3, <3>5, SMTT(30) DEF Placed
      <3> QED
        BY <3>4, <3>5
    <2> QED
      BY <1>1, <2>1, <2>2, <2>3, LoopMoves
  <1> QED
    BY <1>3, <1>4, <1>5, SendLife DEF Loop!Program

LEMMA PortLife ==
  ASSUME LifeInv, UNCHANGED <<pc, mbuf_pool>>, pc \notin BeforePort, Loop!Port
  PROVE  LifeInv'
  <1>1. BuffersType
    BY DEF LifeInv
  <1>2. CASE Loop!Miss
    <2>1. UNCHANGED <<pool, rxq, rxd, txq, txd, lost, sent, tx_packets>>
      BY <1>2 DEF Loop!Miss, Loop!buffers, Loop!fixed
    <2> QED
      BY <1>1, <2>1, LoopMoves DEF BuffersType, Placed
  <1>3. ASSUME NEW m \in Mbufs, Loop!Transmit(m) PROVE LifeInv'
    <2>1. /\ txq' = [txq EXCEPT ![m] = txq[m] - 1] /\ txd' = [txd EXCEPT ![m] = txd[m] + 1]
          /\ UNCHANGED <<pool, rxq, rxd, lost, sent, tx_packets>> /\ txq[m] > 0
      BY <1>3 DEF Loop!Transmit, Loop!Take, Loop!Put, Loop!fixed
    <2>2. BuffersType'
      BY <1>1, <2>1 DEF BuffersType
    <2>3. ASSUME NEW x \in Mbufs PROVE Placed(x)' = Placed(x)
      <3>1. /\ pool[x] \in Nat /\ rxq[x] \in Nat /\ rxd[x] \in Nat /\ txq[x] \in Nat
            /\ txd[x] \in Nat /\ lost[x] \in Nat
        BY <1>1, Counts
      <3>2. /\ txq'[x] = IF x = m THEN txq[x] - 1 ELSE txq[x]
            /\ txd'[x] = IF x = m THEN txd[x] + 1 ELSE txd[x]
        BY <1>1, <2>1 DEF BuffersType
      <3>3. pool'[x] = pool[x] /\ rxq'[x] = rxq[x] /\ rxd'[x] = rxd[x] /\ lost'[x] = lost[x]
        BY <2>1
      <3>4. CASE x = m
        <4> DEFINE base == pool[x] + rxq[x] + rxd[x]
        <4>1. txq'[x] = txq[x] - 1 /\ txd'[x] = txd[x] + 1
          BY ONLY <3>2, <3>4
        <4>2. base \in Nat
          BY ONLY <3>1
        <4>3. base + txq'[x] + txd'[x] = base + txq[x] + txd[x]
          <5> HIDE DEF base
          <5> QED
            BY ONLY <3>1, <4>1, <4>2
        <4> QED
          BY ONLY <3>3, <4>3 DEF Placed
      <3>5. CASE x # m
        BY ONLY <3>1, <3>2, <3>3, <3>5, SMTT(30) DEF Placed
      <3> QED
        BY <3>4, <3>5
    <2> QED
      BY <2>1, <2>2, <2>3, LoopMoves
  <1>4. ASSUME NEW m \in Mbufs, Loop!Arrive(m) PROVE LifeInv'
    <2>1. /\ rxq' = [rxq EXCEPT ![m] = rxq[m] - 1] /\ rxd' = [rxd EXCEPT ![m] = rxd[m] + 1]
          /\ UNCHANGED <<pool, txq, txd, lost, sent, tx_packets>> /\ rxq[m] > 0
      BY <1>4 DEF Loop!Arrive, Loop!Take, Loop!Put, Loop!fixed
    <2>2. BuffersType'
      BY <1>1, <2>1 DEF BuffersType
    <2>3. ASSUME NEW x \in Mbufs PROVE Placed(x)' = Placed(x)
      <3>1. /\ pool[x] \in Nat /\ rxq[x] \in Nat /\ rxd[x] \in Nat /\ txq[x] \in Nat
            /\ txd[x] \in Nat /\ lost[x] \in Nat
        BY <1>1, Counts
      <3>2. /\ rxq'[x] = IF x = m THEN rxq[x] - 1 ELSE rxq[x]
            /\ rxd'[x] = IF x = m THEN rxd[x] + 1 ELSE rxd[x]
        BY <1>1, <2>1 DEF BuffersType
      <3>3. pool'[x] = pool[x] /\ txq'[x] = txq[x] /\ txd'[x] = txd[x] /\ lost'[x] = lost[x]
        BY <2>1
      <3>4. CASE x = m
        <4>1. rxq'[x] = rxq[x] - 1 /\ rxd'[x] = rxd[x] + 1
          BY ONLY <3>2, <3>4
        <4>2. pool[x] + rxq'[x] + rxd'[x] = pool[x] + rxq[x] + rxd[x]
          BY ONLY <3>1, <4>1
        <4> QED
          BY ONLY <3>3, <4>2 DEF Placed
      <3>5. CASE x # m
        BY ONLY <3>1, <3>2, <3>3, <3>5, SMTT(30) DEF Placed
      <3> QED
        BY <3>4, <3>5
    <2> QED
      BY <2>1, <2>2, <2>3, LoopMoves
  <1> QED
    BY <1>2, <1>3, <1>4 DEF Loop!Port

LEMMA LifeStep ==
  ASSUME IInv, Silent, LifeInv, [SystemNext]_all
  PROVE  LifeInv'
  <1>1. ASSUME UNCHANGED <<pool, rxq, rxd, txq, txd, lost, sent, tx_packets, mbuf_pool>>,
               pc' \in BeforePort => pc \in BeforePort,
               pc \in AfterLoad => pc' \in AfterLoad,
               pc' \notin AfterLoad => pc \notin AfterLoad
        PROVE  LifeInv'
    <2>1. BuffersType' /\ \A m \in Mbufs : Placed(m)' = Placed(m)
      BY <1>1 DEF LifeInv, BuffersType, Placed
    <2>2. WholeLife'
      BY <1>1, <2>1, Moves DEF LifeInv
    <2>3. \A m \in Mbufs : Untouched(m)'
      BY <1>1 DEF LifeInv, Untouched
    <2> QED
      BY <2>1, <2>2, <2>3 DEF LifeInv
  <1>2. ASSUME UNCHANGED path
        PROVE  UNCHANGED <<pool, rxq, rxd, txq, txd, lost, sent, tx_packets>>
    BY <1>2 DEF path, ring, looping
  <1>3. mbuf_pool = "pool" \/ pc # "loop"
    BY DEF IInv, Reached, Linear
  <1>4. CASE Create
    BY <1>4, CreateLife
  <1>5. CASE Start
    BY <1>5, StartLife
  <1>6. CASE Wait
    BY <1>6, WaitLife
  <1>7. CASE Load
    BY <1>7, LoadLife
  <1>8. CASE LoopStep
    BY <1>3, <1>8, ProgramLife DEF LoopStep, InLoop, vars, pooling
  <1>9. CASE PortStep
    <2>1. pc \notin BeforePort
      BY <1>9 DEF PortStep, Silent, Ran
    <2> QED
      BY <1>9, <2>1, PortLife DEF PortStep, InLoop, vars, pooling
  <1> USE DEF BeforePort, AfterLoad, Final, Goto, Return, Require, pooling
  <1>10. CASE Open \/ Check \/ Loaded
    BY <1>1, <1>10
    DEF Open, OpenPcap, OpenCapture, Check, CheckCapture, Loader!CheckPcap, Loaded, EnterLoop,
        ring, looping
  <1>11. CASE LoopReturns
    BY <1>1, <1>2, <1>11 DEF LoopReturns
  <1>12. CASE /\ \/ EalInit \/ Configure \/ CountPorts \/ InitQueues \/ OpenYaml
                 \/ PrsCfg \/ PrintCfg \/ OpenSummary \/ CloseSummary
              /\ UNCHANGED path
    BY <1>1, <1>2, <1>12
    DEF EalInit, Configure, CountPorts, InitQueues, OpenYaml, PrsCfg, PrintCfg, OpenSummary,
        CloseSummary
  <1>13. CASE TimePasses
    BY <1>1, <1>13 DEF TimePasses, InLoop, Loop!Tick, Loop!buffers, Loop!fixed, vars
  <1>14. CASE (LinkChange \/ Kill) /\ UNCHANGED path
    BY <1>1, <1>2, <1>14 DEF LinkChange, Kill
  <1>15. CASE UNCHANGED all
    BY <1>1, <1>2, <1>15 DEF all, vars
  <1> QED
    BY <1>4, <1>5, <1>6, <1>7, <1>8, <1>9, <1>10, <1>11, <1>12, <1>13, <1>14, <1>15
    DEF SystemNext, Thread

(* From the creation of the pool to the end of the run a buffer is in one  *)
(* place, and in one more with every hand-over after the first, for every  *)
(* pool, receive queue, capture and number of bursts: no way out of the    *)
(* loader, no stop of the port and no traffic before the loop loses or     *)
(* doubles one.                                                            *)
THEOREM ProgramWholeLife == System => []WholeLife
  <1> DEFINE Kept == IInv /\ Silent /\ LifeInv
  <1>1. SystemInit => Kept
    BY InitSilent, InitLife
  <1>2. Kept /\ [SystemNext]_all => Kept'
    <2>1. ASSUME Kept, [SystemNext]_all PROVE IInv'
      BY <2>1, StepRefines, FlowStep, SetUpStep DEF IInv
    <2>2. ASSUME Kept, [SystemNext]_all PROVE Silent' /\ LifeInv'
      BY <2>2, SilentStep, LifeStep
    <2> QED
      BY <2>1, <2>2
  <1>3. Kept => WholeLife
    BY DEF LifeInv
  <1> HIDE DEF Kept
  <1> QED
    BY <1>1, <1>2, <1>3, PTL DEF System

-----------------------------------------------------------------------------

(* How rx_loop comes to be called.  Before it is, nothing was handed over  *)
(* and the loop has not begun;                                             *)
Loading == {"check", "load"}

Earlier == BeforePort \cup {"poll", "yaml", "parse", "print", "pcap"}

Idle ==
  /\ txq = Nowhere /\ txd = Nowhere /\ sent = Nowhere /\ cleaned = 0 /\ wire = {}
  /\ cnt = 0 /\ pkts = 0 /\ got = 0 /\ gap = 0
  /\ loop_pc = "check" /\ result = "running" /\ counts = Loop!Zero
  /\ now = 0 /\ jumps = 0 /\ duration \in Durations

(* what a running port received is in its ring, and it missed a frame only *)
(* when nothing was left there;                                            *)
FramesEarly ==
  /\ stats \in Loop!Stats /\ stats.tx = 0 /\ stats.nombuf = FALSE
  /\ stats.rx + stats.qfull <= MaxFrames
  /\ port = "started" => stats.rx = Total(rxd)
  /\ port = "started" /\ stats.qfull > 0 => Exhausted(rxq)
  /\ port # "started" => rxq = Nowhere /\ rxd = Nowhere

(* the loader's part is as it starts, until it does.                       *)
Unloaded ==
  /\ capture \in Captures /\ pos = 0 /\ eof = FALSE /\ lost = Nowhere
  /\ tx_packets = <<>> /\ data = [m \in Mbufs |-> 0] /\ phase = "check" /\ pkt_num = 0

LoaderAt == LoaderP!IInv /\ LoaderP!Progress /\ LoaderP!LoadResult

(* A running port has taken its descriptors' buffers from the full pool.   *)
Supply ==
  /\ rx_desc \in Nat
  /\ mbuf_pool = "pool" /\ pc \in BeforePort => pool = [m \in Mbufs |-> 1]
  /\ port = "started" /\ pc \in Earlier => Total(pool) + rx_desc = Cardinality(Mbufs)
  /\ port = "started" /\ pc \in Loading => Total(pool0) + rx_desc = Cardinality(Mbufs)
  /\ PoolSuffices

(* From the call of rx_loop to what is written of it.                      *)
Told == IF counts = Loop!Zero THEN "zeros" ELSE "counts"

LoopHolds == LoopP!IInv /\ LoopP!Counted /\ LoopP!RingBound /\ LoopP!Reported

Looping ==
  /\ LoopHolds
  /\ pc # "loop" => loop_pc = "done"
  /\ pc \in {"save", "close"} => summary = Told
  /\ file \in {"zeros", "counts"} => file = Told

CallInv ==
  /\ pc \in Earlier \cup Loading => Idle /\ FramesEarly
  /\ pc \in Earlier => Unloaded
  /\ pc \in Loading => LoaderAt
  /\ Supply
  /\ pc \in {"loop", "save", "close"} \/ file \in {"zeros", "counts"} => Looping

-----------------------------------------------------------------------------

(* What the proofs about the loader and the loop assume holds here.        *)
LEMMA LoaderAssumed == LoaderP!IsFiniteSet(Mbufs) /\ LoaderP!LoaderAssumption
  <1>1. LoaderP!IsFiniteSet(Mbufs)
    BY MempoolAssumption DEF IsFiniteSet, LoaderP!IsFiniteSet
  <1>2. LoaderP!Capture = Loader!Capture
    BY DEF LoaderP!Capture, LoaderP!Record, LoaderP!Ending,
       Loader!Capture, Loader!Record, Loader!Ending
  <1> QED
    BY <1>1, <1>2, PathAssumption DEF Loader!LoaderAssumption, LoaderP!LoaderAssumption

LEMMA LoopAssumed == LoopP!IsFiniteSet(Mbufs) /\ LoopP!LoopAssumption
  <1>1. LoopP!IsFiniteSet(Mbufs)
    BY MempoolAssumption DEF IsFiniteSet, LoopP!IsFiniteSet
  <1> QED
    BY <1>1, PathAssumption DEF Loop!LoopAssumption, LoopP!LoopAssumption

LEMMA Totals ==
  ASSUME NEW place
  PROVE  /\ Loop!Total(place) = Total(place)
         /\ LoopP!Total(place) = Total(place)
         /\ LoaderP!Total(place) = Total(place)
  BY DEF Loop!Total, Loop!Refs, Loop!Cardinality, LoopP!Total, LoopP!Refs, LoopP!Cardinality,
     LoaderP!Total, LoaderP!Refs, LoaderP!Cardinality, Total, Refs, Cardinality

(* A step of the loader, or none, in the words of its proofs.              *)
LEMMA LoaderSteps ==
  ASSUME LoaderAt, [LoaderP!Next]_(LoaderP!vars)
  PROVE  LoaderAt'
  BY LoaderAssumed, LoaderP!NextIInv, LoaderP!ProgressStep, LoaderP!LoadResultStep
     DEF LoaderAt, LoaderP!LoaderAssumption

LEMMA LoaderIs ==
  ASSUME Loader!CheckPcap \/ Loader!NoMbuf \/ \E m \in Mbufs : Loader!GetPacket(m)
  PROVE  LoaderP!Next /\ pool0' = pool0
  <1>1. CASE Loader!CheckPcap
    BY <1>1 DEF Loader!CheckPcap, LoaderP!CheckPcap, LoaderP!Next
  <1>2. CASE Loader!NoMbuf
    BY <1>2 DEF Loader!NoMbuf, LoaderP!NoMbuf, Loader!Exhausted, LoaderP!Exhausted,
       Loader!Finish, LoaderP!Finish, Loader!PktNum, LoaderP!PktNum, LoaderP!Next
  <1>3. ASSUME NEW m \in Mbufs, Loader!GetPacket(m)
        PROVE  LoaderP!GetPacket(m) /\ pool0' = pool0
    BY <1>3 DEF Loader!GetPacket, LoaderP!GetPacket,
       Loader!HeaderAtEof, LoaderP!HeaderAtEof, Loader!ReadError, LoaderP!ReadError,
       Loader!DataAtEof, LoaderP!DataAtEof, Loader!Refused, LoaderP!Refused,
       Loader!Stored, LoaderP!Stored, Loader!Overrun, LoaderP!Overrun,
       Loader!Finish, LoaderP!Finish, Loader!PktNum, LoaderP!PktNum,
       Loader!Alloc, LoaderP!Alloc, Loader!Release, LoaderP!Release,
       Loader!Put, LoaderP!Put, Loader!Take, LoaderP!Take, Loader!Slot, LoaderP!Slot,
       Loader!NextRecord, LoaderP!NextRecord, Loader!Acceptable, LoaderP!Acceptable
  <1> QED
    BY <1>1, <1>2, <1>3 DEF LoaderP!Next

(* A step of the loop, of the port or of the clock, or none.               *)
LEMMA LoopSteps ==
  ASSUME LoopHolds, [LoopP!Next]_(LoopP!vars)
  PROVE  LoopHolds'
  BY LoopAssumed, LoopP!NextIInv, LoopP!CountedStep, LoopP!RingBoundStep, LoopP!ReportedStep
     DEF LoopHolds, LoopP!LoopAssumption

LEMMA ProgramIs ==
  ASSUME Loop!Program
  PROVE  LoopP!Next
  <1> USE DEF Loop!buffers, LoopP!buffers, Loop!program, LoopP!program,
      Loop!world, LoopP!world, Loop!fixed, LoopP!fixed, Loop!NbPkts, LoopP!NbPkts
  <1>1. CASE Loop!TimeIsUp
    BY <1>1 DEF Loop!TimeIsUp, LoopP!TimeIsUp, Loop!Elapsed, LoopP!Elapsed,
       Loop!DurationSeconds, LoopP!DurationSeconds, LoopP!Program, LoopP!Next
  <1>2. CASE Loop!Iterate
    BY <1>2 DEF Loop!Iterate, LoopP!Iterate, Loop!Elapsed, LoopP!Elapsed,
       Loop!DurationSeconds, LoopP!DurationSeconds, Loop!Due, LoopP!Due,
       Loop!Increment, LoopP!Increment, LoopP!Program, LoopP!Next
  <1>3. CASE Loop!ReceiveEnd
    BY <1>3 DEF Loop!ReceiveEnd, LoopP!ReceiveEnd, Loop!Exhausted, LoopP!Exhausted,
       LoopP!Program, LoopP!Next
  <1>4. CASE Loop!Report
    BY <1>4 DEF Loop!Report, LoopP!Report, Loop!Summary, LoopP!Summary, LoopP!Program, LoopP!Next
  <1>5. ASSUME NEW k \in 0 .. Loop!NbPkts, Loop!Send(k)
        PROVE  LoopP!Send(k)
    <2>1. LoopP!Accepted = Loop!Accepted
      BY Totals DEF Loop!Accepted, LoopP!Accepted, Loop!FreeDesc, LoopP!FreeDesc
    <2> QED
      BY <1>5, <2>1 DEF Loop!Send, LoopP!Send, Loop!HandOver, LoopP!HandOver,
         Loop!Hand, LoopP!Hand, Loop!Among, LoopP!Among, Loop!Refused, LoopP!Refused
  <1>6. ASSUME NEW m \in Mbufs, Loop!TxClean(m)
        PROVE  LoopP!TxClean(m)
    BY <1>6 DEF Loop!TxClean, LoopP!TxClean, Loop!Take, LoopP!Take, Loop!Put, LoopP!Put
  <1>7. ASSUME NEW m \in Mbufs, NEW m2 \in Mbufs, Loop!Receive(m, m2)
        PROVE  LoopP!Receive(m, m2)
    BY <1>7 DEF Loop!Receive, LoopP!Receive, Loop!Take, LoopP!Take, Loop!Put, LoopP!Put
  <1> QED
    BY <1>1, <1>2, <1>3, <1>4, <1>5, <1>6, <1>7 DEF Loop!Program, LoopP!Program, LoopP!Next

LEMMA WorldIs ==
  ASSUME Loop!Port \/ Loop!Tick
  PROVE  LoopP!Next
  <1> USE DEF Loop!buffers, LoopP!buffers, Loop!program, LoopP!program,
      Loop!fixed, LoopP!fixed
  <1>1. CASE Loop!Miss
    BY <1>1 DEF Loop!Miss, LoopP!Miss, Loop!Exhausted, LoopP!Exhausted, LoopP!Port, LoopP!Next
  <1>2. ASSUME NEW m \in Mbufs, Loop!Transmit(m)
        PROVE  LoopP!Transmit(m)
    BY <1>2 DEF Loop!Transmit, LoopP!Transmit, Loop!Take, LoopP!Take, Loop!Put, LoopP!Put
  <1>3. ASSUME NEW m \in Mbufs, Loop!Arrive(m)
        PROVE  LoopP!Arrive(m)
    BY <1>3 DEF Loop!Arrive, LoopP!Arrive, Loop!Take, LoopP!Take, Loop!Put, LoopP!Put,
       Loop!Foreign, LoopP!Foreign
  <1>4. CASE Loop!Tick
    BY <1>4 DEF Loop!Tick, LoopP!Tick, Loop!DurationSeconds, LoopP!DurationSeconds,
       LoopP!Clock, LoopP!Next
  <1> QED
    BY <1>1, <1>2, <1>3, <1>4 DEF Loop!Port, LoopP!Port, LoopP!Next

-----------------------------------------------------------------------------

LEMMA InitCall == SystemInit => CallInv
  <1> SUFFICES ASSUME SystemInit PROVE CallInv
    OBVIOUS
  <1>1. /\ pc = "eal" /\ mbuf_pool = "none" /\ file = "old" /\ port = "new" /\ PathInit
    BY DEF SystemInit, Init, PoolInit, EthDevInit
  <1>2. Idle /\ Unloaded /\ rx_desc \in Nat
    BY <1>1, PathAssumption DEF PathInit, Idle, Unloaded
  <1>3. FramesEarly
    <2>1. MaxFrames \in Nat
      BY PathAssumption DEF Loop!LoopAssumption
    <2> QED
      BY <1>1, <2>1 DEF PathInit, FramesEarly, Loop!Zero, Loop!Stats
  <1>4. Supply
    BY <1>1, <1>2 DEF Supply, PoolSuffices
  <1> QED
    BY <1>1, <1>2, <1>3, <1>4 DEF CallInv, Loading

(* A step that does not touch the buffers, and what it has to keep apart   *)
(* from them.                                                              *)
LEMMA CallAlone ==
  ASSUME CallInv, UNCHANGED path,
         pc' \in BeforePort => pc \in BeforePort /\ mbuf_pool' = mbuf_pool,
         pc' \in Earlier => pc \in Earlier,
         pc' \in Loading => pc' = pc,
         pc' = "loop" => pc = "loop",
         port' = "started" <=> port = "started",
         pc' \in {"save", "close"} => summary' = summary /\ pc \in {"save", "close"},
         file' \in {"zeros", "counts"} =>
           \/ file' = file /\ pc # "loop"
           \/ file' = summary /\ pc \in {"save", "close"}
  PROVE  CallInv'
  <1> USE DEF path, loading, ring, looping
  <1>1. (Idle => Idle') /\ (Unloaded => Unloaded') /\ (FramesEarly => FramesEarly')
    BY DEF Idle, Unloaded, FramesEarly
  <1>2. LoaderAt => LoaderAt'
    BY LoaderSteps DEF LoaderP!vars
  <1>3. LoopHolds => LoopHolds'
    <2>1. UNCHANGED LoopP!vars
      BY DEF LoopP!vars, LoopP!buffers, LoopP!program, LoopP!world, LoopP!fixed
    <2> QED
      BY <2>1, LoopSteps
  <1>4. Supply'
    BY DEF CallInv, Supply, PoolSuffices
  <1>5. pc' \in {"loop", "save", "close"} \/ file' \in {"zeros", "counts"} => Looping'
    <2> SUFFICES ASSUME pc' \in {"loop", "save", "close"} \/ file' \in {"zeros", "counts"}
                 PROVE  Looping'
      OBVIOUS
    <2>1. Looping /\ counts' = counts /\ loop_pc' = loop_pc
      BY DEF CallInv
    <2>2. pc' # "loop" => pc # "loop"
      OBVIOUS
    <2> QED
      BY <1>3, <2>1, <2>2 DEF Looping, Told
  <1> QED
    BY <1>1, <1>2, <1>4, <1>5 DEF CallInv

(* main, where it leaves the buffers alone.                                *)
LEMMA QuietCall ==
  ASSUME IInv, Silent, CallInv, UNCHANGED path,
         \/ EalInit \/ Configure \/ CountPorts \/ InitQueues \/ OpenYaml
         \/ PrsCfg \/ PrintCfg \/ OpenSummary \/ CloseSummary \/ LinkChange \/ Kill
         \/ UNCHANGED vars
  PROVE  CallInv'
  <1> USE DEF BeforePort, Earlier, Loading, Final, Goto, Return, Require, pooling, device, reports
  <1>1. /\ pc = "queues" => port # "started"
        /\ pc \notin {"close", "exit", "killed"} => file = "old"
    BY DEF IInv, Reached, Silent, Ran
  <1>2. CASE EalInit \/ Configure \/ CountPorts \/ OpenYaml \/ PrsCfg \/ PrintCfg
    BY <1>1, <1>2, CallAlone DEF EalInit, Configure, CountPorts, OpenYaml, PrsCfg, PrintCfg
  <1>3. CASE InitQueues
    BY <1>1, <1>3, CallAlone DEF InitQueues, InitRxTxQueues
  <1>4. CASE OpenSummary \/ CloseSummary
    BY <1>1, <1>4, CallAlone DEF OpenSummary, CloseSummary
  <1>5. CASE LinkChange \/ Kill \/ UNCHANGED vars
    BY <1>1, <1>5, CallAlone DEF LinkChange, Kill, vars
  <1> QED
    BY <1>2, <1>3, <1>4, <1>5

(* The pool is made, and the port takes its share of it.                   *)
LEMMA CreateCall ==
  ASSUME IInv, Silent, CallInv, Create
  PROVE  CallInv'
  <1> USE DEF BeforePort, Earlier, Loading, Goto
  <1>1. /\ pc = "pool" /\ pc' = "ports" /\ port # "started" /\ port' = port
        /\ file' = "old"
    BY DEF Create, CreatePool, IInv, Reached, Silent, Ran, device, reports
  <1>2. /\ UNCHANGED <<rx_desc, lost, tx_packets, data, loading, ring, looping>>
        /\ mbuf_pool' = "pool" => pool' = [m \in Mbufs |-> 1]
    BY DEF Create, MakePool, path
  <1>3. Idle' /\ Unloaded' /\ FramesEarly'
    BY <1>1, <1>2 DEF CallInv, Idle, Unloaded, FramesEarly, loading, ring, looping
  <1>4. Supply'
    BY <1>1, <1>2 DEF CallInv, Supply, PoolSuffices
  <1> QED
    BY <1>1, <1>3, <1>4 DEF CallInv

LEMMA StartCall ==
  ASSUME IInv, Silent, CallInv, Start
  PROVE  CallInv'
  <1> USE DEF BeforePort, Earlier, Loading, Goto
  <1>1. /\ pc = "start" /\ pc' \in {"poll", "yaml"} /\ file' = "old" /\ port # "started"
        /\ mbuf_pool = "pool" /\ stats = Loop!Zero
    BY DEF Start, StartPort, IInv, Reached, Linear, Silent, Ran, reports
  <1>2. CASE port' # "started"
    BY <1>1, <1>2, CallAlone DEF Start
  <1>3. CASE port' = "started"
    <2>1. PostRing /\ Idle /\ Unloaded /\ FramesEarly /\ Supply
      BY <1>1, <1>3 DEF Start, CallInv
    <2>2. PICK S \in SUBSET Mbufs :
            /\ Cardinality(S) = rx_desc
            /\ pool' = [m \in Mbufs |-> pool[m] - (IF m \in S THEN 1 ELSE 0)]
      BY <2>1 DEF PostRing, kSubset
    <2>3. UNCHANGED <<rx_desc, lost, tx_packets, data, loading, rxd, txq, txd, stats, looping>>
      BY <2>1 DEF PostRing
    <2>4. Total(pool') + rx_desc = Cardinality(Mbufs)
      <3> DEFINE left == [m \in Mbufs |-> IF m \in Mbufs \ S THEN 1 ELSE 0]
      <3>1. pool = [m \in Mbufs |-> 1]
        BY <1>1, <2>1 DEF Supply
      <3>2. pool' = left
        BY <2>2, <3>1
      <3>3. Total(left) = Cardinality(Mbufs \ S)
        <4> HIDE DEF left
        <4> QED
          BY TotalOfSet, Mbufs \ S \in SUBSET Mbufs DEF left
      <3>4. Cardinality(Mbufs \ S) = Cardinality(Mbufs) - Cardinality(S)
        <4>1. S \cap Mbufs = S /\ Mbufs \cap S = S
          OBVIOUS
        <4> QED
          BY <4>1, MempoolAssumption, FS_Difference
      <3>5. Cardinality(Mbufs) \in Nat /\ Cardinality(S) \in Nat
        BY MempoolAssumption, FS_Subset, FS_CardinalityType
      <3> QED
        BY <2>2, <3>2, <3>3, <3>4, <3>5
    <2>5. Idle' /\ Unloaded'
      BY <2>1, <2>3 DEF Idle, Unloaded, loading, looping
    <2>6. FramesEarly'
      <3>1. rxd' = Nowhere /\ stats' = Loop!Zero /\ MaxFrames \in Nat
        BY <1>1, <2>1, <2>3, PathAssumption DEF FramesEarly, Loop!LoopAssumption
      <3> QED
        BY <1>3, <3>1, TotalNowhere DEF FramesEarly, Loop!Zero, Loop!Stats
    <2>7. Supply'
      BY <1>1, <2>1, <2>3, <2>4 DEF Supply, PoolSuffices
    <2> QED
      BY <1>1, <2>5, <2>6, <2>7 DEF CallInv
  <1> QED
    BY <1>2, <1>3

(* A port without a link gives it back.                                    *)
LEMMA WaitCall ==
  ASSUME IInv, Silent, CallInv, Wait
  PROVE  CallInv'
  <1> USE DEF BeforePort, Earlier, Loading, Goto
  <1>1. /\ pc = "poll" /\ pc' \in {"poll", "yaml"} /\ file' = "old" /\ port = "started"
        /\ port' \in {"started", "stopped"}
    BY DEF Wait, WaitForLink, PollLink, StartSettled, Settled, IInv, Reached, reports
  <1>2. CASE port' = "started"
    BY <1>1, <1>2, CallAlone DEF Wait
  <1>3. CASE port' = "stopped"
    <2>1. DrainRing /\ Idle /\ Unloaded /\ FramesEarly /\ Supply
      BY <1>1, <1>3 DEF Wait, CallInv
    <2>2. /\ UNCHANGED <<rx_desc, lost, tx_packets, data, loading, txq, txd, stats, looping>>
          /\ rxq' = Nowhere /\ rxd' = Nowhere
      BY <2>1 DEF DrainRing
    <2>3. Idle' /\ Unloaded' /\ FramesEarly' /\ Supply'
      BY <1>1, <1>3, <2>1, <2>2
         DEF Idle, Unloaded, FramesEarly, Supply, PoolSuffices, loading, looping
    <2> QED
      BY <1>1, <2>3 DEF CallInv
  <1> QED
    BY <1>1, <1>2, <1>3

(* The loader's part begins with what is left of the pool,                 *)
LEMMA OpenCall ==
  ASSUME IInv, Silent, LifeInv, CallInv, Open
  PROVE  CallInv'
  <1> USE DEF BeforePort, Earlier, Loading, Goto, Return
  <1>1. /\ pc = "pcap" /\ pc' \in {"check", "exit"} /\ file' = "old" /\ port' = port
        /\ mbuf_pool = "pool" /\ Idle /\ Unloaded /\ FramesEarly /\ Supply
    BY DEF Open, OpenPcap, IInv, Reached, Linear, CallInv, device
  <1>2. /\ UNCHANGED <<rx_desc, pool, lost, tx_packets, data, loading, ring, looping>>
        /\ pool0' = pool
    BY DEF Open, OpenCapture
  <1>3. pool \in [Mbufs -> {0, 1}]
    <2>1. ASSUME NEW m \in Mbufs PROVE pool[m] \in {0, 1}
      <3>1. sent[m] = 0 /\ Placed(m) + InHands(m) = 1
        BY <1>1, LifeIs DEF LifeInv, Untouched, AfterLoad, Final, Owed
      <3>2. /\ pool[m] \in Nat /\ rxq[m] \in Nat /\ rxd[m] \in Nat /\ txq[m] \in Nat
            /\ txd[m] \in Nat /\ lost[m] \in Nat
        BY Counts DEF LifeInv
      <3>3. InHands(m) \in {0, 1}
        BY DEF InHands
      <3> QED
        BY <3>1, <3>2, <3>3 DEF Placed
    <2> QED
      BY <2>1 DEF LifeInv, BuffersType
  <1>4. LoaderP!Init'
    BY <1>1, <1>2, <1>3 DEF LoaderP!Init, LoaderP!Nowhere, Nowhere, Unloaded, loading
  <1>5. LoaderAt'
    BY <1>4, LoaderAssumed, LoaderP!ReadyIInv, LoaderP!ReadyToLoad
       DEF LoaderAt, LoaderP!LoaderAssumption
  <1>6. Idle' /\ FramesEarly'
    BY <1>1, <1>2 DEF Idle, FramesEarly, ring, looping
  <1>7. Supply'
    BY <1>1, <1>2 DEF Supply, PoolSuffices
  <1> QED
    BY <1>1, <1>5, <1>6, <1>7 DEF CallInv

(* which it turns into the burst.                                          *)
LEMMA LoadCall ==
  ASSUME IInv, CallInv, Check \/ Load
  PROVE  CallInv'
  <1> USE DEF BeforePort, Earlier, Loading, Goto, Return, Require
  <1>1. /\ pc \in Loading /\ pc' \in Loading \cup {"exit"} /\ file' = "old" /\ port' = port
        /\ Idle /\ FramesEarly /\ LoaderAt /\ Supply
    BY DEF Check, Load, IInv, Reached, CallInv, device, reports, vars
  <1>2. /\ Loader!CheckPcap \/ Loader!NoMbuf \/ \E m \in Mbufs : Loader!GetPacket(m)
        /\ UNCHANGED <<rx_desc, ring, looping>>
    BY DEF Check, CheckCapture, Load, LoadOne
  <1>3. LoaderP!Next /\ pool0' = pool0
    BY <1>2, LoaderIs
  <1>4. LoaderAt'
    BY <1>1, <1>3, LoaderSteps
  <1>5. Idle' /\ FramesEarly'
    BY <1>1, <1>2 DEF Idle, FramesEarly, ring, looping
  <1>6. Supply'
    BY <1>1, <1>2, <1>3 DEF Supply, PoolSuffices
  <1> QED
    BY <1>1, <1>4, <1>5, <1>6 DEF CallInv

-----------------------------------------------------------------------------

(* When the loader is done each buffer is in one place.                    *)
LEMMA OnePlace ==
  ASSUME LifeInv, Idle, pc = "load", mbuf_pool = "pool", NEW m \in Mbufs
  PROVE  /\ pool[m] \in {0, 1} /\ rxq[m] \in {0, 1} /\ rxd[m] \in {0, 1} /\ lost[m] \in {0, 1}
         /\ pool[m] + rxq[m] + rxd[m] + lost[m] + (IF m \in Loader!Loaded THEN 1 ELSE 0) = 1
  <1>1. sent[m] = 0 /\ txq[m] = 0 /\ txd[m] = 0
    BY DEF Idle, Nowhere
  <1>2. Placed(m) + InHands(m) = 1
    BY <1>1, LifeIs DEF LifeInv, Owed
  <1>3. /\ pool[m] \in Nat /\ rxq[m] \in Nat /\ rxd[m] \in Nat /\ lost[m] \in Nat
    BY Counts DEF LifeInv
  <1>4. InHands(m) = IF m \in Loader!Loaded THEN 1 ELSE 0
    BY <1>1 DEF InHands
  <1>5. Placed(m) = pool[m] + rxq[m] + rxd[m] + lost[m]
    BY <1>1, <1>3 DEF Placed
  <1> QED
    BY <1>2, <1>3, <1>4, <1>5

(* What the loader leaves in the array is a burst of rx_loop's.            *)
LEMMA BurstLoaded ==
  ASSUME LoaderAt, phase = "done", pkt_num # 0
  PROVE  /\ tx_packets \in Arrays
         /\ \A m \in Mbufs : Loop!InBurst(m) <=> m \in Loader!Loaded
         /\ data \in [Mbufs -> 0 .. Loop!NbPkts]
         /\ \A m \in Mbufs : IF Loop!InBurst(m)
                             THEN data[m] # Loop!Foreign /\ tx_packets[data[m]] = m
                             ELSE data[m] = Loop!Foreign
  <1>1. /\ tx_packets \in Seq(Mbufs) /\ Len(tx_packets) <= MaxPktBurst
        /\ Len(tx_packets) \in Nat /\ Len(tx_packets) # 0
        /\ DOMAIN tx_packets = 1 .. Len(tx_packets)
        /\ data \in [Mbufs -> Nat]
    BY DEF LoaderAt, LoaderP!IInv, LoaderP!TypeOK, LoaderP!Progress
  <1>2. /\ \A i, j \in DOMAIN tx_packets : tx_packets[i] = tx_packets[j] => i = j
        /\ \A i \in DOMAIN tx_packets : data[tx_packets[i]] = i
    BY DEF LoaderAt, LoaderP!IInv, LoaderP!BurstIsCapture
  <1>3. tx_packets \in Arrays
    <2> DEFINE n == Len(tx_packets)
    <2>1. n \in 1 .. MaxPktBurst
      BY <1>1, PathAssumption DEF Loader!LoaderAssumption
    <2>2. tx_packets \in [1 .. n -> Mbufs]
      BY <1>1
    <2>3. tx_packets \in Injection(1 .. n, Mbufs)
      BY <1>1, <1>2, <2>2 DEF Injection, IsInjective
    <2> HIDE DEF n
    <2> QED
      BY <2>1, <2>3 DEF Arrays
  <1>4. ASSUME NEW m \in Mbufs
        PROVE  Loop!InBurst(m) <=> m \in Loader!Loaded
    BY <1>1 DEF Loop!InBurst, Loop!Among, Loop!NbPkts, Loader!Loaded
  <1>5. ASSUME NEW m \in Mbufs
        PROVE  /\ data[m] \in 0 .. Loop!NbPkts
               /\ IF Loop!InBurst(m)
                  THEN data[m] # 0 /\ tx_packets[data[m]] = m
                  ELSE data[m] = 0
    <2>1. data[m] # 0 => m \in Loader!Loaded
      BY DEF LoaderAt, LoaderP!Progress, LoaderP!Loaded, Loader!Loaded
    <2>2. m \in Loader!Loaded =>
            data[m] \in 1 .. Len(tx_packets) /\ tx_packets[data[m]] = m
      BY <1>1, <1>2 DEF Loader!Loaded
    <2> QED
      BY <1>1, <1>4, <2>1, <2>2 DEF Loop!NbPkts
  <1> QED
    BY <1>1, <1>3, <1>4, <1>5 DEF Loop!Foreign

(* What rx_loop starts from, part by part.                                 *)
BurstWritten ==
  /\ tx_packets \in Arrays
  /\ data \in [Mbufs -> 0 .. Loop!NbPkts]
  /\ \A m \in Mbufs : IF Loop!InBurst(m)
                      THEN data[m] # Loop!Foreign /\ tx_packets[data[m]] = m
                      ELSE data[m] = Loop!Foreign

Spread ==
  \E F \in SUBSET {m \in Mbufs : ~ Loop!InBurst(m)} :
  \E P \in SUBSET {m \in Mbufs \ F : port = "started" /\ ~ Loop!InBurst(m)} :
  \E D \in SUBSET P :
    /\ pool = Loop!Bag(F) /\ rxq = Loop!Bag(P \ D) /\ rxd = Loop!Bag(D) /\ free0 = Loop!Total(pool)
    /\ lost = [m \in Mbufs |-> IF m \in F \cup P \/ Loop!InBurst(m) THEN 0 ELSE 1]

FramesCounted ==
  \E r, q \in 0 .. MaxFrames :
    /\ r + q <= MaxFrames
    /\ port = "started" => r = Loop!Total(rxd)
    /\ port = "started" /\ q > 0 => Loop!Exhausted(rxq)
    /\ stats = [Loop!Zero EXCEPT !.rx = r, !.qfull = q]

LEMMA CallIs == BurstWritten /\ Spread /\ FramesCounted /\ Idle => Loop!Init
  <1> SUFFICES ASSUME BurstWritten, Spread, FramesCounted, Idle PROVE Loop!Init
    OBVIOUS
  <1>1. (port = "started") \in BOOLEAN /\ Loop!Nowhere = Nowhere
    BY DEF Loop!Nowhere, Nowhere
  <1>2. /\ txq = Loop!Nowhere /\ txd = Loop!Nowhere /\ sent = Loop!Nowhere
        /\ cleaned = 0 /\ wire = {}
        /\ cnt = 0 /\ pkts = 0 /\ got = 0 /\ gap = 0
        /\ loop_pc = "check" /\ result = "running" /\ counts = Loop!Zero
        /\ now = 0 /\ jumps = 0 /\ duration \in Durations
    BY <1>1 DEF Idle
  <1> QED
    BY <1>1, <1>2, Zenon DEF BurstWritten, Spread, FramesCounted, Loop!Init

LEMMA ReadyToCall == BurstWritten' /\ Spread' /\ FramesCounted' /\ Idle' => Loop!Init'
  BY CallIs, PTL

LEMMA StatsOf ==
  ASSUME NEW r \in Nat, NEW q \in Nat
  PROVE  [Loop!Zero EXCEPT !.rx = r, !.qfull = q] =
           [rx |-> r, tx |-> 0, qfull |-> q, nombuf |-> FALSE]
  <1> DEFINE s == [Loop!Zero EXCEPT !.rx = r]
             t == [s EXCEPT !.qfull = q]
  <1>1. Loop!Zero \in Loop!Stats
    BY DEF Loop!Zero, Loop!Stats
  <1>2. s \in Loop!Stats /\ s.rx = r /\ s.tx = 0 /\ s.nombuf = FALSE
    BY <1>1 DEF Loop!Zero, Loop!Stats
  <1>3. t \in Loop!Stats /\ t.rx = r /\ t.tx = 0 /\ t.qfull = q /\ t.nombuf = FALSE
    <2> HIDE DEF s
    <2> QED
      BY <1>2 DEF Loop!Stats
  <1>4. t = [rx |-> r, tx |-> 0, qfull |-> q, nombuf |-> FALSE]
    <2> HIDE DEF t
    <2> QED
      BY <1>3 DEF Loop!Stats
  <1> QED
    BY <1>4

LEMMA Called ==
  ASSUME IInv, LifeInv, CallInv, Loaded, pc' = "loop"
  PROVE  /\ Loop!Init' /\ PoolSuffices' /\ port' = port
         /\ LoaderAt /\ Idle /\ FramesEarly
  <1>1. /\ pc = "load" /\ mbuf_pool = "pool" /\ port' = port
        /\ LoaderAt /\ Idle /\ FramesEarly /\ Supply
    BY DEF Loaded, IInv, Reached, Linear, CallInv, Loading, device
  <1>2. phase = "done" /\ pkt_num # 0
    BY DEF Loaded, Goto, Require, Return
  <1>3. /\ UNCHANGED <<rx_desc, pool, lost, tx_packets, data, capture, pool0>>
        /\ UNCHANGED <<rxq, rxd, txq, txd, stats, cnt, pkts, got, loop_pc, result, counts>>
        /\ UNCHANGED <<now, duration, sent, cleaned, wire, gap, jumps>>
        /\ free0' = Total(pool)
    BY DEF Loaded, EnterLoop, loading, ring
  <1>4. \A m \in Mbufs : Loop!InBurst(m)' <=> m \in Loader!Loaded
    BY <1>1, <1>2, <1>3, BurstLoaded DEF Loop!InBurst, Loop!Among, Loop!NbPkts
  <1>5. Spread'
    <2> DEFINE F == {m \in Mbufs : pool[m] = 1}
               D == {m \in Mbufs : rxd[m] = 1}
               P == D \cup {m \in Mbufs : rxq[m] = 1}
    <2>1. ASSUME NEW m \in Mbufs
          PROVE  /\ pool[m] \in {0, 1} /\ rxq[m] \in {0, 1} /\ rxd[m] \in {0, 1}
                 /\ lost[m] \in {0, 1}
                 /\ pool[m] = 1 => rxq[m] = 0 /\ rxd[m] = 0 /\ lost[m] = 0 /\ m \notin Loader!Loaded
                 /\ rxd[m] = 1 => rxq[m] = 0 /\ lost[m] = 0 /\ m \notin Loader!Loaded
                 /\ rxq[m] = 1 => lost[m] = 0 /\ m \notin Loader!Loaded
                 /\ m \in Loader!Loaded => lost[m] = 0
                 /\ \/ pool[m] = 1 \/ rxq[m] = 1 \/ rxd[m] = 1 \/ lost[m] = 1
                    \/ m \in Loader!Loaded
      BY <1>1, OnePlace
    <2>3. port # "started" => \A m \in Mbufs : rxq[m] = 0 /\ rxd[m] = 0
      BY <1>1 DEF FramesEarly, Nowhere
    <2>4. F \in SUBSET {m \in Mbufs : ~ Loop!InBurst(m)'}
      BY <1>4, <2>1
    <2>5. P \in SUBSET {m \in Mbufs \ F : port' = "started" /\ ~ Loop!InBurst(m)'}
      BY <1>1, <1>4, <2>1, <2>3
    <2>6. D \in SUBSET P
      OBVIOUS
    <2>7. /\ pool \in [Mbufs -> Nat] /\ rxq \in [Mbufs -> Nat]
          /\ rxd \in [Mbufs -> Nat] /\ lost \in [Mbufs -> Nat]
      BY DEF LifeInv, BuffersType
    <2>8. pool' = Loop!Bag(F) /\ rxd' = Loop!Bag(D)
      BY <1>3, <2>1, <2>7 DEF Loop!Bag
    <2>9. rxq' = Loop!Bag(P \ D)
      BY <1>3, <2>1, <2>7 DEF Loop!Bag
    <2>10. lost' = [m \in Mbufs |-> IF m \in F \cup P \/ Loop!InBurst(m)' THEN 0 ELSE 1]
      BY <1>3, <1>4, <2>1, <2>7
    <2>11. free0' = Loop!Total(pool)'
      BY <1>3, Totals
    <2> HIDE DEF F, P, D
    <2> QED
      BY <2>4, <2>5, <2>6, <2>8, <2>9, <2>10, <2>11 DEF Spread
  <1>6. FramesCounted'
    <2>1. /\ stats \in Loop!Stats /\ stats.tx = 0 /\ stats.nombuf = FALSE
          /\ stats.rx + stats.qfull <= MaxFrames
      BY <1>1 DEF FramesEarly
    <2>2. /\ stats.rx \in 0 .. MaxFrames /\ stats.qfull \in 0 .. MaxFrames
          /\ stats.rx \in Nat /\ stats.qfull \in Nat
      BY <2>1, PathAssumption DEF Loop!Stats, Loop!LoopAssumption
    <2>3. stats' = [Loop!Zero EXCEPT !.rx = stats.rx, !.qfull = stats.qfull]
      <3>1. stats = [rx |-> stats.rx, tx |-> stats.tx, qfull |-> stats.qfull,
                     nombuf |-> stats.nombuf]
        BY <2>1 DEF Loop!Stats
      <3> QED
        BY <1>3, <2>1, <2>2, <3>1, StatsOf
    <2>4. /\ port' = "started" => stats.rx = Loop!Total(rxd)'
          /\ port' = "started" /\ stats.qfull > 0 => Loop!Exhausted(rxq)'
      BY <1>1, <1>3, Totals DEF FramesEarly, Exhausted, Loop!Exhausted
    <2> QED
      BY <1>3, <2>1, <2>2, <2>3, <2>4 DEF FramesCounted
  <1>7. Loop!Init'
    <2>1. BurstWritten'
      BY <1>1, <1>2, <1>3, <1>4, BurstLoaded DEF BurstWritten, Loop!NbPkts
    <2>2. Idle'
      BY <1>1, <1>3 DEF Idle
    <2> QED
      BY <1>5, <1>6, <2>1, <2>2, ReadyToCall
  <1>8. PoolSuffices'
    <2> SUFFICES ASSUME port = "started"
                 PROVE  Cardinality(Mbufs) >= rx_desc + Len(capture.recs) + 1
      BY <1>1, <1>3 DEF PoolSuffices
    <2>1. Total(pool0) + rx_desc = Cardinality(Mbufs) /\ rx_desc \in Nat
      BY <1>1 DEF Supply, Loading
    <2>2. pkt_num = LoaderP!Expected
      BY <1>1, <1>2 DEF LoaderAt, LoaderP!LoadResult
    <2>3. Len(capture.recs) < LoaderP!Total(pool0)
      BY <1>1, <1>2, <2>2, LoaderAssumed, LoaderP!ExpectedIs DEF LoaderAt, LoaderP!LoaderAssumption
    <2>4. Len(capture.recs) \in Nat /\ Total(pool0) \in Nat
      <3>1. pool0 \in LoaderP!Places /\ Len(capture.recs) \in Nat
        BY <1>1, LoaderAssumed, LoaderP!Amounts DEF LoaderAt, LoaderP!LoaderAssumption
      <3> QED
        BY <3>1, TotalType DEF LoaderP!Places, Places
    <2> QED
      BY <2>1, <2>3, <2>4, Totals
  <1> QED
    BY <1>1, <1>7, <1>8

-----------------------------------------------------------------------------

LEMMA StartIs == Loop!Init => LoopP!Init
  BY DEF Loop!Init, LoopP!Init, Loop!InBurst, LoopP!InBurst, Loop!Among, LoopP!Among,
     Loop!NbPkts, LoopP!NbPkts, Loop!Bag, LoopP!Bag, Loop!Nowhere, LoopP!Nowhere,
     Loop!Exhausted, LoopP!Exhausted, Loop!Zero, LoopP!Zero, Loop!Foreign, LoopP!Foreign,
     Loop!Total, LoopP!Total, Loop!Refs, LoopP!Refs, Loop!Cardinality, LoopP!Cardinality

LEMMA StartsLoop == Loop!Init' => LoopHolds'
  <1>1. Loop!Init' => LoopP!Init'
    BY StartIs, PTL
  <1> QED
    BY <1>1, LoopAssumed, LoopP!ReadyLoop DEF LoopHolds, LoopP!LoopAssumption

(* The loop is called, or is not.                                          *)
LEMMA LoadedCall ==
  ASSUME IInv, LifeInv, CallInv, Loaded
  PROVE  CallInv'
  <1> USE DEF BeforePort, Earlier, Loading
  <1>1. /\ pc' \in {"crashed", "exit", "loop"} /\ file' = "old" /\ rx_desc' = rx_desc
        /\ Supply
    BY DEF Loaded, EnterLoop, Goto, Require, Return, IInv, Reached, CallInv, reports
  <1>2. CASE pc' # "loop"
    BY <1>1, <1>2 DEF CallInv, Supply, PoolSuffices
  <1>3. CASE pc' = "loop"
    <2>1. LoopHolds' /\ PoolSuffices'
      BY <1>3, Called, StartsLoop
    <2> QED
      BY <1>1, <1>3, <2>1 DEF CallInv, Supply, Looping
  <1> QED
    BY <1>2, <1>3

(* It runs beside the port and the clock,                                  *)
LEMMA LoopCall ==
  ASSUME IInv, CallInv, pc = "loop", UNCHANGED vars,
         InLoop(Loop!Program \/ Loop!Port \/ Loop!Tick)
  PROVE  CallInv'
  <1> USE DEF BeforePort, Earlier, Loading
  <1>1. /\ pc' = "loop" /\ file' = "old" /\ port' = port /\ UNCHANGED <<rx_desc, capture>>
        /\ Supply /\ Looping
    BY DEF IInv, Reached, CallInv, vars, device, reports, InLoop, loading
  <1>2. LoopP!Next
    BY ProgramIs, WorldIs DEF InLoop
  <1>3. LoopHolds'
    BY <1>1, <1>2, LoopSteps DEF Looping
  <1> QED
    BY <1>1, <1>3 DEF CallInv, Supply, PoolSuffices, Looping

(* and returns.                                                            *)
LEMMA LoopReturnsCall ==
  ASSUME IInv, CallInv, LoopReturns
  PROVE  CallInv'
  <1> USE DEF BeforePort, Earlier, Loading, Goto
  <1>1. /\ pc = "loop" /\ pc' = "save" /\ file' = "old" /\ port' = port
        /\ loop_pc = "done" /\ summary' = Told /\ Supply /\ LoopHolds
        /\ UNCHANGED path
    BY DEF LoopReturns, IInv, Reached, CallInv, Looping, device, Told
  <1>2. LoopHolds'
    <2>1. UNCHANGED LoopP!vars
      BY <1>1 DEF LoopP!vars, LoopP!buffers, LoopP!program, LoopP!world, LoopP!fixed,
         path, loading, ring, looping
    <2> QED
      BY <1>1, <2>1, LoopSteps
  <1>3. loop_pc' = "done" /\ summary' = Told' /\ rx_desc' = rx_desc
    BY <1>1 DEF path, looping, Told
  <1> QED
    BY <1>1, <1>2, <1>3 DEF CallInv, Supply, PoolSuffices, Looping

(* Before the call the port only fills what it was given.                  *)
LEMMA MissEarly ==
  ASSUME FramesEarly, port' = "started", Loop!Miss
  PROVE  FramesEarly'
  <1>1. /\ stats \in Loop!Stats /\ stats.tx = 0 /\ stats.nombuf = FALSE
        /\ stats.rx + stats.qfull < MaxFrames /\ MaxFrames \in Nat
        /\ stats' = [stats EXCEPT !.qfull = @ + 1]
        /\ UNCHANGED <<rxq, rxd>>
    BY PathAssumption DEF FramesEarly, Loop!Miss, Loop!buffers, Loop!LoopAssumption
  <1>2. Exhausted(rxq) /\ port = "started"
    BY DEF Loop!Miss, Loop!Exhausted, Exhausted
  <1>3. /\ stats' \in Loop!Stats /\ stats'.tx = 0 /\ stats'.nombuf = FALSE
        /\ stats'.rx = stats.rx /\ stats'.qfull = stats.qfull + 1
        /\ stats'.rx + stats'.qfull <= MaxFrames
    BY <1>1 DEF Loop!Stats
  <1>4. stats'.rx = Total(rxd') /\ Exhausted(rxq')
    BY <1>1, <1>2, <1>3 DEF FramesEarly
  <1> QED
    BY <1>3, <1>4 DEF FramesEarly, Exhausted

LEMMA ArriveEarly ==
  ASSUME BuffersType, FramesEarly, port' = "started", NEW m \in Mbufs, Loop!Arrive(m)
  PROVE  FramesEarly'
  <1>1. /\ stats \in Loop!Stats /\ stats.tx = 0 /\ stats.nombuf = FALSE
        /\ stats.rx + stats.qfull < MaxFrames /\ MaxFrames \in Nat
        /\ stats' = [stats EXCEPT !.rx = @ + 1]
    BY PathAssumption DEF FramesEarly, Loop!Arrive, Loop!LoopAssumption
  <1>2. /\ port = "started" /\ rxq[m] > 0 /\ rxd' = Put(rxd, m)
        /\ rxq \in Places /\ rxd \in Places
    BY DEF Loop!Arrive, Loop!Put, Put, BuffersType, Places
  <1>3. /\ stats' \in Loop!Stats /\ stats'.tx = 0 /\ stats'.nombuf = FALSE
        /\ stats'.rx = stats.rx + 1 /\ stats'.qfull = stats.qfull
        /\ stats'.rx + stats'.qfull <= MaxFrames
    BY <1>1 DEF Loop!Stats
  <1>4. stats'.rx = Total(rxd')
    BY <1>2, <1>3, TotalPut DEF FramesEarly
  <1>5. ~ (stats'.qfull > 0)
    BY <1>2, <1>3 DEF FramesEarly, Exhausted
  <1> QED
    BY <1>3, <1>4, <1>5 DEF FramesEarly

(* What it writes to is not the loader's.                                  *)
LEMMA PostedIsNotLoaded ==
  ASSUME LifeInv, NEW m \in Mbufs, rxq[m] > 0, sent[m] = 0
  PROVE  m \notin Loader!Loaded
  <1>1. Placed(m) + InHands(m) = Owed(m)
    BY LifeIs DEF LifeInv
  <1>2. /\ pool[m] \in Nat /\ rxq[m] \in Nat /\ rxd[m] \in Nat /\ txq[m] \in Nat
        /\ txd[m] \in Nat /\ lost[m] \in Nat
    BY Counts DEF LifeInv
  <1>3. Placed(m) > 0
    BY <1>2 DEF Placed
  <1>4. Owed(m) \in {0, 1}
    BY DEF Owed
  <1>5. InHands(m) \in {0, 1} /\ Placed(m) \in Nat
    BY <1>2 DEF InHands, Placed
  <1>6. InHands(m) = 0
    BY <1>1, <1>3, <1>4, <1>5
  <1> QED
    BY <1>6 DEF InHands

LEMMA PortEarly ==
  ASSUME LifeInv, CallInv, pc \in Earlier \cup Loading, pc \notin BeforePort,
         file = "old", port = "started", UNCHANGED vars, InLoop(Loop!Port)
  PROVE  CallInv'
  <1>1. /\ Idle /\ FramesEarly /\ Supply
        /\ pc \in Earlier => Unloaded
        /\ pc \in Loading => LoaderAt
    BY DEF CallInv
  <1>2. /\ pc' = pc /\ file' = "old" /\ port' = "started" /\ mbuf_pool' = mbuf_pool
        /\ UNCHANGED <<rx_desc, capture, pos, eof, phase, pkt_num, pool0>>
    BY DEF vars, device, reports, pooling, InLoop, loading
  <1> USE DEF Loop!program, Loop!buffers, Loop!fixed
  <1>3. \A m \in Mbufs : txq[m] = 0 /\ sent[m] = 0
    BY <1>1 DEF Idle, Nowhere
  <1>4. /\ Loop!Miss \/ \E m \in Mbufs : Loop!Arrive(m)
        /\ UNCHANGED <<pool, lost, tx_packets>>
        /\ UNCHANGED <<txq, txd, sent, cleaned, wire, cnt, pkts, got, gap, loop_pc, result,
                       counts, now, jumps, duration>>
    <2>1. ~ \E m \in Mbufs : Loop!Transmit(m)
      BY <1>3 DEF Loop!Transmit
    <2> QED
      BY <2>1 DEF InLoop, Loop!Port, Loop!Miss, Loop!Arrive
  <1>5. Idle'
    BY <1>1, <1>4 DEF Idle
  <1>6. FramesEarly'
    BY <1>1, <1>2, <1>4, MissEarly, ArriveEarly DEF LifeInv
  <1>7. Supply'
    BY <1>1, <1>2, <1>4 DEF Supply, PoolSuffices, Earlier, Loading, BeforePort
  <1>8. data' = data \/ \E m \in Mbufs \ Loader!Loaded : data' = [data EXCEPT ![m] = 0]
    BY <1>3, <1>4, PostedIsNotLoaded DEF Loop!Miss, Loop!Arrive, Loop!Foreign
  <1>9. ASSUME Unloaded PROVE Unloaded'
    <2>1. data' = [m \in Mbufs |-> 0]
      BY <1>8, <1>9 DEF Unloaded
    <2> QED
      BY <1>2, <1>4, <1>9, <2>1 DEF Unloaded
  <1>10. ASSUME LoaderAt PROVE LoaderAt'
    <2>1. UNCHANGED <<capture, pos, eof, pool, lost, tx_packets, phase, pkt_num, pool0>>
      BY <1>2, <1>4
    <2>2. CASE data' = data
      BY <1>10, <2>1, <2>2, LoaderSteps DEF LoaderP!vars
    <2>3. ASSUME NEW m \in Mbufs \ Loader!Loaded, data' = [data EXCEPT ![m] = 0]
          PROVE  LoaderAt'
      <3>1. m \in Mbufs \ LoaderP!Loaded
        BY <2>3 DEF Loader!Loaded, LoaderP!Loaded
      <3> QED
        BY <1>10, <2>1, <2>3, <3>1, LoaderAssumed, LoaderP!OtherWritten, LoaderP!OtherWrittenResult
           DEF LoaderAt, LoaderP!LoaderAssumption
    <2> QED
      BY <1>8, <2>2, <2>3
  <1> QED
    BY <1>1, <1>2, <1>5, <1>6, <1>7, <1>9, <1>10 DEF CallInv, Earlier, Loading, BeforePort

(* A port that runs goes on when the loop is over; what is told of the     *)
(* loop stays true.                                                        *)
LEMMA PortCall ==
  ASSUME IInv, Silent, LifeInv, CallInv, PortStep
  PROVE  CallInv'
  <1>1. /\ port = "started" /\ UNCHANGED vars /\ InLoop(Loop!Port)
        /\ pc \notin BeforePort
    BY DEF PortStep, Silent, Ran
  <1>2. CASE pc \in Earlier \cup Loading
    <2>1. file = "old"
      BY <1>2 DEF IInv, Reached, Earlier, BeforePort, Loading
    <2> QED
      BY <1>1, <1>2, <2>1, PortEarly
  <1>3. CASE pc = "loop"
    BY <1>1, <1>3, LoopCall DEF InLoop
  <1>4. CASE pc \notin Earlier \cup Loading \cup {"loop"}
    <2>1. /\ UNCHANGED <<pc, file, summary, mbuf_pool, rx_desc>>
          /\ UNCHANGED <<counts, loop_pc>>
      BY <1>1 DEF vars, reports, pooling, InLoop, Loop!Port, Loop!Miss, Loop!Transmit,
         Loop!Arrive, Loop!program
    <2>2. ASSUME Looping PROVE Looping'
      <3>1. LoopHolds'
        BY <1>1, <2>2, WorldIs, LoopSteps DEF InLoop, Looping
      <3> QED
        BY <2>1, <2>2, <3>1 DEF Looping, Told
    <2> QED
      BY <1>4, <2>1, <2>2
      DEF CallInv, Supply, PoolSuffices, Earlier, Loading, BeforePort
  <1> QED
    BY <1>2, <1>3, <1>4

LEMMA CallStep ==
  ASSUME IInv, Silent, LifeInv, CallInv, [SystemNext]_all
  PROVE  CallInv'
  <1>1. CASE Create \/ Start \/ Wait
    BY <1>1, CreateCall, StartCall, WaitCall
  <1>2. CASE Open \/ Check \/ Load \/ Loaded
    BY <1>2, OpenCall, LoadCall, LoadedCall
  <1>3. CASE LoopReturns
    BY <1>3, LoopReturnsCall
  <1>4. CASE LoopStep \/ TimePasses
    BY <1>4, LoopCall DEF LoopStep, TimePasses, InLoop
  <1>5. CASE PortStep
    BY <1>5, PortCall
  <1>6. CASE \/ /\ \/ EalInit \/ Configure \/ CountPorts \/ InitQueues \/ OpenYaml
                   \/ PrsCfg \/ PrintCfg \/ OpenSummary \/ CloseSummary
                /\ UNCHANGED path
             \/ (LinkChange \/ Kill) /\ UNCHANGED path
             \/ UNCHANGED all
    BY <1>6, QuietCall DEF all
  <1> QED
    BY <1>1, <1>2, <1>3, <1>4, <1>5, <1>6 DEF SystemNext, Thread

(* All that is known of a state of the program.                            *)
Kept == IInv /\ Silent /\ LifeInv /\ CallInv

LEMMA KeptInit == SystemInit => Kept
  BY InitSilent, InitLife, InitCall DEF Kept

LEMMA KeptStep == Kept /\ [SystemNext]_all => Kept'
  <1> SUFFICES ASSUME Kept, [SystemNext]_all PROVE Kept'
    OBVIOUS
  <1>1. IInv'
    BY StepRefines, FlowStep, SetUpStep DEF IInv, Kept
  <1>2. Silent' /\ LifeInv'
    BY SilentStep, LifeStep DEF Kept
  <1>3. CallInv'
    BY CallStep DEF Kept
  <1> QED
    BY <1>1, <1>2, <1>3 DEF Kept

(* rx_loop is reached with a running port only if the pool fills the       *)
(* receive queue, takes every packet of the capture and has one more, for  *)
(* every size of the three.                                                *)
THEOREM ProgramPoolSuffices == System => []PoolSuffices
  <1>1. Kept => PoolSuffices
    BY DEF Kept, CallInv, Supply
  <1> QED
    BY <1>1, KeptInit, KeptStep, PTL DEF System

(* Zeros in the file are a failed loop, or one that sent at most what the  *)
(* queue holds; what the file counts was sent, and misses no more than     *)
(* that, whatever the port does while main prints and saves it.            *)
THEOREM ProgramSavedCounts == System => []SavedCounts
  <1>1. Kept => SavedCounts
    <2> SUFFICES ASSUME Kept, pc = "exit", file \in {"zeros", "counts"}
                 PROVE  /\ result # "success" => file = "zeros"
                        /\ result = "success" =>
                             /\ file = "zeros" <=> counts = Loop!Zero
                             /\ counts.tx <= Loop!Total(sent) - Loop!Total(txq)
                             /\ Loop!Total(sent) <= counts.tx + TxDesc
      BY DEF SavedCounts
    <2>1. LoopHolds /\ file = Told
      BY DEF Kept, CallInv, Looping
    <2>2. /\ result # "success" => counts = Loop!Zero
          /\ result = "success" =>
               /\ counts.tx <= Loop!Total(sent) - Loop!Total(txq)
               /\ Loop!Total(sent) <= counts.tx + TxDesc
      BY <2>1, Totals DEF LoopHolds, LoopP!Reported, LoopP!Zero, Loop!Zero
    <2>3. file = "zeros" <=> counts = Loop!Zero
      BY <2>1 DEF Told
    <2> QED
      BY <2>2, <2>3
  <1> QED
    BY <1>1, KeptInit, KeptStep, PTL DEF System

(* rx_loop is called in a state that RxLoop starts from, so that what is   *)
(* proved of the loop alone holds of the loop in the program.              *)
THEOREM ProgramCalledAsAssumed == System => CalledAsAssumed
  <1>1. Kept /\ [SystemNext]_all => (pc = "load" /\ pc' = "loop" => Loop!Init')
    <2> SUFFICES ASSUME Kept, [SystemNext]_all, pc = "load", pc' = "loop"
                 PROVE  Loop!Init'
      OBVIOUS
    <2>1. Loaded
      BY DEF SystemNext, Thread, Create, CreatePool, Start, StartPort, Wait, WaitForLink,
         Open, OpenPcap, Check, Load, LoopStep, LoopReturns, EalInit, Configure, CountPorts,
         InitQueues, OpenYaml, PrsCfg, PrintCfg, OpenSummary, CloseSummary, PortStep,
         TimePasses, LinkChange, Kill, all, vars
    <2> QED
      BY <2>1, Called DEF Kept
  <1> QED
    BY <1>1, KeptInit, KeptStep, PTL DEF System, CalledAsAssumed


=============================================================================
