--------------------------- MODULE PrototypeProofs ---------------------------
(***************************************************************************)
(* Proofs about the prototype, for every pool, capture, ring and period.   *)
(* What its loader does to the buffers is proved in PcapLoaderProofs, of   *)
(* which an instance is made here.                                         *)
(***************************************************************************)
EXTENDS Prototype, MempoolProofs

LoaderP == INSTANCE PcapLoaderProofs

LoopP == INSTANCE RxLoopProofs WITH pc <- loop_pc, summary <- counts,
                                    running <- port = "started", Bursts <- Arrays

(* What that module assumes holds here.                                    *)
LEMMA LoaderAssumed == LoaderP!IsFiniteSet(Mbufs) /\ LoaderP!LoaderAssumption
  <1>1. LoaderP!IsFiniteSet(Mbufs)
    BY MempoolAssumption DEF IsFiniteSet, LoaderP!IsFiniteSet
  <1>2. LoaderP!Capture = Loader!Capture
    BY DEF LoaderP!Capture, LoaderP!Record, LoaderP!Ending,
       Loader!Capture, Loader!Record, Loader!Ending
  <1> QED
    BY <1>1, <1>2, PathAssumption DEF Loader!LoaderAssumption, LoaderP!LoaderAssumption

LEMMA LoaderIs ==
  (Loader!CheckPcap \/ Loader!NoMbuf \/ \E m \in Mbufs : Loader!GetPacket(m)) <=> LoaderP!Next
  <1>1. Loader!CheckPcap <=> LoaderP!CheckPcap
    BY DEF Loader!CheckPcap, LoaderP!CheckPcap
  <1>2. Loader!NoMbuf <=> LoaderP!NoMbuf
    BY DEF Loader!NoMbuf, LoaderP!NoMbuf, Loader!Exhausted, LoaderP!Exhausted,
       Loader!Finish, LoaderP!Finish, Loader!PktNum, LoaderP!PktNum
  <1>3. ASSUME NEW m \in Mbufs PROVE Loader!GetPacket(m) <=> LoaderP!GetPacket(m)
    BY DEF Loader!GetPacket, LoaderP!GetPacket, 
       Loader!HeaderAtEof, LoaderP!HeaderAtEof, Loader!ReadError, LoaderP!ReadError,
       Loader!DataAtEof, LoaderP!DataAtEof, Loader!Refused, LoaderP!Refused,
       Loader!Stored, LoaderP!Stored, Loader!Overrun, LoaderP!Overrun,
       Loader!Finish, LoaderP!Finish, Loader!PktNum, LoaderP!PktNum,
       Loader!Alloc, LoaderP!Alloc, Loader!Release, LoaderP!Release,
       Loader!Put, LoaderP!Put, Loader!Take, LoaderP!Take, Loader!Slot, LoaderP!Slot,
       Loader!NextRecord, LoaderP!NextRecord, Loader!Acceptable, LoaderP!Acceptable
  <1> QED
    BY <1>1, <1>2, <1>3 DEF LoaderP!Next

LEMMA LoaderKeeps ==
  ASSUME LoaderP!IInv,
         Loader!CheckPcap \/ Loader!NoMbuf \/ \E m \in Mbufs : Loader!GetPacket(m)
  PROVE  LoaderP!IInv'
  BY LoaderIs, LoaderAssumed, LoaderP!NextIInv DEF LoaderP!LoaderAssumption

LEMMA LoaderAlone ==
  ASSUME LoaderP!IInv,
         UNCHANGED <<capture, pos, eof, pool, lost, tx_packets, data, phase, pkt_num, pool0>>
  PROVE  LoaderP!IInv'
  BY LoaderAssumed, LoaderP!NextIInv DEF LoaderP!LoaderAssumption, LoaderP!vars

-----------------------------------------------------------------------------

PreLoad == {"eal", "pool", "ports", "queues", "start", "poll", "open"}

Loading == {"check", "load"}

(* Nothing was handed over before the loop.                                *)
Unsent ==
  /\ txq = Nowhere /\ txd = Nowhere /\ sent = Nowhere /\ wire = {}
  /\ loop_pc = "check" /\ result = "running"
  /\ rxq \in Places /\ rxd \in Places

(* Before the loader runs its variables are as it expects them, and a      *)
(* buffer is in one place at most; in the receiver's only once the port    *)
(* was started.                                                            *)
Unloaded ==
  /\ capture \in Captures /\ pos = 0 /\ eof = FALSE /\ lost = Nowhere
  /\ tx_packets = <<>> /\ data = [m \in Mbufs |-> 0] /\ phase = "check" /\ pkt_num = 0
  /\ pool \in Places /\ \A m \in Mbufs : pool[m] + rxq[m] + rxd[m] <= 1
  /\ pc \in {"eal", "pool"} => pool = Nowhere
  /\ pc \notin {"poll", "open"} => rxq = Nowhere /\ rxd = Nowhere /\ port # "started"

(* While it runs what the receiver has does not come from the loader.      *)
Apart ==
  /\ LoaderP!IInv
  /\ \A m \in Mbufs : pool0[m] + rxq[m] + rxd[m] <= 1

(* In the loop the burst is one of distinct buffers, and the refusal that  *)
(* ends it leaves no descriptor free.                                      *)
Looping ==
  /\ tx_packets \in Seq(Mbufs)
  /\ \A i, j \in DOMAIN tx_packets : tx_packets[i] = tx_packets[j] => i = j
  /\ txq \in Places /\ txd \in Places /\ sent \in Places
  /\ port # "started" => wire = {} /\ sent = Nowhere
  /\ loop_pc = "done" =>
       /\ result = "failure"
       /\ port = "started" => Total(txq) + Total(txd) = TxDesc

IInv ==
  /\ pc \in PreLoad \cup Loading => Unsent
  /\ pc \in PreLoad => Unloaded
  /\ pc \in Loading => Apart
  /\ pc = "loop" => Looping
  /\ status = 0 => Looping /\ loop_pc = "done" /\ pc = "exit"

LEMMA InitIInv == Init => IInv
  <1> SUFFICES ASSUME Init PROVE IInv
    OBVIOUS
  <1>1. pc = "eal" /\ status = 2
    BY DEF Init
  <1>2. /\ pool = Nowhere /\ rxq = Nowhere /\ rxd = Nowhere
        /\ \A m \in Mbufs : pool[m] + rxq[m] + rxd[m] <= 1
    BY DEF Init, PathInit, Nowhere
  <1>3. Unsent /\ Unloaded
    BY <1>1, <1>2, TotalNowhere DEF Init, PathInit, EthDevInit, Unsent, Unloaded
  <1> QED
    BY <1>1, <1>3 DEF IInv, PreLoad, Loading

(* The steps of main up to the start of the port, and those of its calls   *)
(* that only decide how it goes on.                                        *)
LEMMA SetUpIInv ==
  ASSUME IInv, DpdkInit \/ InitMempool \/ LogAvailable \/ InitQueues
  PROVE  IInv'
  <1> USE DEF Goto, Require, Return, PreLoad, Loading
  <1>1. /\ pc \in {"eal", "pool", "ports", "queues"} /\ status # 0
        /\ pc' \in {"pool", "ports", "queues", "start", "exit"}
        /\ status' = status \/ status' = 1
        /\ pc' = "pool" => pc = "eal"
        /\ Unsent /\ Unloaded
    BY DEF DpdkInit, InitMempool, LogAvailable, InitQueues, IInv
  <1>2. /\ UNCHANGED <<rx_desc, lost, tx_packets, data, loading, ring, looping>>
        /\ \/ pool' = pool
           \/ pool' = [m \in Mbufs |-> 1] /\ pc' # "pool"
        /\ port' # "started"
    BY <1>1 DEF DpdkInit, InitMempool, MakePool, LogAvailable, InitQueues, InitRxTxQueues,
       device, path, Unloaded
  <1>3. Unsent'
    BY <1>1, <1>2 DEF Unsent, ring, looping
  <1>4. Unloaded'
    <2>1. rxq = Nowhere /\ rxd = Nowhere /\ rxq' = Nowhere /\ rxd' = Nowhere
      BY <1>1, <1>2 DEF Unloaded, ring
    <2>2. pool' \in Places /\ \A m \in Mbufs : pool'[m] + rxq'[m] + rxd'[m] <= 1
      BY <1>1, <1>2, <2>1 DEF Unloaded, Places, Nowhere
    <2> QED
      BY <1>1, <1>2, <2>1, <2>2 DEF Unloaded, loading
  <1> QED
    BY <1>1, <1>3, <1>4 DEF IInv

(* The port is started and, without a link, stopped.                       *)
LEMMA StartIInv ==
  ASSUME IInv, Start \/ Wait
  PROVE  IInv'
  <1> USE DEF Goto, PreLoad, Loading
  <1>1. /\ pc \in {"start", "poll"} /\ status # 0 /\ pc' \in {"poll", "open"}
        /\ status' = status /\ Unsent /\ Unloaded
    BY DEF Start, Wait, IInv
  <1>2. /\ UNCHANGED <<lost, tx_packets, data, loading, looping, txq, txd>>
        /\ \/ UNCHANGED <<pool, rxq, rxd>>
           \/ PostRing
           \/ DrainRing
    BY <1>1 DEF Start, Wait, PostRing, DrainRing, path, ring
  <1>3. ASSUME NEW m \in Mbufs
        PROVE  pool[m] \in Nat /\ rxq[m] \in Nat /\ rxd[m] \in Nat
    BY <1>1 DEF Unloaded, Unsent, Places
  <1>4. /\ pool' \in Places /\ rxq' \in Places /\ rxd' \in Places
        /\ \A m \in Mbufs : pool'[m] + rxq'[m] + rxd'[m] <= 1
    <2>1. CASE UNCHANGED <<pool, rxq, rxd>>
      BY <1>1, <2>1 DEF Unloaded, Unsent
    <2>2. CASE DrainRing
      <3>1. /\ pool' = [m \in Mbufs |-> pool[m] + rxq[m] + rxd[m]]
            /\ rxq' = Nowhere /\ rxd' = Nowhere
        BY <2>2 DEF DrainRing
      <3>2. \A m \in Mbufs : pool[m] + rxq[m] + rxd[m] \in Nat
        BY <1>3
      <3> QED
        BY <1>1, <3>1, <3>2 DEF Unloaded, Places, Nowhere
    <2>3. CASE PostRing /\ pc = "start"
      <3>1. PICK S \in SUBSET {m \in Mbufs : pool[m] > 0} :
              /\ pool' = [m \in Mbufs |-> pool[m] - (IF m \in S THEN 1 ELSE 0)]
              /\ rxq' = [m \in Mbufs |-> IF m \in S THEN 1 ELSE 0]
        BY <2>3 DEF PostRing, kSubset
      <3>2. rxd' = Nowhere /\ rxq = Nowhere /\ rxd = Nowhere
        BY <1>1, <2>3 DEF PostRing, Unloaded
      <3>3. \A m \in Mbufs : pool[m] <= 1
        BY <1>1, <1>3, <3>2 DEF Unloaded, Nowhere
      <3> QED
        BY <1>3, <3>1, <3>2, <3>3 DEF Places, Nowhere
    <2>4. PostRing => pc = "start" \/ UNCHANGED <<pool, rxq, rxd>> \/ DrainRing
      BY DEF Start, Wait, path, ring
    <2> QED
      BY <1>2, <2>1, <2>2, <2>3, <2>4
  <1>5. Unsent' /\ Unloaded'
    BY <1>1, <1>2, <1>4 DEF Unsent, Unloaded, loading, looping
  <1> QED
    BY <1>1, <1>5 DEF IInv

(* The capture is opened: the loader's part begins.                        *)
LEMMA OpenIInv ==
  ASSUME IInv, Open
  PROVE  IInv'
  <1>1. pc = "open" /\ status # 0 /\ Unsent /\ Unloaded
    BY DEF Open, IInv, PreLoad
  <1>2. UNCHANGED <<pool, lost, tx_packets, data, loading, ring, looping>>
    BY DEF Open, OpenCapture, path
  <1>3. CASE OpenCapture /\ Goto("check")
    <2>1. pool \in [Mbufs -> {0, 1}] /\ pool0' = pool
      <3>1. \A m \in Mbufs : pool[m] \in Nat /\ rxq[m] \in Nat /\ rxd[m] \in Nat
        BY <1>1 DEF Unloaded, Unsent, Places
      <3>2. \A m \in Mbufs : pool[m] \in {0, 1}
        BY <1>1, <3>1 DEF Unloaded
      <3> QED
        BY <1>1, <1>3, <3>2 DEF Unloaded, Places, OpenCapture
    <2>2. LoaderP!Init'
      BY <1>1, <1>2, <2>1 DEF LoaderP!Init, LoaderP!Nowhere, Nowhere, Unloaded, loading
    <2>3. LoaderP!IInv'
      BY <2>2, LoaderAssumed, LoaderP!ReadyIInv DEF LoaderP!LoaderAssumption
    <2>4. Apart'
      BY <1>1, <1>2, <2>1, <2>3 DEF Apart, Unloaded, ring
    <2>5. Unsent'
      BY <1>1, <1>2 DEF Unsent, ring, looping
    <2> QED
      BY <1>1, <1>3, <2>4, <2>5 DEF IInv, Goto, PreLoad, Loading
  <1>4. CASE Return(1)
    BY <1>4 DEF IInv, Return, PreLoad, Loading
  <1> QED
    BY <1>3, <1>4 DEF Open

(* The loader's own steps.                                                 *)
LEMMA LoadIInv ==
  ASSUME IInv, Check \/ Load
  PROVE  IInv'
  <1>1. /\ pc \in Loading /\ status # 0 /\ Unsent /\ Apart
        /\ \/ pc' \in Loading /\ status' = status
           \/ pc' = "exit" /\ status' = 1
    BY DEF Check, Load, IInv, PreLoad, Loading, Looping, Require, Goto, Return, program
  <1>2. /\ Loader!CheckPcap \/ Loader!NoMbuf \/ \E m \in Mbufs : Loader!GetPacket(m)
        /\ UNCHANGED <<ring, looping>>
    BY DEF Check, CheckCapture, Load, LoadOne
  <1>3. LoaderP!IInv' /\ pool0' = pool0
    <2>1. LoaderP!Next
      BY <1>2, LoaderIs
    <2>2. pool0' = pool0
      BY <2>1 DEF LoaderP!Next, LoaderP!CheckPcap, LoaderP!NoMbuf, LoaderP!GetPacket,
         LoaderP!HeaderAtEof, LoaderP!ReadError, LoaderP!DataAtEof, LoaderP!Refused,
         LoaderP!Stored, LoaderP!Overrun, LoaderP!Finish
    <2> QED
      BY <1>1, <1>2, <2>2, LoaderKeeps DEF Apart
  <1>4. Unsent' /\ Apart'
    BY <1>1, <1>2, <1>3 DEF Unsent, Apart, ring, looping
  <1> QED
    BY <1>1, <1>4 DEF IInv, PreLoad, Loading

(* rx_loop is called with what the loader has left.                        *)
LEMMA LoadedIInv ==
  ASSUME IInv, Loaded
  PROVE  IInv'
  <1>1. /\ pc = "load" /\ status # 0 /\ Unsent /\ Apart
        /\ \/ pc' = "crashed" /\ status' = status
           \/ pc' = "exit" /\ status' = 1
           \/ pc' = "loop" /\ status' = status
    BY DEF Loaded, IInv, Loading, Require, Goto, Return
  <1>2. UNCHANGED <<tx_packets, txq, txd, sent, wire, loop_pc, result>>
    BY DEF Loaded, EnterLoop, ring
  <1>3. /\ tx_packets \in Seq(Mbufs)
        /\ \A i, j \in DOMAIN tx_packets : tx_packets[i] = tx_packets[j] => i = j
    BY <1>1 DEF Apart, LoaderP!IInv, LoaderP!TypeOK, LoaderP!BurstIsCapture
  <1>4. Looping'
    BY <1>1, <1>2, <1>3, TotalNowhere DEF Looping, Unsent
  <1> QED
    BY <1>1, <1>4 DEF IInv, PreLoad, Loading

-----------------------------------------------------------------------------

(* What is counted and handed over in the loop, in this module's words.    *)
LEMMA LoopAssumed == LoopP!IsFiniteSet(Mbufs) /\ LoopP!LoopAssumption
  <1>1. LoopP!IsFiniteSet(Mbufs)
    BY MempoolAssumption DEF IsFiniteSet, LoopP!IsFiniteSet
  <1> QED
    BY <1>1, PathAssumption DEF Loop!LoopAssumption, LoopP!LoopAssumption

LEMMA LoopTotal ==
  ASSUME NEW place
  PROVE  Loop!Total(place) = Total(place) /\ LoopP!Total(place) = Total(place)
  BY DEF Loop!Total, Loop!Refs, Loop!Cardinality, LoopP!Total, LoopP!Refs, LoopP!Cardinality,
     Total, Refs, Cardinality

(* The hand-over of the first k packets of a burst of distinct buffers.    *)
LEMMA Handed ==
  ASSUME Looping, NEW place \in Places, NEW k \in 0 .. Loop!NbPkts
  PROVE  /\ Loop!NbPkts \in Nat
         /\ Loop!Hand(place, k) \in Places
         /\ Total(Loop!Hand(place, k)) = Total(place) + k
         /\ k = 0 => Loop!Hand(place, k) = place
  <1>1. Loop!NbPkts = LoopP!NbPkts /\ Loop!NbPkts = Len(tx_packets) /\ Loop!NbPkts \in Nat
    BY DEF Loop!NbPkts, LoopP!NbPkts, Looping
  <1>2. LoopP!Hand(place, k) = Loop!Hand(place, k)
    BY DEF LoopP!Hand, Loop!Hand, LoopP!Among, Loop!Among
  <1>3. place \in LoopP!Places /\ k \in 0 .. LoopP!NbPkts
    BY <1>1 DEF Places, LoopP!Places
  <1>4. \A i, j \in 1 .. LoopP!NbPkts : tx_packets[i] = tx_packets[j] => i = j
    BY <1>1 DEF Looping
  <1>5. LoopP!Total(LoopP!Hand(place, k)) = LoopP!Total(place) + k
    BY <1>3, <1>4, LoopAssumed, LoopP!TotalHand DEF Looping, LoopP!LoopAssumption
  <1>6. \A m \in Mbufs : place[m] \in Nat
    BY DEF Places
  <1>7. Loop!Hand(place, k) \in Places
    BY <1>6 DEF Loop!Hand, Places
  <1>8. k = 0 => Loop!Hand(place, k) = place
    BY <1>6 DEF Loop!Hand, Loop!Among, Places
  <1> QED
    BY <1>1, <1>2, <1>5, <1>7, <1>8, LoopTotal

(* The loop is left with a burst that did not fit.                         *)
LEMMA SendLooping ==
  ASSUME Looping, NEW k \in 0 .. Loop!NbPkts, Loop!Send(k), UNCHANGED port
  PROVE  Looping'
  <1>1. /\ k = Loop!Accepted /\ txq' = Loop!Hand(txq, k) /\ sent' = Loop!Hand(sent, k)
        /\ UNCHANGED <<txd, wire, tx_packets>>
        /\ \/ Loop!Refused(k) /\ result' = "failure"
           \/ loop_pc' = "receive"
    BY DEF Loop!Send, Loop!HandOver, Loop!fixed
  <1>2. /\ txq' \in Places /\ Total(txq') = Total(txq) + k
        /\ sent' \in Places
        /\ k = 0 => sent' = sent
    BY <1>1, Handed DEF Looping
  <1>3. /\ Total(txq) \in Nat /\ Total(txd) \in Nat /\ TxDesc \in Nat
        /\ Loop!NbPkts \in Nat
    BY TotalType, Handed, PathAssumption DEF Looping, Loop!LoopAssumption
  <1>4. port # "started" => k = 0
    BY <1>1 DEF Loop!Accepted
  <1>5. port = "started" /\ Loop!Refused(k) => k = TxDesc - Total(txq) - Total(txd)
    BY <1>1, <1>3, LoopTotal DEF Loop!Accepted, Loop!Refused, Loop!FreeDesc
  <1>6. port = "started" /\ Loop!Refused(k) => Total(txq') + Total(txd') = TxDesc
    BY <1>1, <1>2, <1>3, <1>5
  <1>7. port' = port /\ wire' = wire /\ tx_packets' = tx_packets /\ txd' = txd
    BY <1>1
  <1>8. port' # "started" => wire' = {} /\ sent' = Nowhere
    BY <1>2, <1>4, <1>7 DEF Looping
  <1>9. loop_pc' = "done" =>
          result' = "failure" /\ (port' = "started" => Total(txq') + Total(txd') = TxDesc)
    BY <1>1, <1>6, <1>7
  <1> QED
    BY <1>2, <1>7, <1>8, <1>9 DEF Looping

(* The driver and the port only run when the port was started.             *)
LEMMA DriverLooping ==
  ASSUME Looping, UNCHANGED port,
         \/ Loop!Iterate \/ Loop!ReceiveEnd \/ Loop!Port
         \/ \E m \in Mbufs : Loop!TxClean(m) \/ \E m2 \in Mbufs : Loop!Receive(m, m2)
  PROVE  Looping'
  <1> USE DEF Loop!program, Loop!fixed, Loop!world, Loop!buffers
  <1>1. CASE Loop!Iterate \/ Loop!ReceiveEnd \/ Loop!Miss
    BY <1>1 DEF Loop!Iterate, Loop!ReceiveEnd, Loop!Miss, Looping
  <1>2. ASSUME NEW m \in Mbufs, NEW m2 \in Mbufs, Loop!Receive(m, m2)
        PROVE  Looping'
    BY <1>2 DEF Loop!Receive, Looping
  <1>3. ASSUME NEW m \in Mbufs, Loop!TxClean(m)
        PROVE  Looping'
    <2>1. /\ txd' = Take(txd, m) /\ txd[m] > 0 /\ loop_pc' = "send"
          /\ UNCHANGED <<txq, sent, wire, tx_packets>>
      BY <1>3 DEF Loop!TxClean, Loop!Take, Take
    <2>2. txd' \in Places
      BY <2>1, TakeType DEF Looping
    <2> QED
      BY <2>1, <2>2 DEF Looping
  <1>4. ASSUME NEW m \in Mbufs, Loop!Transmit(m)
        PROVE  Looping'
    <2>1. /\ txq' = Take(txq, m) /\ txd' = Put(txd, m) /\ txq[m] > 0
          /\ port = "started" /\ UNCHANGED <<sent, tx_packets, loop_pc, result>>
      BY <1>4 DEF Loop!Transmit, Loop!Take, Loop!Put, Take, Put
    <2>2. /\ txq' \in Places /\ txd' \in Places
          /\ Total(txq') + Total(txd') = Total(txq) + Total(txd)
      <3>1. txq' \in Places /\ txd' \in Places
        BY <2>1, TakeType, PutType DEF Looping
      <3>2. /\ Total(txq') = Total(txq) - 1 /\ Total(txd') = Total(txd) + 1
            /\ Total(txq) \in Nat /\ Total(txd) \in Nat
        BY <2>1, TotalTake, TotalPut, TotalType DEF Looping
      <3> QED
        BY <3>1, <3>2
    <2> QED
      BY <2>1, <2>2 DEF Looping
  <1>5. ASSUME NEW m \in Mbufs, Loop!Arrive(m)
        PROVE  Looping'
    BY <1>5 DEF Loop!Arrive, Looping
  <1> QED
    BY <1>1, <1>2, <1>3, <1>4, <1>5 DEF Loop!Port

LEMMA LoopIInv ==
  ASSUME IInv, LoopStep \/ LoopReturns
  PROVE  IInv'
  <1> USE DEF PreLoad, Loading
  <1>1. pc = "loop" /\ status # 0 /\ Looping
    BY DEF LoopStep, LoopReturns, IInv
  <1>2. CASE LoopStep
    <2>1. pc' = "loop" /\ UNCHANGED <<status, port>>
      BY <1>1, <1>2 DEF LoopStep, program, device
    <2>2. Looping'
      BY <1>1, <1>2, <2>1, SendLooping, DriverLooping DEF LoopStep, InLoop
    <2> QED
      BY <1>1, <2>1, <2>2 DEF IInv
  <1>3. CASE LoopReturns
    <2>1. UNCHANGED <<port, tx_packets, ring, looping>> /\ loop_pc = "done" /\ pc' = "exit"
      BY <1>3 DEF LoopReturns, Return, path, device
    <2>2. Looping' /\ loop_pc' = "done"
      BY <1>1, <2>1 DEF Looping, ring, looping
    <2> QED
      BY <1>1, <2>1, <2>2 DEF IInv
  <1> QED
    BY <1>2, <1>3

(* The port on its own: before the loop nothing can be transmitted, and    *)
(* what arrives goes to buffers that the receiver had from the start.      *)
LEMMA PortIInv ==
  ASSUME IInv, PortStep
  PROVE  IInv'
  <1>1. /\ UNCHANGED <<pc, status, port>> /\ port = "started"
        /\ Loop!Port /\ UNCHANGED <<rx_desc, loading, pool0>>
    BY DEF PortStep, InLoop, program, device
  <1>2. pc = "loop" \/ status = 0 => Looping' /\ loop_pc' = loop_pc
    <2>1. loop_pc' = loop_pc
      BY <1>1 DEF Loop!Port, Loop!Miss, Loop!Transmit, Loop!Arrive, Loop!program
    <2> QED
      BY <1>1, <2>1, DriverLooping DEF IInv
  <1>3. ASSUME pc \in PreLoad \cup Loading
        PROVE  Unsent' /\ (Unloaded => Unloaded') /\ (Apart => Apart')
    <2>1. Unsent
      BY <1>3 DEF IInv
    <2>2. CASE Loop!Miss
      BY <1>1, <2>1, <2>2, LoaderAlone DEF Loop!Miss, Loop!buffers, Loop!program, Loop!fixed,
         Unsent, Unloaded, Apart, loading
    <2>3. ASSUME NEW m \in Mbufs, Loop!Transmit(m) PROVE FALSE
      BY <2>1, <2>3 DEF Loop!Transmit, Unsent, Nowhere
    <2>4. ASSUME NEW m \in Mbufs, Loop!Arrive(m)
          PROVE  Unsent' /\ (Unloaded => Unloaded') /\ (Apart => Apart')
      <3>1. /\ rxq' = Take(rxq, m) /\ rxd' = Put(rxd, m) /\ rxq[m] > 0
            /\ data' = [data EXCEPT ![m] = 0]
            /\ UNCHANGED <<pool, txq, txd, lost, sent, wire, loop_pc, result, tx_packets>>
        BY <2>4 DEF Loop!Arrive, Loop!program, Loop!fixed, Loop!Take, Loop!Put, Take, Put,
           Loop!Foreign
      <3>2. rxq' \in Places /\ rxd' \in Places
        BY <2>1, <3>1, TakeType, PutType DEF Unsent
      <3>3. ASSUME NEW x \in Mbufs
            PROVE  /\ rxq'[x] \in Nat /\ rxd'[x] \in Nat /\ rxq[x] \in Nat /\ rxd[x] \in Nat
                   /\ rxq'[x] + rxd'[x] = rxq[x] + rxd[x]
        BY <2>1, <3>1, MoveSum DEF Unsent, Places
      <3>4. Unsent'
        BY <2>1, <3>1, <3>2 DEF Unsent
      <3>5. ASSUME Unloaded PROVE Unloaded'
        <4>1. ASSUME NEW x \in Mbufs PROVE pool'[x] + rxq'[x] + rxd'[x] <= 1
          <5>1. pool[x] \in Nat /\ pool[x] + rxq[x] + rxd[x] <= 1
            BY <3>5 DEF Unloaded, Places
          <5> QED
            BY <3>1, <3>3, <5>1
        <4>2. data' = [x \in Mbufs |-> 0]
          BY <3>1, <3>5 DEF Unloaded
        <4>3. pc \in {"poll", "open"}
          BY <1>1, <3>5 DEF Unloaded
        <4> QED
          BY <1>1, <3>1, <3>5, <4>1, <4>2, <4>3 DEF Unloaded, loading
      <3>6. ASSUME Apart PROVE Apart'
        <4>1. ASSUME NEW x \in Mbufs
              PROVE  /\ pool0[x] + rxq'[x] + rxd'[x] <= 1
                     /\ rxq[x] > 0 => pool0[x] = 0 /\ x \notin LoaderP!Loaded
          <5>1. /\ pool0[x] \in {0, 1} /\ pool0[x] + rxq[x] + rxd[x] <= 1
                /\ pool[x] \in {0, 1} /\ lost[x] \in {0, 1} /\ LoaderP!Held(x) \in {0, 1}
                /\ pool[x] + lost[x] + LoaderP!Held(x) = pool0[x]
            BY <3>6 DEF Apart, LoaderP!IInv, LoaderP!TypeOK, LoaderP!BufferAccounting, LoaderP!Held
          <5>2. rxq[x] > 0 => pool0[x] = 0 /\ LoaderP!Held(x) = 0
            BY <3>3, <5>1
          <5> QED
            BY <3>3, <5>1, <5>2 DEF LoaderP!Held
        <4>2. m \notin LoaderP!Loaded
          BY <3>1, <4>1
        <4>3. LoaderP!IInv'
          BY <1>1, <3>1, <3>6, <4>2, LoaderAssumed, LoaderP!OtherWritten
             DEF Apart, loading, LoaderP!LoaderAssumption
        <4> QED
          BY <1>1, <4>1, <4>3 DEF Apart
      <3> QED
        BY <3>4, <3>5, <3>6
    <2> QED
      BY <1>1, <2>2, <2>3, <2>4 DEF Loop!Port
  <1> QED
    BY <1>1, <1>2, <1>3 DEF IInv

(* Neither the link nor the end of the process touches what is there.      *)
LEMMA OutsideIInv ==
  ASSUME IInv, LinkChange \/ Kill \/ UNCHANGED vars
  PROVE  IInv'
  <1>1. /\ UNCHANGED <<status, port, lost, tx_packets, data, loading, pool, pool0, ring, looping>>
        /\ \/ pc' = pc
           \/ pc \notin Final /\ pc' = "killed"
    BY DEF LinkChange, Kill, vars, program, device, path
  <1>2. /\ Unsent => Unsent'
        /\ Looping => Looping'
        /\ pc' = pc => (Unloaded => Unloaded')
        /\ Apart => Apart'
    BY <1>1, LoaderAlone DEF Unsent, Unloaded, Looping, Apart, loading, ring, looping
  <1> QED
    BY <1>1, <1>2 DEF IInv, Final, PreLoad, Loading, looping

LEMMA NextIInv == IInv /\ [Next]_vars => IInv'
  BY SetUpIInv, StartIInv, OpenIInv, LoadIInv, LoadedIInv, LoopIInv, PortIInv, OutsideIInv
     DEF Next, Main

THEOREM Inductive == Spec => []IInv
  BY InitIInv, NextIInv, PTL DEF Spec

(* A prototype that reports success has met a burst that was refused: by a *)
(* port that does not run, before anything was sent, or by a transmit      *)
(* queue without a free descriptor.                                        *)
THEOREM PrototypeEnds == Spec => []EndsByRefusal
  <1>1. IInv => EndsByRefusal
    BY LoopTotal, TotalNowhere DEF IInv, Looping, EndsByRefusal
  <1> QED
    BY <1>1, Inductive, PTL

=============================================================================
