------------------------------ MODULE DataPath ------------------------------
(***************************************************************************)
(* The packet buffers on their way through a whole run: the pool is made,  *)
(* the port's receive queue takes its share when the port starts and gives *)
(* it back when the port stops, load_packets takes the burst, rx_loop runs *)
(* on what is left.  The loader and the loop are the modules PcapLoader    *)
(* and RxLoop on one set of variables; what is new here is DPDK's part     *)
(* between them.  A program's main decides what happens when.              *)
(***************************************************************************)
EXTENDS EthDev, Mempool, SequencesExt

CONSTANTS
  RxDescs,      \* sizes of the receive queue that a device may settle for
  MaxPktBurst, BufSize, DataRoom, Captures,             \* of PcapLoader
  TxDesc, Period, IntMax, U16, Durations,               \* of RxLoop
  MaxSends, MaxFrames, MaxJumps                         \* bounds of RxLoop

VARIABLES
  rx_desc,                                              \* the device's choice
  pool, lost, tx_packets, data,                         \* of both modules
  capture, pos, eof, phase, pkt_num, pool0,             \* of PcapLoader
  rxq, rxd, txq, txd, stats, cnt, pkts, got,            \* of RxLoop
  loop_pc, result, counts, now, duration,
  sent, cleaned, wire, free0, gap, jumps

loading == <<capture, pos, eof, phase, pkt_num>>
ring    == <<rxq, rxd, txq, txd, stats>>
looping == <<cnt, pkts, got, loop_pc, result, counts, now, duration,
             sent, cleaned, wire, free0, gap, jumps>>
path    == <<rx_desc, pool, lost, tx_packets, data, loading, pool0, ring, looping>>

Loader == INSTANCE PcapLoader

\* What load_packets can leave in tx_packets.
Arrays == UNION {Injection(1 .. n, Mbufs) : n \in 1 .. MaxPktBurst}

Loop == INSTANCE RxLoop WITH pc <- loop_pc, summary <- counts,
                             running <- port = "started", Bursts <- Arrays

\* The constants are what the two modules assume of theirs.
ASSUME PathAssumption ==
  RxDescs \subseteq Nat /\ Loader!LoaderAssumption /\ Loop!LoopAssumption

-----------------------------------------------------------------------------

\* rte_pktmbuf_pool_create.
MakePool ==
  /\ pool' = [m \in Mbufs |-> 1]
  /\ UNCHANGED <<rx_desc, lost, tx_packets, data, loading, pool0, ring, looping>>

(* rte_eth_dev_start puts a buffer in every descriptor of the receiver; it *)
(* cannot succeed with fewer.                                              *)
PostRing ==
  /\ \E S \in kSubset(rx_desc, {m \in Mbufs : pool[m] > 0}) :
       /\ pool' = [m \in Mbufs |-> pool[m] - (IF m \in S THEN 1 ELSE 0)]
       /\ rxq' = [m \in Mbufs |-> IF m \in S THEN 1 ELSE 0]
  /\ UNCHANGED <<rx_desc, lost, tx_packets, data, loading, pool0,
                 rxd, txq, txd, stats, looping>>

(* rte_eth_dev_stop frees what is in the receiver's descriptors, the       *)
(* frames among it; the counters stay.                                     *)
DrainEmpty ==                                                      \* mutant
  /\ pool' = [m \in Mbufs |-> pool[m] + rxq[m]]
  /\ rxq' = Nowhere /\ rxd' = Nowhere
  /\ UNCHANGED <<rx_desc, lost, tx_packets, data, loading, pool0, txq, txd, stats, looping>>

DrainRing ==
  /\ pool' = [m \in Mbufs |-> pool[m] + rxq[m] + rxd[m]]
  /\ rxq' = Nowhere /\ rxd' = Nowhere
  /\ UNCHANGED <<rx_desc, lost, tx_packets, data, loading, pool0, txq, txd, stats, looping>>

\* fopen of the capture: the loader's part begins.
OpenCapture ==
  /\ pool0' = pool
  /\ UNCHANGED <<rx_desc, pool, lost, tx_packets, data, loading, ring, looping>>

CheckCapture == Loader!CheckPcap /\ UNCHANGED <<rx_desc, ring, looping>>

\* A call of get_packet.
LoadOne ==
  /\ Loader!NoMbuf \/ \E m \in Mbufs : Loader!GetPacket(m)
  /\ UNCHANGED <<rx_desc, ring, looping>>

\* rx_loop is called.
EnterLoop ==
  /\ free0' = Total(pool)
  /\ UNCHANGED <<rx_desc, pool, lost, tx_packets, data, loading, pool0, ring,
                 cnt, pkts, got, loop_pc, result, counts, now, duration,
                 sent, cleaned, wire, gap, jumps>>

\* Steps of rx_loop, and of the port on its own.
InLoop(Step) == Step /\ UNCHANGED <<rx_desc, loading, pool0>>

PathInit ==
  /\ rx_desc \in RxDescs /\ capture \in Captures /\ duration \in Durations
  /\ pool = Nowhere /\ lost = Nowhere /\ data = [m \in Mbufs |-> 0]
  /\ tx_packets = <<>> /\ pos = 0 /\ eof = FALSE
  /\ phase = "check" /\ pkt_num = 0 /\ pool0 = Nowhere
  /\ rxq = Nowhere /\ rxd = Nowhere /\ txq = Nowhere /\ txd = Nowhere
  /\ stats = Loop!Zero /\ counts = Loop!Zero
  /\ cnt = 0 /\ pkts = 0 /\ got = 0 /\ now = 0 /\ gap = 0 /\ jumps = 0
  /\ loop_pc = "check" /\ result = "running"
  /\ sent = Nowhere /\ cleaned = 0 /\ wire = {} /\ free0 = 0

-----------------------------------------------------------------------------

\* Where a buffer is, and how often; the burst is the program's own until
\* rx_loop hands it over.
References(m) ==
  pool[m] + rxq[m] + rxd[m] + txq[m] + txd[m] + lost[m]
    + (IF m \in Loader!Loaded /\ sent[m] = 0 THEN 1 ELSE 0)

=============================================================================
