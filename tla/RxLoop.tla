------------------------------- MODULE RxLoop -------------------------------
(***************************************************************************)
(* rx_loop of trgen.c against the port it drives.  The loop polls the      *)
(* clock, hands the whole burst to the port once every Period iterations   *)
(* and reads what the port received in every iteration.  The port works on *)
(* its own between any two calls: it transmits what is queued, receives    *)
(* into the buffers posted to it, and the clock moves.                     *)
(*                                                                         *)
(* What the model is for is where the buffers are.  rte_eth_tx_burst makes *)
(* the driver the owner of a buffer, which it frees after the              *)
(* transmission; rx_loop hands over the same buffers again in every period *)
(* and never frees one it received.                                        *)
(***************************************************************************)
EXTENDS Mempool, Integers, Sequences, FiniteSets

CONSTANTS
  TxDesc,       \* descriptors of the transmit queue
  Period,       \* iterations between two bursts, 1000000 in the code
  IntMax,       \* INT_MAX, the largest value of cnt
  U16,          \* 2^16, the modulus of the parameter duration_seconds
  Durations,    \* the values of duration_secs in the configuration
  Bursts,       \* the arrays tx_packets that load_packets can leave
  MaxSends,     \* bound: bursts handed over
  MaxFrames,    \* bound: frames that reach the port
  MaxJumps      \* bound: times the system clock is set

ASSUME LoopAssumption ==
  /\ TxDesc \in Nat /\ Period \in Nat \ {0} /\ IntMax \in Nat /\ Period <= IntMax
  /\ U16 \in Nat \ {0} /\ Durations \subseteq Nat
  /\ \A b \in Bursts :
       /\ b \in Seq(Mbufs) /\ b # <<>>
       /\ \A i, j \in 1 .. Len(b) : b[i] = b[j] => i = j
  /\ MaxSends \in Nat /\ MaxFrames \in Nat /\ MaxJumps \in Nat

VARIABLES
  \* the buffers
  pool,         \* references in the free list
  rxq,          \* posted to the receive queue, empty
  rxd,          \* in the receive queue, filled
  txq,          \* in the transmit queue
  txd,          \* in the transmit queue, sent, not yet cleaned up
  lost,         \* received by rx_loop, which drops the pointer
  data,         \* what a buffer holds: packet i of the burst or a foreign frame
  \* rx_loop
  tx_packets,   \* its parameter, the burst
  cnt,          \* its counter of iterations, an int
  pkts,         \* its counter of received packets
  got,          \* packets the current rte_eth_rx_burst has returned so far
  pc,           \* "check", "send", "receive", "report", "done"
  result,       \* "running", "success", "failure"
  summary,      \* *tgn_summary
  \* the port and the clock
  running,      \* the port was started and found a link
  stats,        \* its counters
  now,          \* time(NULL), start_time being 0
  duration,     \* cfg.duration_secs
  \* history
  sent,         \* how often a buffer was handed over
  cleaned,      \* how many buffers the driver gave back to the pool
  wire,         \* contents of the frames transmitted
  free0,        \* references in the free list when rx_loop was called
  gap,          \* iterations since the last burst
  jumps         \* how often the clock was set

buffers == <<pool, rxq, rxd, txq, txd, lost, data, sent, cleaned, wire>>
program == <<cnt, pkts, got, pc, result, summary, gap>>
world   == <<stats, now, jumps>>
fixed   == <<tx_packets, running, duration, free0>>
vars    == <<buffers, program, world, fixed>>

Foreign == 0

NbPkts == Len(tx_packets)

Zero == [rx |-> 0, tx |-> 0, qfull |-> 0, nombuf |-> FALSE]

(* The fields of the summary that the properties tell apart; rx_nombuf is  *)
(* reduced to whether it counts anything.                                  *)
Stats == [rx : Nat, tx : Nat, qfull : Nat, nombuf : BOOLEAN]

-----------------------------------------------------------------------------
(* The program *)

\* The parameter is a uint16_t: what main passes is cut to 16 bits.
DurationSeconds == duration % U16

ElapsedIs(secs) == now = secs                                      \* mutant

ElapsedEarly(secs) == now + 1 >= secs                              \* mutant

Elapsed(secs) == now >= secs

TimeIsUp ==
  /\ pc = "check"
  /\ Elapsed(DurationSeconds)
  /\ pc' = "report"
  /\ UNCHANGED <<buffers, cnt, pkts, got, result, summary, gap, world, fixed>>

\* ++cnt of an int; the program is built without optimisation, so it wraps.
IncrementWide(i) == i + 1                                          \* mutant

Increment(i) == IF i = IntMax THEN - IntMax - 1 ELSE i + 1

DueOnce(i) == i = Period                                           \* mutant

Due(i) == i % Period = 0

Iterate ==
  /\ pc = "check"
  /\ ~ Elapsed(DurationSeconds)
  /\ Due(Increment(cnt)) => \A m \in Mbufs : sent[m] < MaxSends
  /\ cnt' = Increment(cnt)
  /\ gap' = gap + 1
  /\ pc' = IF Due(cnt') THEN "send" ELSE "receive"
  /\ UNCHANGED <<buffers, pkts, got, result, summary, world, fixed>>

\* Inside rte_eth_tx_burst: the driver frees a buffer whose transmission is
\* over, before it looks for free descriptors.
TxClean(m) ==
  /\ pc = "send" /\ running
  /\ txd[m] > 0
  /\ txd' = Take(txd, m)
  /\ pool' = Put(pool, m)
  /\ cleaned' = cleaned + 1
  /\ UNCHANGED <<rxq, rxd, txq, lost, data, sent, wire, program, world, fixed>>

(* The first k packets of the burst become the driver's.  rx_loop keeps    *)
(* its pointers to them.                                                   *)
Among(m, k) == \E i \in 1 .. k : tx_packets[i] = m

Hand(place, k) == [m \in Mbufs |-> place[m] + (IF Among(m, k) THEN 1 ELSE 0)]

HandOverAndFree(k) ==                                              \* mutant
  /\ txq' = Hand(txq, k)
  /\ pool' = Hand(pool, k)
  /\ sent' = Hand(sent, k)

HandOver(k) ==
  /\ txq' = Hand(txq, k)
  /\ pool' = pool
  /\ sent' = Hand(sent, k)

(* How many packets rte_eth_tx_burst takes: as many as there are free      *)
(* descriptors, and none for a port that does not run.                     *)
FreeDesc == TxDesc - Total(txq) - Total(txd)

Accepted ==
  IF ~ running THEN 0 ELSE IF FreeDesc < NbPkts THEN FreeDesc ELSE NbPkts

\* Only part of the burst fits in the ring.
RefusedSome(k) == 0 < k /\ k < NbPkts                              \* mutant

RefusedAlways(k) == k <= NbPkts                                    \* mutant

Refused(k) == k < NbPkts

Send(k) ==
  /\ pc = "send"
  /\ k = Accepted
  /\ HandOver(k)
  /\ gap' = 0
  /\ IF Refused(k)
     THEN pc' = "done" /\ result' = "failure"
     ELSE pc' = "receive" /\ result' = result
  /\ UNCHANGED <<rxq, rxd, txd, lost, data, cleaned, wire,
                 cnt, pkts, got, summary, world, fixed>>

(* rte_eth_rx_burst returns m, whose place in the receive queue a buffer   *)
(* m2 of the pool takes; rx_loop prints and counts it, and forgets it.     *)
Receive(m, m2) ==
  /\ pc = "receive" /\ got < NbPkts
  /\ rxd[m] > 0 /\ pool[m2] > 0
  /\ rxd' = Take(rxd, m)
  /\ pool' = Take(pool, m2)
  /\ rxq' = Put(rxq, m2)
  /\ lost' = Put(lost, m)
  /\ pkts' = pkts + 1
  /\ got' = got + 1
  /\ UNCHANGED <<txq, txd, data, sent, cleaned, wire,
                 cnt, pc, result, summary, gap, world, fixed>>

(* rte_eth_rx_burst ends: nothing is there, the array is full, or there is *)
(* no buffer to put in the place of the next one, which then stays.        *)
ReceiveEnd ==
  /\ pc = "receive"
  /\ \/ Exhausted(rxd) \/ got = NbPkts
     \/ Exhausted(pool)
  /\ stats' = [stats EXCEPT !.nombuf =
                 @ \/ (~ Exhausted(rxd) /\ got < NbPkts)]
  /\ got' = 0
  /\ pc' = "check"
  /\ UNCHANGED <<buffers, cnt, pkts, result, summary, gap, now, jumps, fixed>>

SummaryMixed == [stats EXCEPT !.rx = stats.qfull, !.qfull = stats.rx] \* mutant

SummaryOfSent == [stats EXCEPT !.tx = Total(sent)]                 \* mutant

Summary == stats

\* rte_eth_stats_get works, or it does not.
Report ==
  /\ pc = "report"
  /\ pc' = "done"
  /\ \/ result' = "success" /\ summary' = Summary
     \/ result' = "failure" /\ summary' = summary
  /\ UNCHANGED <<buffers, cnt, pkts, got, gap, world, fixed>>

Program ==
  \/ TimeIsUp \/ Iterate \/ ReceiveEnd \/ Report
  \/ \E k \in 0 .. NbPkts : Send(k)
  \/ \E m \in Mbufs : TxClean(m) \/ \E m2 \in Mbufs : Receive(m, m2)

-----------------------------------------------------------------------------
(* The port and the clock.  The port works on when rx_loop has returned,   *)
(* nobody stops it; the clock is not read any more.                        *)

Transmit(m) ==
  /\ running
  /\ txq[m] > 0
  /\ txq' = Take(txq, m)
  /\ txd' = Put(txd, m)
  /\ wire' = wire \cup {data[m]}
  /\ stats' = [stats EXCEPT !.tx = @ + 1]
  /\ UNCHANGED <<pool, rxq, rxd, lost, data, sent, cleaned, program, now, jumps, fixed>>

\* A frame arrives: it is written to a posted buffer, or missed.
Arrive(m) ==
  /\ running
  /\ stats.rx + stats.qfull < MaxFrames
  /\ rxq[m] > 0
  /\ rxq' = Take(rxq, m)
  /\ rxd' = Put(rxd, m)
  /\ data' = [data EXCEPT ![m] = Foreign]
  /\ stats' = [stats EXCEPT !.rx = @ + 1]
  /\ UNCHANGED <<pool, txq, txd, lost, sent, cleaned, wire, program, now, jumps, fixed>>

Miss ==
  /\ running
  /\ stats.rx + stats.qfull < MaxFrames
  /\ Exhausted(rxq)
  /\ stats' = [stats EXCEPT !.qfull = @ + 1]
  /\ UNCHANGED <<buffers, program, now, jumps, fixed>>

Tick ==
  /\ pc # "done"
  /\ now <= DurationSeconds
  /\ now' = now + 1
  /\ UNCHANGED <<buffers, program, stats, jumps, fixed>>

\* Somebody sets the system clock, which time(NULL) reads.
Jump(d) ==
  /\ pc # "done" /\ jumps < MaxJumps
  /\ now' = now + d
  /\ jumps' = jumps + 1
  /\ UNCHANGED <<buffers, program, stats, fixed>>

Port == Miss \/ \E m \in Mbufs : Transmit(m) \/ Arrive(m)

Clock == Tick \/ \E d \in {-1, 2} : Jump(d)

-----------------------------------------------------------------------------

(* How rx_loop is called: the burst is loaded into buffers of their own,   *)
(* every other buffer is free, posted, or was leaked by the loader.  The   *)
(* port was started long before: frames may have filled some of what is    *)
(* posted, or have been missed when nothing was left.  A port that was not *)
(* started, or stopped again, has nothing posted; what it received on a    *)
(* link that came and went is counted, and dropped.                        *)
InBurst(m) == Among(m, NbPkts)

Bag(S) == [m \in Mbufs |-> IF m \in S THEN 1 ELSE 0]

Init ==
  /\ tx_packets \in Bursts
  /\ running \in BOOLEAN
  /\ \E F \in SUBSET {m \in Mbufs : ~ InBurst(m)} :
     \E P \in SUBSET {m \in Mbufs \ F : running /\ ~ InBurst(m)} : \E D \in SUBSET P :
       /\ pool = Bag(F) /\ rxq = Bag(P \ D) /\ rxd = Bag(D) /\ free0 = Total(pool)
       /\ lost = [m \in Mbufs |-> IF m \in F \cup P \/ InBurst(m) THEN 0 ELSE 1]
  /\ txq = Nowhere /\ txd = Nowhere
  /\ \E r, q \in 0 .. MaxFrames :
       /\ r + q <= MaxFrames
       /\ running => r = Total(rxd)
       /\ running /\ q > 0 => Exhausted(rxq)
       /\ stats = [Zero EXCEPT !.rx = r, !.qfull = q]
  /\ data \in [Mbufs -> 0 .. NbPkts]
  /\ \A m \in Mbufs : IF InBurst(m) THEN data[m] # Foreign /\ tx_packets[data[m]] = m
                                    ELSE data[m] = Foreign
  /\ cnt = 0 /\ pkts = 0 /\ got = 0 /\ gap = 0
  /\ pc = "check" /\ result = "running" /\ summary = Zero
  /\ now = 0 /\ jumps = 0
  /\ duration \in Durations
  /\ sent = Nowhere /\ cleaned = 0 /\ wire = {}

Next == Program \/ Port \/ Clock

(* The loop spins, so a step it can take is taken; and time passes.        *)
Fairness == WF_vars(Program) /\ WF_vars(Tick)

Spec == Init /\ [][Next]_vars

FairSpec == Spec /\ Fairness

-----------------------------------------------------------------------------

(* Every counter keeps its range: cnt that of an int, got that of the      *)
(* array rte_eth_rx_burst fills.                                           *)
TypeOK ==
  /\ pool \in Places /\ rxq \in Places /\ rxd \in Places
  /\ txq \in Places /\ txd \in Places /\ lost \in Places
  /\ tx_packets \in Bursts
  /\ data \in [Mbufs -> 0 .. NbPkts]
  /\ sent \in Places /\ cleaned \in Nat
  /\ wire \subseteq 0 .. NbPkts
  /\ cnt \in - IntMax - 1 .. IntMax
  /\ got \in 0 .. NbPkts /\ pkts \in Nat /\ gap \in Nat
  /\ pc \in {"check", "send", "receive", "report", "done"}
  /\ result \in {"running", "success", "failure"}
  /\ summary \in Stats /\ stats \in Stats
  /\ running \in BOOLEAN /\ now \in Int /\ jumps \in Nat /\ duration \in Nat

\* The burst is rx_loop's own until it hands it over.
Held(m) == IF InBurst(m) /\ sent[m] = 0 THEN 1 ELSE 0

References(m) ==
  pool[m] + rxq[m] + rxd[m] + txq[m] + txd[m] + lost[m] + Held(m)

(* Every hand-over after the first adds a reference to a buffer that       *)
(* nobody took: a buffer that was sent k > 1 times is in k places at once, *)
(* in the free list, under the receiver and on its way out, say.  All      *)
(* others, whatever the port does between the calls, are in exactly one.   *)
MbufAccounting ==
  \A m \in Mbufs : References(m) = IF sent[m] <= 1 THEN 1 ELSE sent[m]

(* Who owns a buffer.  One that is in several places has no owner of which *)
(* Ownership knows.                                                        *)
Owner(m) ==
  IF References(m) # 1 THEN "shared"
  ELSE CASE pool[m] = 1                  -> "pool"
         [] lost[m] = 1 \/ Held(m) = 1 -> "program"
         [] OTHER                        -> "driver"

owner == [m \in Mbufs |-> Owner(m)]

Owners == INSTANCE Ownership

FirstOwners == (\A m \in Mbufs : sent'[m] <= 1) => [Owners!Next]_owner

(* Up to the second hand-over of a buffer rx_loop and the port keep to the *)
(* contract between a program and its driver: every step is one of the     *)
(* contract's, or leaves the owners alone.  The second hand-over passes on *)
(* what is no longer rx_loop's.                                            *)
Contract == Owners!Init /\ [][FirstOwners]_vars

(* As long as no buffer was handed over a second time, what goes out is    *)
(* the burst.  From the second period on the port may transmit a frame it  *)
(* received, from a buffer the driver had freed and the receiver reused.   *)
CleanWire == (\A m \in Mbufs : sent[m] <= 1) => wire \subseteq 1 .. NbPkts

(* The receiver lives on the buffers that were free when rx_loop began and *)
(* on those the driver gave back after a transmission: each received       *)
(* packet costs one for good, so that reception stops when they are used   *)
(* up, whatever the size of the pool.                                      *)
RxBudget == pkts + Total(pool) = free0 + cleaned

(* What a run reports is what happened until the counters were read: a     *)
(* received packet was counted by rx_loop or is still in the ring, a       *)
(* packet handed over was transmitted or is still queued, and will go out  *)
(* uncounted (a port that does not run may report what it received before  *)
(* it was stopped).  A run that failed reports zeros, though packets may   *)
(* have gone out; and nothing changes a report, whatever the port does     *)
(* afterwards.                                                             *)
Reports ==
  /\ result' # "success" => summary' = Zero
  /\ result = "running" /\ result' = "success" =>
       /\ running => summary'.rx = pkts + Total(rxd)
       /\ summary'.tx = Total(sent) - Total(txq)
  /\ result # "running" => UNCHANGED <<result, summary>>

ReportFaithful == [][Reports]_vars

(* Bursts are Period iterations apart, except for the first one after cnt  *)
(* wrapped around: that one comes after what is left of the period before  *)
(* and after the wrap (967296 iterations for a 32-bit int), never after    *)
(* two periods or more.                                                    *)
AfterWrap == cnt < 0 /\ cnt - Period < - IntMax - 1

WrapGap ==
  2 * (IntMax + 1) - Period * (IntMax \div Period) - Period * ((IntMax + 1) \div Period)

BurstSpacing ==
  /\ gap < 2 * Period
  /\ pc = "send" => gap = IF AfterWrap THEN WrapGap ELSE Period

(* A run that is not cut short by a refused burst lasts as long as the test *)
(* description says, unless the clock is set or the seconds do not fit the *)
(* 16 bits of the parameter: a duration of 65536 is none.                  *)
LastsAsConfigured ==
  result = "success" /\ jumps = 0 => now >= duration \/ duration >= U16

(* rx_loop returns, whatever the port does and however the clock is set a  *)
(* bounded number of times.                                                *)
Termination == <>(pc = "done")

=============================================================================
