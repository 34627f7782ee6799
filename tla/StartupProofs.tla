---------------------------- MODULE StartupProofs ----------------------------
(***************************************************************************)
(* Proofs about main and the parts it sets up, for every width of the      *)
(* settings' cells, every configuration file, size of pool, limit on       *)
(* descriptors and number of polls.                                        *)
(***************************************************************************)
EXTENDS Startup, TLAPS

Linear == {"start", "poll", "yaml", "parse", "print", "pcap", "check", "load", "loop",
           "save", "close"}

Labels == {"eal", "config", "pool", "ports", "queues"} \cup Linear \cup Final

TypeInv ==
  /\ pc \in Labels
  /\ config \in ConfigFiles /\ parsed \in BOOLEAN
  /\ tgn_stgs \in [1 .. 5 -> 0 .. Half - 1]
  /\ limit \in [cur : Nat, max : Nat]
  /\ up \in BOOLEAN /\ link_status \in BOOLEAN
  /\ summary \in {"zeros", "counts"}
  /\ TypeOK

(* What is known wherever main is.                                         *)
Reached ==
  /\ pc \notin {"eal", "config"} \cup Final => parsed
  /\ pc \in {"eal", "config", "pool"} => mbuf_pool = "none"
  /\ pc = "queues" \/ pc \in Linear => eal
  /\ pc \in Linear => mbuf_pool = "pool"
  /\ pc \in {"check", "load", "loop", "save", "close"} => pcap_dir # "none"
  /\ pc = "start" => port # "started"
  /\ pc = "poll" => port = "started"
  /\ pc \notin {"save", "close"} \cup Final => summary = "zeros"
  /\ pc \notin {"close", "exit", "killed"} => file = "old"
  /\ pc = "close" => file = "empty"
  /\ pc # "exit" => said = "none" /\ status = 2
  /\ summary = "counts" => port \in {"started", "stopped"}

IInv ==
  /\ TypeInv /\ Reached /\ SettingsHold /\ FdLimit
  /\ StartedMeansLink /\ SummaryFile /\ SavedIsTrue

-----------------------------------------------------------------------------

(* An int of two cells is the sum of its halves, which fit.                *)
LEMMA Halves ==
  ASSUME NEW i \in 0 .. Word - 1
  PROVE  /\ i % Half \in 0 .. Half - 1
         /\ i \div Half \in 0 .. Half - 1
         /\ (i % Half) + Half * (i \div Half) = i
  <1>1. Half \in Nat /\ Half > 0
    BY SettingsAssumption DEF SettingsAssumption
  <1>2. i \in Nat /\ i < Half * Half
    BY <1>1 DEF Word
  <1> DEFINE q == i \div Half
             r == i % Half
  <1>3. r \in 0 .. Half - 1
    BY <1>1, <1>2
  <1>4. q \in Int /\ i = Half * q + r
    BY <1>1, <1>2
  <1> HIDE DEF q, r
  <1>5. q >= 0
    <2>1. SUFFICES ASSUME q <= -1 PROVE FALSE
      BY <1>4
    <2>2. Half * q <= - Half
      BY <1>1, <1>4, <2>1
    <2> QED
      BY <1>1, <1>2, <1>3, <1>4, <2>2
  <1>6. q < Half
    <2>1. SUFFICES ASSUME q >= Half PROVE FALSE
      BY <1>1, <1>4
    <2>2. Half * q >= Half * Half
      BY <1>1, <1>4, <2>1
    <2> QED
      BY <1>1, <1>2, <1>3, <1>4, <2>2
  <1>7. q \in 0 .. Half - 1 /\ r + Half * q = i
    BY <1>1, <1>3, <1>4, <1>5, <1>6
  <1> QED
    BY <1>3, <1>7 DEF q, r

(* A store fills two cells and leaves the others.                          *)
LEMMA StoreType ==
  ASSUME NEW cells \in [1 .. 5 -> 0 .. Half - 1], NEW at \in 1 .. 4, NEW i \in 0 .. Word - 1
  PROVE  /\ StoreInt(cells, at, i) \in [1 .. 5 -> 0 .. Half - 1]
         /\ \A j \in 1 .. 5 : StoreInt(cells, at, i)[j] = IF j = at THEN i % Half
                                                        ELSE IF j = at + 1 THEN i \div Half
                                                        ELSE cells[j]
  BY Halves DEF StoreInt

(* What a lookup stores under a key is an int.                             *)
LEMMA FoundInt ==
  ASSUME config \in ConfigFiles, NEW n \in 1 .. 3, Found(n)
  PROVE  config[Stores[n].key] \in 0 .. Word - 1
  <1>1. config[Stores[n].key] # Missing
    BY DEF Found
  <1>2. config \in ConfigFile
    BY SettingsAssumption DEF SettingsAssumption
  <1>3. config[Stores[n].key] \in Setting
    BY <1>2 DEF ConfigFile, Stores
  <1> QED
    BY <1>1, <1>3 DEF Setting

LEMMA LookupType ==
  ASSUME config \in ConfigFiles, NEW cells \in [1 .. 5 -> 0 .. Half - 1], NEW n \in 1 .. 3
  PROVE  Lookup(cells, n) \in [1 .. 5 -> 0 .. Half - 1]
  <1>1. Stores[n].at \in 1 .. 4
    BY DEF Stores
  <1> QED
    BY <1>1, FoundInt, StoreType DEF Lookup

(* Of the two stores that meet, the later one keeps the cell.              *)
LEMMA StoresMeet ==
  ASSUME NEW c0 \in [1 .. 5 -> 0 .. Half - 1], NEW c1, NEW c2, NEW c3,
         NEW x \in 0 .. Word - 1, NEW y \in 0 .. Word - 1, NEW z \in 0 .. Word - 1,
         c1 = StoreInt(c0, 1, x), c2 = StoreInt(c1, 3, y), c3 = StoreInt(c2, 4, z)
  PROVE  /\ c3[1] = x % Half /\ c3[2] = x \div Half
         /\ c3[3] = y % Half
         /\ c3[4] = z % Half /\ c3[5] = z \div Half
  <1>1. /\ c1 \in [1 .. 5 -> 0 .. Half - 1]
        /\ c1[1] = x % Half /\ c1[2] = x \div Half
    BY StoreType, 1 \in 1 .. 4
  <1>2. /\ c2 \in [1 .. 5 -> 0 .. Half - 1]
        /\ \A j \in 1 .. 5 : c2[j] = IF j = 3 THEN y % Half
                                     ELSE IF j = 3 + 1 THEN y \div Half ELSE c1[j]
    BY <1>1, StoreType, 3 \in 1 .. 4
  <1>3. /\ c3 \in [1 .. 5 -> 0 .. Half - 1]
        /\ \A j \in 1 .. 5 : c3[j] = IF j = 4 THEN z % Half
                                     ELSE IF j = 4 + 1 THEN z \div Half ELSE c2[j]
    BY <1>2, StoreType, 4 \in 1 .. 4
  <1> HIDE DEF StoreInt
  <1> QED
    BY <1>1, <1>2, <1>3

(* The three stores overlap, and their order makes up for it.              *)
LEMMA ParseHolds ==
  ASSUME TypeInv, ParseConfig
  PROVE  /\ tgn_stgs' \in [1 .. 5 -> 0 .. Half - 1] /\ parsed' \in BOOLEAN
         /\ config' = config => SettingsHold'
  <1> DEFINE c1 == Lookup(tgn_stgs, 1)
             c2 == Lookup(c1, 2)
             c3 == Lookup(c2, 3)
  <1>1. config \in ConfigFiles /\ tgn_stgs \in [1 .. 5 -> 0 .. Half - 1]
    BY DEF TypeInv
  <1>2. c1 \in [1 .. 5 -> 0 .. Half - 1]
    BY <1>1, LookupType
  <1>3. c2 \in [1 .. 5 -> 0 .. Half - 1]
    <2> HIDE DEF c1
    <2> QED
      BY <1>1, <1>2, LookupType
  <1>4. c3 \in [1 .. 5 -> 0 .. Half - 1]
    <2> HIDE DEF c2
    <2> QED
      BY <1>1, <1>3, LookupType
  <1>5. tgn_stgs' \in [1 .. 5 -> 0 .. Half - 1] /\ parsed' \in BOOLEAN
    BY <1>1, <1>4 DEF ParseConfig, Found
  <1>6. ASSUME config' = config, parsed' PROVE SettingsHold'
    <2> DEFINE x == config.max_cnt_mbufs
               y == config.num_memory_channels
               z == config.nic_queue_size
    <2>1. Found(3) /\ tgn_stgs' = c3
      BY <1>6 DEF ParseConfig
    <2>2. Found(1) /\ Found(2)
      BY <2>1 DEF Found
    <2>3. x \in 0 .. Word - 1 /\ y \in 0 .. Word - 1 /\ z \in 0 .. Word - 1
      BY <1>1, <2>1, <2>2, FoundInt DEF Stores
    <2>4. c1 = StoreInt(tgn_stgs, 1, x) /\ c2 = StoreInt(c1, 3, y) /\ c3 = StoreInt(c2, 4, z)
      BY <2>1, <2>2 DEF Lookup, Stores
    <2>5. /\ c3[1] = x % Half /\ c3[2] = x \div Half /\ c3[3] = y % Half
          /\ c3[4] = z % Half /\ c3[5] = z \div Half
      <3> HIDE DEF c1, c2, c3, x, y, z
      <3> QED
        BY <1>1, <2>3, <2>4, StoresMeet
    <2>6. c3[1] + Half * c3[2] = x
      <3>1. (x % Half) + Half * (x \div Half) = x
        BY <2>3, Halves
      <3> HIDE DEF c3, x
      <3> QED
        BY <2>5, <3>1
    <2> HIDE DEF c3, x, y, z
    <2> QED
      BY <1>6, <2>1, <2>5, <2>6 DEF SettingsHold, MaxCntMbufs, x, y, z
  <1> QED
    BY <1>5, <1>6 DEF SettingsHold

-----------------------------------------------------------------------------

(* With a size that fits a word the pool gets the descriptors it takes.    *)
LEMMA PoolHolds ==
  ASSUME IInv, CreatePool
  PROVE  /\ limit' \in [cur : Nat, max : Nat] /\ mbuf_pool' \in {"pool", "NULL"}
         /\ FdLimit'
  <1> DEFINE M == MaxCntMbufs
             p == M * MbufSz
             r == p % Word
             cnt == CntFds
  <1>1. /\ limit \in [cur : Nat, max : Nat] /\ limit.cur <= limit.max
        /\ mbuf_pool = "none" /\ config' = config
    BY DEF IInv, TypeInv, Reached, FdLimit, CreatePool, settings
  <1>2. /\ MbufSz \in Nat \ {0} /\ HgpageSz \in Nat \ {0} /\ OtherFds \in Nat
        /\ Half \in Nat /\ Half > 0
    BY PoolAssumption, SettingsAssumption DEF PoolAssumption, SettingsAssumption
  <1>3. Word \in Nat /\ Word > 0
    BY <1>2 DEF Word
  <1>4. M \in Nat
    BY <1>2 DEF MaxCntMbufs, IInv, TypeInv
  <1>5. M = config.max_cnt_mbufs
    BY DEF IInv, Reached, SettingsHold, CreatePool, Final
  <1>6. p \in Nat
    <2> HIDE DEF M
    <2> QED
      BY <1>2, <1>4
  <1>7. r \in Nat /\ (p < Word => r = p)
    <2> HIDE DEF p
    <2> QED
      BY <1>3, <1>6
  <1>8. cnt \in Nat /\ cnt = OtherFds + r \div HgpageSz
    <2>1. cnt = OtherFds + r \div HgpageSz
      BY DEF CntFds, Product
    <2> HIDE DEF r, cnt
    <2> QED
      BY <1>2, <1>7, <2>1
  <1>9. p < Word => cnt = OtherFds + (config.max_cnt_mbufs * MbufSz) \div HgpageSz
    BY <1>5, <1>7, <1>8
  <1> HIDE DEF M, r, cnt
  <1>10. CASE SetMaxFds(CntFds)
    <2>1. /\ limit' = [cur |-> cnt, max |-> IF cnt > limit.max THEN cnt ELSE limit.max]
          /\ mbuf_pool' \in {"pool", "NULL"}
      BY <1>1, <1>10 DEF SetMaxFds, NewLimits, NewMax, CreatePool, InitMempool, cnt
    <2>2. /\ limit' \in [cur : Nat, max : Nat]
          /\ limit'.cur = cnt /\ limit'.cur <= limit'.max
      BY <1>1, <1>8, <2>1
    <2>3. \/ limit'.cur >= OtherFds + (config.max_cnt_mbufs * MbufSz) \div HgpageSz
          \/ config.max_cnt_mbufs * MbufSz >= Word
      <3>1. CASE p < Word
        BY <1>8, <1>9, <2>2, <3>1
      <3>2. CASE ~ (p < Word)
        <4>1. p >= Word /\ p = config.max_cnt_mbufs * MbufSz
          BY <1>3, <1>5, <1>6, <3>2
        <4> QED
          BY <4>1
      <3> QED
        BY <3>1, <3>2
    <2> QED
      BY <1>1, <2>1, <2>2, <2>3 DEF FdLimit
  <1>11. CASE UNCHANGED limit /\ mbuf_pool' = "NULL"
    BY <1>1, <1>11 DEF FdLimit
  <1> QED
    BY <1>10, <1>11 DEF CreatePool, InitMempool

(* Only parse_config and init_mempool touch what SettingsHold and FdLimit  *)
(* are about.                                                              *)
LEMMA SetUpStep ==
  ASSUME IInv, [Next]_vars
  PROVE  /\ config' \in ConfigFiles /\ parsed' \in BOOLEAN
         /\ tgn_stgs' \in [1 .. 5 -> 0 .. Half - 1]
         /\ limit' \in [cur : Nat, max : Nat]
         /\ mbuf_pool' \in {"none", "pool", "NULL"}
         /\ SettingsHold' /\ FdLimit'
  <1> USE DEF IInv, TypeInv
  <1>1. CASE Configure
    <2>1. UNCHANGED <<config, limit, mbuf_pool>>
      BY <1>1 DEF Configure, pooling
    <2>2. /\ tgn_stgs' \in [1 .. 5 -> 0 .. Half - 1] /\ parsed' \in BOOLEAN
          /\ SettingsHold'
      BY <1>1, <2>1, ParseHolds DEF Configure
    <2> QED
      BY <2>1, <2>2 DEF FdLimit, TypeOK
  <1>2. CASE CreatePool
    <2>1. UNCHANGED <<config, tgn_stgs, parsed>>
      BY <1>2 DEF CreatePool, settings
    <2> QED
      BY <1>2, <2>1, PoolHolds DEF SettingsHold, MaxCntMbufs
  <1>3. CASE ~ Configure /\ ~ CreatePool
    <2>1. UNCHANGED <<config, tgn_stgs, parsed, limit, mbuf_pool>>
      BY <1>3 DEF Next, Main, EalInit, CountPorts, InitQueues, StartPort, WaitForLink,
        OpenYaml, PrsCfg, PrintCfg, OpenPcap, CheckFile, LoadPackets, RunLoop, OpenSummary,
        CloseSummary, LinkChange, Kill, settings, pooling, vars
    <2> QED
      BY <2>1 DEF SettingsHold, MaxCntMbufs, FdLimit, TypeOK
  <1> QED
    BY <1>1, <1>2, <1>3

-----------------------------------------------------------------------------

LEMMA InitIInv == Init => IInv
  <1> SUFFICES ASSUME Init PROVE IInv
    OBVIOUS
  <1> USE DEF Init
  <1>1. Half \in Nat \ {0, 1} /\ Limits \subseteq Nat /\ CheckCnt \in Nat
    BY SettingsAssumption, PoolAssumption, EthDevAssumption
    DEF SettingsAssumption, PoolAssumption, EthDevAssumption
  <1>2. /\ limit \in [cur : Nat, max : Nat] /\ limit.cur <= limit.max
        /\ mbuf_pool = "none"
    <2>1. mbuf_pool = "none" /\ \E max \in Limits : \E cur \in 0 .. max :
            limit = [cur |-> cur, max |-> max]
      BY DEF PoolInit
    <2>2. PICK max \in Limits : \E cur \in 0 .. max : limit = [cur |-> cur, max |-> max]
      BY <2>1
    <2>3. PICK cur \in 0 .. max : limit = [cur |-> cur, max |-> max]
      BY <2>2
    <2>4. max \in Nat /\ cur \in Nat /\ cur <= max
      BY <1>1
    <2> QED
      BY <2>1, <2>3, <2>4
  <1>3. tgn_stgs \in [1 .. 5 -> 0 .. Half - 1]
    <2>1. 0 \in 0 .. Half - 1 /\ 1 \in 0 .. Half - 1
      BY <1>1
    <2>2. \/ tgn_stgs = [i \in 1 .. 5 |-> 0]
          \/ tgn_stgs = [i \in 1 .. 5 |-> IF i = 5 THEN 1 ELSE 0]
      BY DEF SettingsInit
    <2> QED
      BY <2>1, <2>2
  <1>4. config \in ConfigFiles /\ parsed = FALSE
    BY DEF SettingsInit
  <1>5. port = "new" /\ up = FALSE /\ link_status = FALSE /\ polls = 0
    BY DEF EthDevInit
  <1>6. TypeInv
    <2>1. TypeOK
      BY <1>1, <1>2, <1>3, <1>5 DEF TypeOK
    <2> QED
      BY <1>1, <1>2, <1>3, <1>4, <1>5, <2>1 DEF TypeInv, Labels
  <1>7. Reached
    BY <1>2, <1>4, <1>5 DEF Reached, Linear, Final
  <1>8. SettingsHold /\ FdLimit
    BY <1>2, <1>4 DEF SettingsHold, FdLimit
  <1>9. StartedMeansLink /\ SummaryFile /\ SavedIsTrue
    BY DEF StartedMeansLink, SummaryFile, SavedIsTrue
  <1> QED
    BY <1>6, <1>7, <1>8, <1>9 DEF IInv

(* Everything else, which is about where main is.                          *)
LEMMA FlowStep ==
  ASSUME IInv, [Next]_vars
  PROVE  /\ TypeInv' /\ Reached'
         /\ StartedMeansLink' /\ SummaryFile' /\ SavedIsTrue'
  <1> DEFINE Typed == /\ pc \in Labels /\ up \in BOOLEAN /\ link_status \in BOOLEAN
                      /\ summary \in {"zeros", "counts"}
                      /\ port \in {"new", "ready", "started", "stopped"}
                      /\ polls \in 0 .. CheckCnt
                      /\ file \in {"old", "empty", "zeros", "counts"}
                      /\ status \in {0, 1, 2} /\ (status # 2 <=> pc = "exit")
             Flow == /\ Typed /\ Reached
                     /\ StartedMeansLink /\ SummaryFile /\ SavedIsTrue
  <1>1. Flow
    BY DEF IInv, TypeInv, TypeOK
  <1>2. CheckCnt \in Nat
    BY EthDevAssumption DEF EthDevAssumption
  <1>3. parsed' \in BOOLEAN
    BY SetUpStep
  <1> USE <1>1, <1>2, <1>3
      DEF Reached, StartedMeansLink, SummaryFile, SavedIsTrue, Labels, Linear, Final,
          settings, pooling, device, reports, host, Goto, Return, Require
  <1>4. ASSUME EalInit PROVE Flow'
    BY <1>4 DEF EalInit
  <1>5. ASSUME Configure PROVE Flow'
    BY <1>5 DEF Configure
  <1>6. ASSUME CreatePool PROVE Flow'
    BY <1>6 DEF CreatePool, InitMempool
  <1>7. ASSUME CountPorts PROVE Flow'
    BY <1>7 DEF CountPorts
  <1>8. ASSUME InitQueues PROVE Flow'
    BY <1>8 DEF InitQueues, InitRxTxQueues, QueuesPossible
  <1>9. ASSUME StartPort PROVE Flow'
    <2>1. /\ pc = "start" /\ polls' = 0 /\ link_status' = FALSE /\ status' = status
          /\ UNCHANGED <<eal, mbuf_pool, up, pcap_dir, summary, file, said, disk_full>>
          /\ parsed' = parsed
      BY <1>9 DEF StartPort, DevStart
    <2>2. \/ port' = "started" /\ pc' = "poll"
          \/ port' = port /\ pc' = "yaml"
      BY <1>9 DEF StartPort, DevStart
    <2>3. link_status' \in BOOLEAN
      BY <2>1, Zenon
    <2>4. Typed'
      BY <2>1, <2>2, <2>3
    <2> QED
      BY <2>1, <2>2, <2>4
  <1>10. ASSUME WaitForLink PROVE Flow'
    BY <1>10 DEF WaitForLink, PollAgain, PollLink, StartSettled, Settled
  <1>11. ASSUME OpenYaml PROVE Flow'
    BY <1>11 DEF OpenYaml
  <1>12. ASSUME PrsCfg PROVE Flow'
    BY <1>12 DEF PrsCfg
  <1>13. ASSUME PrintCfg PROVE Flow'
    BY <1>13 DEF PrintCfg
  <1>14. ASSUME OpenPcap PROVE Flow'
    BY <1>14 DEF OpenPcap
  <1>15. ASSUME CheckFile PROVE Flow'
    BY <1>15 DEF CheckFile
  <1>16. ASSUME LoadPackets PROVE Flow'
    BY <1>16 DEF LoadPackets
  <1>17. ASSUME RunLoop PROVE Flow'
    BY <1>17 DEF RunLoop, Counted
  <1>18. ASSUME OpenSummary PROVE Flow'
    BY <1>18 DEF OpenSummary, Say, EXIT_FAILURE
  <1>19. ASSUME CloseSummary PROVE Flow'
    BY <1>19 DEF CloseSummary, Say, EXIT_SUCCESS
  <1>20. ASSUME LinkChange PROVE Flow'
    BY <1>20 DEF LinkChange
  <1>21. ASSUME Kill PROVE Flow'
    BY <1>21 DEF Kill
  <1>22. ASSUME UNCHANGED vars PROVE Flow'
    BY <1>22 DEF vars
  <1>23. Flow'
    BY <1>4, <1>5, <1>6, <1>7, <1>8, <1>9, <1>10, <1>11, <1>12, <1>13, <1>14, <1>15,
     <1>16, <1>17, <1>18, <1>19, <1>20, <1>21, <1>22
    DEF Next, Main
  <1> QED
    BY <1>23, SetUpStep DEF TypeInv, TypeOK

(* The invariant that the theorems below are parts of.                     *)
THEOREM Inductive == Spec => []IInv
  <1>1. IInv /\ [Next]_vars => IInv'
    BY FlowStep, SetUpStep DEF IInv
  <1> QED
    BY InitIInv, <1>1, PTL DEF Spec

(* Type correctness: no cell, limit or label leaves its range, and there   *)
(* is an exit status exactly when main has returned.                       *)
THEOREM StartupTypeOK == Spec => []TypeOK
  <1>1. IInv => TypeOK
    BY DEF IInv, TypeInv
  <1> QED
    BY <1>1, Inductive, PTL

(* After parse_config every setting is what the file says, cut to its      *)
(* width, and the last store leaves the high half of nic_queue_size behind *)
(* the struct: config.c:28-31 for cells of any width.                      *)
THEOREM SettingsKept == Spec => []SettingsHold
  <1>1. IInv => SettingsHold
    BY DEF IInv
  <1> QED
    BY <1>1, Inductive, PTL

(* set_max_fds leaves consistent limits, and with a pool they allow the    *)
(* files it takes, for every size of pool whose bytes fit a word.          *)
THEOREM DescriptorsSuffice == Spec => []FdLimit
  <1>1. IInv => FdLimit
    BY DEF IInv
  <1> QED
    BY <1>1, Inductive, PTL

(* Whatever fails before, main uses the pool only when there is one.       *)
THEOREM PoolIsThere == Spec => []PoolBeforeUse
  <1>1. IInv => PoolBeforeUse
    BY DEF IInv, Reached, PoolBeforeUse, Linear
  <1> QED
    BY <1>1, Inductive, PTL

(* start_port leaves the port running exactly when it last saw a link, for *)
(* every number of polls.                                                  *)
THEOREM RunningMeansLink == Spec => []StartedMeansLink
  <1>1. IInv => StartedMeansLink
    BY DEF IInv
  <1> QED
    BY <1>1, Inductive, PTL

(* What can be found in the summary file, wherever main ends or is killed. *)
THEOREM SummaryLeft == Spec => []SummaryFile
  <1>1. IInv => SummaryFile
    BY DEF IInv
  <1> QED
    BY <1>1, Inductive, PTL

(* What main says of the summary is true, but for a full disk.             *)
THEOREM SaidIsTrue == Spec => []SavedIsTrue
  <1>1. IInv => SavedIsTrue
    BY DEF IInv
  <1> QED
    BY <1>1, Inductive, PTL

=============================================================================
