-------------------------- MODULE TrafficGenerator ---------------------------
(***************************************************************************)
(* The whole program: main of trgen.c, as Startup has it, on the buffers   *)
(* of DataPath.  check_pcap, load_packets and rx_loop, of which Startup    *)
(* only has the results, take their steps here, the port works beside them *)
(* from its start on, and the results are what these steps make of them.   *)
(* That the program so composed still is the program of Startup, and that  *)
(* rx_loop is called the way RxLoop assumes, are properties below.         *)
(***************************************************************************)
EXTENDS Startup, DataPath

(* The pool has the configured size.                                       *)
ASSUME SizeAssumption == \A c \in ConfigFiles : c.max_cnt_mbufs = Cardinality(Mbufs)

all == <<vars, path>>

-----------------------------------------------------------------------------

Create == CreatePool /\ IF mbuf_pool' = "pool" THEN MakePool ELSE UNCHANGED path

Start == StartPort /\ IF port' = "started" THEN PostRing ELSE UNCHANGED path

Wait == WaitForLink /\ IF port' = "stopped" THEN DrainRing ELSE UNCHANGED path

Open == OpenPcap /\ OpenCapture

Check ==
  /\ pc = "check" /\ CheckCapture
  /\ Require(phase' = "load", "load")
  /\ UNCHANGED <<eal, settings, pooling, device, reports, host>>

\* Without a pool rte_pktmbuf_alloc reads a null pointer.
Load == pc = "load" /\ mbuf_pool = "pool" /\ LoadOne /\ UNCHANGED vars

(* load_packets returns; the addresses are looked up; rx_loop is called.   *)
(* An array or a buffer that is overrun is a crash here.                   *)
Loaded ==
  /\ pc = "load" /\ EnterLoop
  /\ \/ (mbuf_pool = "NULL" \/ phase = "undef") /\ Goto("crashed")
     \/ /\ phase = "done"
        /\ \E mac, dut \in BOOLEAN : Require(pkt_num # 0 /\ mac /\ dut, "loop")
  /\ UNCHANGED <<eal, settings, pooling, device, reports, host>>

LoopStep == pc = "loop" /\ UNCHANGED vars /\ InLoop(Loop!Program)

\* main prints and saves the summary as rx_loop has left it, whatever that
\* returned.
LoopReturns ==
  /\ pc = "loop" /\ loop_pc = "done" /\ Goto("save")
  /\ summary' = IF counts = Loop!Zero THEN "zeros" ELSE "counts"
  /\ UNCHANGED <<eal, settings, pooling, device, pcap_dir, file, said, disk_full, host>>
  /\ UNCHANGED path

Thread ==
  \/ Create \/ Start \/ Wait \/ Open \/ Check \/ Load \/ Loaded \/ LoopStep \/ LoopReturns
  \/ /\ \/ EalInit \/ Configure \/ CountPorts \/ InitQueues \/ OpenYaml
        \/ PrsCfg \/ PrintCfg \/ OpenSummary \/ CloseSummary
     /\ UNCHANGED path

(* The port works from rte_eth_dev_start on, when it has a link; once      *)
(* start_port saw one the link may be thought of as part of what arrives.  *)
(* Nothing stops it again: it sends what rx_loop left in its queue while   *)
(* main prints and saves the summary, and after.                           *)
PortStep ==
  /\ port = "started" /\ (pc = "poll" => up)
  /\ UNCHANGED vars /\ InLoop(Loop!Port)

\* start_time is when rx_loop was called.  A clock that is set is a matter of
\* RxLoop alone.
TimePasses == pc = "loop" /\ UNCHANGED vars /\ InLoop(Loop!Tick)

SystemInit == Init /\ PathInit

SystemNext ==
  \/ Thread \/ PortStep \/ TimePasses
  \/ (LinkChange \/ Kill) /\ UNCHANGED path

System == SystemInit /\ [][SystemNext]_all

FairSystem == System /\ WF_all(Thread) /\ WF_all(TimePasses)

-----------------------------------------------------------------------------

(* From the creation of the pool to the end of the run every buffer is in  *)
(* one place: free, in one of the rings, in the burst, or dropped; in one  *)
(* more with every hand-over after the first.  Starting and stopping the   *)
(* port, frames in between, and every way out of the loader keep the count. *)
WholeLife ==
  \A m \in Mbufs :
    References(m) = IF mbuf_pool # "pool" THEN 0
                    ELSE IF sent[m] <= 1 THEN 1 ELSE sent[m]

(* The size of the pool a configuration needs: rx_loop is reached with a   *)
(* running port only if the pool fills the receive queue, takes every      *)
(* packet of the capture and has one more, which the loader takes to find  *)
(* the end of the file.  With fewer the port does not start, and the run   *)
(* goes on without it, or the loader fails.                                *)
PoolSuffices ==
  pc = "loop" /\ port = "started" =>
    Cardinality(Mbufs) >= rx_desc + Len(capture.recs) + 1

(* What the file says of the transmission.  A failed loop leaves zeros,    *)
(* whatever went out.  After a good one the file counts no more than what  *)
(* was sent, and all that was handed over but for one queue full: packets  *)
(* that still waited when the counters were read go out uncounted, so that *)
(* zeros may be saved after packets went out, as many as the queue holds.  *)
SavedCounts ==
  pc = "exit" /\ file \in {"zeros", "counts"} =>
    /\ result # "success" => file = "zeros"
    /\ result = "success" =>
         /\ file = "zeros" <=> counts = Loop!Zero
         /\ counts.tx <= Loop!Total(sent) - Loop!Total(txq)
         /\ Loop!Total(sent) <= counts.tx + TxDesc

(* rx_loop is called in a state RxLoop starts from: whatever start_port    *)
(* and the loader did before, each buffer has one owner and a frame that   *)
(* came early is in the ring or counted as missed.                         *)
CalledAsAssumed == [][pc = "load" /\ pc' = "loop" => Loop!Init']_all

(* The run comes to its end: no wait for a link, no capture and no traffic *)
(* keeps it, whatever fails.                                               *)
RunEnds == <>(pc \in Final)

=============================================================================
