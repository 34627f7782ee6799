------------------------------ MODULE Startup -------------------------------
(***************************************************************************)
(* main of trgen.c from rte_eal_init to its return: the order in which the *)
(* parts are set up, which failures end the program and which it ignores,  *)
(* and what is left behind in files/summary_stats.json.  The capture       *)
(* loader and the transmit/receive loop, which have modules of their own,  *)
(* appear with their results.                                              *)
(*                                                                         *)
(* Every call can fail; the link comes and goes; the process can be killed *)
(* between any two steps.  "crashed" stands for a segmentation fault.      *)
(***************************************************************************)
EXTENDS MbufPool, EthDev

CONSTANT YamlFiles      \* the contents of files/yaml_cfg.yaml considered

(* The file's captures: how many, 0 - 1 when the node is not a sequence;   *)
(* and is one of the texts that are copied without a check missing, or too *)
(* long for its place.                                                     *)
YamlFile ==
  [scanned : BOOLEAN, node : BOOLEAN, captures : -1 .. 3, texts : {"fit", "missing", "long"}]

ASSUME YamlAssumption == YamlFiles \subseteq YamlFile

VARIABLES
  pc,           \* the call main is at
  eal,          \* the environment abstraction layer is up
  yaml,         \* what the YAML file says
  pcap_dir,     \* where the capture was opened, "none" before
  summary,      \* the summary of rx_loop: "zeros" or "counts"
  file,         \* summary_stats.json: "old", "empty", "zeros", "counts"
  disk_full,    \* the text could not be written when the stream was closed
  said,         \* the last word about the summary: "none", "saved", "issue"
  status        \* exit status, 2 while there is none

settings == <<config, tgn_stgs, parsed>>
pooling  == <<limit, privileged, mbuf_pool>>
device   == <<nports, offloads, port, link_status, polls>>
reports  == <<pcap_dir, summary, file, said, disk_full>>
host     == <<up, yaml>>
vars     == <<pc, eal, status, settings, pooling, device, reports, host>>

Final == {"exit", "crashed", "killed"}

-----------------------------------------------------------------------------

\* main returns; DPDK is not told.
Return(code) == pc' = "exit" /\ status' = code

Goto(label) == pc' = label /\ UNCHANGED status

\* A call whose failure ends the program.
GoOn(ok, label) == Goto(label)                                     \* mutant

Require(ok, label) == IF ok THEN Goto(label) ELSE Return(1)

\* dpdk_init: main ignores what it returns.
EalInit ==
  /\ pc = "eal" /\ Goto("config")
  /\ eal' \in BOOLEAN
  /\ UNCHANGED <<settings, pooling, device, reports, host>>

Configure ==
  /\ pc = "config"
  /\ ParseConfig
  /\ Require(parsed', "pool")
  /\ UNCHANGED <<config, eal, pooling, device, reports, host>>

\* init_mempool: main ignores a NULL.
CreatePool ==
  /\ pc = "pool" /\ Goto("ports")
  /\ InitMempool(eal)
  /\ UNCHANGED <<eal, privileged, settings, device, reports, host>>

\* Without EAL there is no port.
CountPorts ==
  /\ pc = "ports"
  /\ Require(eal /\ LogAvailEthPorts, "queues")
  /\ UNCHANGED <<eal, settings, pooling, device, reports, host>>

InitQueues ==
  /\ pc = "queues"
  /\ \/ InitRxTxQueues(mbuf_pool) /\ Goto("start")
     \/ UNCHANGED port /\ Return(1)
  /\ UNCHANGED <<eal, settings, pooling, nports, offloads, link_status, polls,
                 reports, host>>

\* start_port returns nothing: main goes on whether or not it succeeded.
StartPort ==
  /\ pc = "start"
  /\ \E ok \in BOOLEAN : DevStart(ok) /\ Goto(IF ok THEN "poll" ELSE "yaml")
  /\ UNCHANGED <<eal, settings, pooling, nports, offloads, reports, host>>

WaitForLink ==
  /\ pc = "poll"
  /\ IF PollAgain THEN PollLink /\ Goto("poll") ELSE StartSettled /\ Goto("yaml")
  /\ UNCHANGED <<eal, settings, pooling, nports, offloads, reports, host>>

OpenYaml ==
  /\ pc = "yaml"
  /\ \E ok \in BOOLEAN : Require(ok, "parse")
  /\ UNCHANGED <<eal, settings, pooling, device, reports, host>>

(* prs_cfg: both scalars, then the captures.  A capture that lacks a key   *)
(* makes strcpy read a null pointer; what a text that is too long is       *)
(* written over may be noticed.  For -1 the size given to malloc is beyond *)
(* any memory.                                                             *)
Lacking ==
  yaml.scanned /\ yaml.node /\ yaml.captures > 0 /\ yaml.texts = "missing"

PrsCfg ==
  /\ pc = "parse"
  /\ \/ (Lacking \/ yaml.texts = "long") /\ Goto("crashed")
     \/ ~ Lacking /\ Require(yaml.scanned /\ yaml.node /\ yaml.captures >= 0, "print")
  /\ UNCHANGED <<eal, settings, pooling, device, reports, host>>

(* print_cfg is told that there are two captures.  With fewer it reads     *)
(* beyond the array, which may be noticed.                                 *)
PrintCfg ==
  /\ pc = "print"
  /\ \/ Goto("pcap")
     \/ yaml.captures < 2 /\ Goto("crashed")
  /\ UNCHANGED <<eal, settings, pooling, device, reports, host>>

OpenPcap ==
  /\ pc = "pcap"
  /\ \/ pcap_dir' = "./files" /\ Goto("check")
     \/ UNCHANGED pcap_dir /\ Return(1)
  /\ UNCHANGED <<eal, settings, pooling, device, summary, file, said, disk_full, host>>

CheckFile ==
  /\ pc = "check"
  /\ \E ok \in BOOLEAN : Require(ok, "load")
  /\ UNCHANGED <<eal, settings, pooling, device, reports, host>>

(* load_packets, and between it and rx_loop only what can end the program: *)
(* the address of the port, and that of the device under test.  A capture  *)
(* that is larger than tx_packets, or a packet larger than its buffer, may *)
(* be noticed like the missing pool.                                       *)
LoadPackets ==
  /\ pc = "load"
  /\ \/ Goto("crashed")
     \/ /\ mbuf_pool # "NULL"
        /\ \E loaded, mac, dut \in BOOLEAN : Require(loaded /\ mac /\ dut, "loop")
  /\ UNCHANGED <<eal, settings, pooling, device, reports, host>>

(* rx_loop fills the summary or not; main ignores what it returns.  A port *)
(* that was stopped may have received in between two polls of the link,    *)
(* and reports it; one that did not start has counted nothing.             *)
CountedWhenRunning ==                                              \* mutant
  IF port = "started" THEN {"zeros", "counts"} ELSE {"zeros"}

Counted ==
  IF port \in {"started", "stopped"} THEN {"zeros", "counts"} ELSE {"zeros"}

RunLoop ==
  /\ pc = "loop" /\ Goto("save")
  /\ summary' \in Counted
  /\ UNCHANGED <<eal, settings, pooling, device, pcap_dir, file, said, disk_full, host>>

(* save_sum_stats: fopen empties the file; the text is in the stream's     *)
(* buffer until fclose, and nobody asks whether it got out.  The function  *)
(* is declared bool and returns EXIT_SUCCESS or EXIT_FAILURE.              *)
EXIT_SUCCESS == FALSE
EXIT_FAILURE == TRUE

SayReversed(ret) == said' = IF ret THEN "saved" ELSE "issue"       \* mutant

Say(ret) == said' = IF ~ ret THEN "saved" ELSE "issue"

OpenSummary ==
  /\ pc = "save"
  /\ \/ file' = "empty" /\ said' = said /\ Goto("close")
     \/ file' = file /\ Say(EXIT_FAILURE) /\ Return(0)
  /\ UNCHANGED <<eal, settings, pooling, device, pcap_dir, summary, disk_full, host>>

CloseSummary ==
  /\ pc = "close"
  /\ disk_full' \in BOOLEAN
  /\ file' = IF disk_full' THEN "empty" ELSE summary
  /\ Say(EXIT_SUCCESS)
  /\ Return(0)
  /\ UNCHANGED <<eal, settings, pooling, device, pcap_dir, summary, host>>

Main ==
  \/ EalInit \/ Configure \/ CreatePool \/ CountPorts \/ InitQueues \/ StartPort
  \/ WaitForLink \/ OpenYaml \/ PrsCfg \/ PrintCfg \/ OpenPcap \/ CheckFile
  \/ LoadPackets \/ RunLoop \/ OpenSummary \/ CloseSummary

\* The cable is plugged in or out.
LinkChange ==
  /\ pc = "poll"
  /\ up' = ~ up
  /\ UNCHANGED <<pc, eal, status, settings, pooling, device, reports, yaml>>

Kill ==
  /\ pc \notin Final
  /\ pc' = "killed"
  /\ UNCHANGED <<eal, status, settings, pooling, device, reports, host>>

Init ==
  /\ SettingsInit /\ PoolInit /\ EthDevInit
  /\ yaml \in YamlFiles /\ disk_full = FALSE
  /\ pc = "eal" /\ eal = FALSE /\ status = 2
  /\ pcap_dir = "none" /\ summary = "zeros" /\ file = "old" /\ said = "none"

Next == Main \/ LinkChange \/ Kill

Spec == Init /\ [][Next]_vars

(* One thread that nothing blocks.                                         *)
FairSpec == Spec /\ WF_vars(Main)

-----------------------------------------------------------------------------

TypeOK ==
  /\ \A i \in 1 .. 5 : tgn_stgs[i] \in 0 .. Half - 1
  /\ mbuf_pool \in {"none", "pool", "NULL"}
  /\ port \in {"new", "ready", "started", "stopped"}
  /\ polls \in 0 .. CheckCnt
  /\ file \in {"old", "empty", "zeros", "counts"}
  /\ status \in {0, 1, 2} /\ (status # 2 <=> pc = "exit")

(* That main ignores the failures of rte_eal_init and of init_mempool does *)
(* no harm: without EAL there is no port, without a pool no receive queue, *)
(* and the program ends there, before the pool is used.                    *)
PoolBeforeUse ==
  pc \in {"start", "poll", "yaml", "parse", "print", "pcap", "check", "load", "loop"}
    => eal /\ mbuf_pool = "pool"

(* start_port leaves the port running if and only if its last poll saw a   *)
(* link; a port whose link did not come up in time is stopped, and main    *)
(* goes on with it.                                                        *)
StartedMeansLink ==
  pc \in {"yaml", "parse", "print", "pcap", "check", "load", "loop", "save", "close"}
    => (port = "started" <=> link_status)

(* The file that is left behind: as it was, unless the run got to its end; *)
(* empty only after a kill or a full disk; with counts in it only when the *)
(* port was started.  After an exit status of 1 it is the old one.         *)
SummaryFile ==
  /\ file # "old" => parsed /\ eal /\ mbuf_pool = "pool" /\ pcap_dir # "none"
  /\ file = "empty" => pc \in {"close", "killed"} \/ disk_full
  /\ file = "counts" => port \in {"started", "stopped"}
  /\ status = 1 => file = "old" /\ said = "none"

(* What the program says of the summary: "issue" leaves the file alone,    *)
(* and "saved" is right unless the disk was full.                          *)
SavedIsTrue ==
  /\ said = "issue" => file = "old" /\ status = 0
  /\ said = "saved" => file = summary \/ disk_full

(* main comes to an end, with or without a link.                           *)
Terminates == <>(pc \in Final)

(* The README on the main configuration file: it names "the directory in   *)
(* which the .pcap files are looked for" (line 195).                       *)
CaptureFromWorkingDir == pcap_dir \in {"none", config.working_dir}

=============================================================================
