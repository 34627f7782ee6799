------------------------------- MODULE EthDev -------------------------------
(***************************************************************************)
(* gen/priv/eth_dev.c: a port is given one queue for each direction, which *)
(* takes a list of conditions, and started, which takes a link within      *)
(* CheckCnt polls.  The functions are called by main, which does not learn *)
(* what became of start_port.                                              *)
(***************************************************************************)
EXTENDS Naturals

CONSTANT CheckCnt       \* polls of the link, 100

ASSUME EthDevAssumption == CheckCnt \in Nat

VARIABLES
  nports,       \* what rte_eth_dev_count_avail says
  offloads,     \* the device has the checksum offloads that are asked of it
  port,         \* "new", "ready", "started", "stopped"
  up,           \* is there a link
  link_status,  \* what start_port last read
  polls         \* how often it has

LogAvailEthPorts == nports > 0

(* init_rx_tx_queues, of a port and a pool: the queues are set up, or      *)
(* something fails.  A queue of the receiver is not set up without a pool. *)
QueuesUnchecked(pool) == offloads                                  \* mutant

QueuesPossible(pool) == offloads /\ pool = "pool"

InitRxTxQueues(pool) == QueuesPossible(pool) /\ port' = "ready"

(* start_port: rte_eth_dev_start,                                          *)
DevStart(ok) ==
  /\ port' = IF ok THEN "started" ELSE port
  /\ link_status' = FALSE /\ polls' = 0

\* the condition of the loop,
PollOnceMore == polls <= CheckCnt /\ ~ link_status                 \* mutant

PollAgain == polls < CheckCnt /\ ~ link_status

\* one poll after a pause,
PollUncounted ==                                                   \* mutant
  /\ link_status' = up
  /\ UNCHANGED <<polls, port>>

PollLink ==
  /\ link_status' = up
  /\ polls' = polls + 1
  /\ UNCHANGED port

\* and what follows the loop.
LeftRunning == port                                                 \* mutant

Settled == IF link_status THEN port ELSE "stopped"

StartSettled ==
  /\ port' = Settled
  /\ UNCHANGED <<link_status, polls>>

EthDevInit ==
  /\ nports \in {0, 1} /\ offloads \in BOOLEAN
  /\ port = "new" /\ up = FALSE
  /\ link_status = FALSE /\ polls = 0

=============================================================================
