------------------------------ MODULE Prototype ------------------------------
(***************************************************************************)
(* dpdk_rxtx/trgen.c, the program's prototype, one file that is built and  *)
(* installed on its own: no settings, no test description, a pool of 8192  *)
(* buffers, a burst every 10000000 iterations, no time limit and no        *)
(* summary.  Its loader, its start_port and the body of its loop are those *)
(* of DataPath; main and the end of the loop are its own.                  *)
(***************************************************************************)
EXTENDS DataPath

VARIABLES
  pc,           \* the call main is at
  eal,          \* the environment abstraction layer is up
  mbuf_pool,    \* "none", then "pool" or "NULL"
  status        \* exit status, 2 while there is none

device == <<nports, offloads, port, link_status, polls>>
program == <<pc, eal, mbuf_pool, status>>
vars == <<program, device, up, path>>

Final == {"exit", "crashed", "killed"}

-----------------------------------------------------------------------------

Return(code) == pc' = "exit" /\ status' = code

Goto(label) == pc' = label /\ UNCHANGED status

Require(ok, label) == IF ok THEN Goto(label) ELSE Return(1)

\* dpdk_init says that the EAL is up, or why not, and returns nothing.
DpdkInit ==
  /\ pc = "eal" /\ Goto("pool")
  /\ eal' \in BOOLEAN
  /\ UNCHANGED <<mbuf_pool, device, up, path>>

InitMempool ==
  /\ pc = "pool" /\ Goto("ports")
  /\ \/ mbuf_pool' = "NULL" /\ UNCHANGED path
     \/ eal /\ mbuf_pool' = "pool" /\ MakePool
  /\ UNCHANGED <<eal, device, up>>

LogAvailable ==
  /\ pc = "ports"
  /\ Require(eal /\ LogAvailEthPorts, "queues")
  /\ UNCHANGED <<eal, mbuf_pool, device, up, path>>

InitQueues ==
  /\ pc = "queues"
  /\ \/ InitRxTxQueues(mbuf_pool) /\ Goto("start")
     \/ UNCHANGED port /\ Return(1)
  /\ UNCHANGED <<eal, mbuf_pool, nports, offloads, link_status, polls, up, path>>

(* start_port, whose result main does not ask for: the start, the polls,   *)
(* and the stop of a port without a link.                                  *)
Start ==
  /\ pc = "start"
  /\ \/ DevStart(TRUE) /\ PostRing /\ Goto("poll")
     \/ DevStart(FALSE) /\ UNCHANGED path /\ Goto("open")
  /\ UNCHANGED <<eal, mbuf_pool, nports, offloads, up>>

Wait ==
  /\ pc = "poll"
  /\ IF PollAgain THEN PollLink /\ UNCHANGED path /\ Goto("poll")
     ELSE /\ StartSettled /\ Goto("open")
          /\ IF port' = "stopped" THEN DrainRing ELSE UNCHANGED path
  /\ UNCHANGED <<eal, mbuf_pool, nports, offloads, up>>

Open ==
  /\ pc = "open"
  /\ \/ OpenCapture /\ Goto("check")
     \/ UNCHANGED path /\ Return(1)
  /\ UNCHANGED <<eal, mbuf_pool, device, up>>

Check ==
  /\ pc = "check" /\ CheckCapture
  /\ Require(phase' = "load", "load")
  /\ UNCHANGED <<eal, mbuf_pool, device, up>>

Load ==
  /\ pc = "load" /\ mbuf_pool = "pool" /\ LoadOne
  /\ UNCHANGED <<program, device, up>>

(* load_packets returns.  The address of the device under test is a        *)
(* constant that can be parsed; the port's may not be there.               *)
Loaded ==
  /\ pc = "load" /\ EnterLoop
  /\ \/ (mbuf_pool = "NULL" \/ phase = "undef") /\ Goto("crashed")
     \/ phase = "done" /\ \E mac \in BOOLEAN : Require(pkt_num # 0 /\ mac, "loop")
  /\ UNCHANGED <<eal, mbuf_pool, device, up>>

(* An iteration of rx_loop: nothing but the counter decides whether there  *)
(* is one.  Only the way out that a refused burst takes is left, and main  *)
(* returns 0 after it.                                                     *)
LoopStep ==
  /\ pc = "loop" /\ UNCHANGED <<program, device, up>>
  /\ InLoop(\/ Loop!Iterate \/ Loop!ReceiveEnd
            \/ \E k \in 0 .. Loop!NbPkts : Loop!Send(k)
            \/ \E m \in Mbufs : Loop!TxClean(m) \/ \E m2 \in Mbufs : Loop!Receive(m, m2))

LoopReturns ==
  /\ pc = "loop" /\ loop_pc = "done" /\ Return(0)
  /\ UNCHANGED <<eal, mbuf_pool, device, up, path>>

Main ==
  \/ DpdkInit \/ InitMempool \/ LogAvailable \/ InitQueues \/ Start \/ Wait
  \/ Open \/ Check \/ Load \/ Loaded \/ LoopStep \/ LoopReturns

PortStep ==
  /\ port = "started" /\ (pc = "poll" => up)
  /\ UNCHANGED <<program, device, up>> /\ InLoop(Loop!Port)

LinkChange ==
  /\ pc = "poll"
  /\ up' = ~ up
  /\ UNCHANGED <<program, device, path>>

\* Ctrl-C, the only end of a run that goes well.
Kill ==
  /\ pc \notin Final
  /\ pc' = "killed"
  /\ UNCHANGED <<eal, mbuf_pool, status, device, up, path>>

Init ==
  /\ EthDevInit /\ PathInit
  /\ pc = "eal" /\ eal = FALSE /\ mbuf_pool = "none" /\ status = 2

Next == Main \/ PortStep \/ LinkChange \/ Kill

Spec == Init /\ [][Next]_vars

\* One thread that nothing blocks.
FairSpec == Spec /\ WF_vars(Main)

-----------------------------------------------------------------------------

(* The prototype ends with status 0 only after a burst was refused, which  *)
(* main does not tell from success: nothing went out for a port that does  *)
(* not run, and for one that does the transmit queue was full.             *)
EndsByRefusal ==
  status = 0 =>
    /\ result = "failure"
    /\ port # "started" => wire = {} /\ Loop!Total(sent) = 0
    /\ port = "started" => Loop!Total(txq) + Loop!Total(txd) = TxDesc

(* Without a port there is an end nevertheless: the loop is left at the    *)
(* first burst, whose refusal is the only thing that is ever noticed.      *)
DeadPortEnds == (pc = "loop" /\ port # "started") ~> (pc \in {"exit", "killed"})

=============================================================================
