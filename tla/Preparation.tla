---------------------------- MODULE Preparation -----------------------------
(***************************************************************************)
(* What main makes ready for rx_loop, in its order: the port's offloads,   *)
(* the test description, the headers of the burst.  Each part may end the  *)
(* program, and the next one is then not reached.  What lies between them  *)
(* is in Startup.                                                          *)
(***************************************************************************)
EXTENDS TestConfig, TxPrep

Init == DescribeInit /\ PrepInit

Next ==
  \/ InitQueues /\ UNCHANGED describing
  \/ stage = "prep" /\ Describe /\ UNCHANGED preparing
  \/ pc = "done" /\ (PrepPacket \/ PrepDone) /\ UNCHANGED describing

Spec == Init /\ [][Next]_<<describing, preparing>>

=============================================================================
