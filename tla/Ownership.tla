----------------------------- MODULE Ownership ------------------------------
(***************************************************************************)
(* What the DPDK driver expects of a program that uses its buffers: every  *)
(* buffer has one owner, the pool, the program or the driver, and only its *)
(* owner passes it on.  A transmission takes buffers from the program; the *)
(* driver gives them back to the pool.  A reception takes one from the     *)
(* pool for the one it gives to the program.                               *)
(***************************************************************************)
CONSTANT Mbufs

VARIABLE owner

Init == owner \in [Mbufs -> {"pool", "program", "driver"}]

HandOver(S) ==
  /\ \A m \in S : owner[m] = "program"
  /\ owner' = [m \in Mbufs |-> IF m \in S THEN "driver" ELSE owner[m]]

GiveBack(m) ==
  /\ owner[m] = "driver"
  /\ owner' = [owner EXCEPT ![m] = "pool"]

Exchange(m, m2) ==
  /\ owner[m] = "driver" /\ owner[m2] = "pool"
  /\ owner' = [owner EXCEPT ![m] = "program", ![m2] = "driver"]

Next ==
  \/ \E S \in SUBSET Mbufs : HandOver(S)
  \/ \E m \in Mbufs : GiveBack(m) \/ \E m2 \in Mbufs : Exchange(m, m2)

Spec == Init /\ [][Next]_owner

=============================================================================
