------------------------------ MODULE Mempool ------------------------------
(***************************************************************************)
(* The packet buffers (struct rte_mbuf) of one DPDK mempool, as the code   *)
(* under src/ uses them: rte_pktmbuf_alloc, rte_pktmbuf_free, and the      *)
(* drivers' own hand-overs.                                                *)
(*                                                                         *)
(* A place where a buffer can be (the free list, a descriptor ring, ...)   *)
(* is a bag: it counts, for every buffer, the references to it that the    *)
(* place holds.  The count matters because nothing in the program keeps a  *)
(* buffer from being handed over twice.  A bag is a total function on      *)
(* Mbufs, so that what is said of places can be said buffer by buffer.     *)
(***************************************************************************)
EXTENDS Naturals, FiniteSets

CONSTANT Mbufs      \* the buffers of "tgn_mbuf_pool"

ASSUME MempoolAssumption == IsFiniteSet(Mbufs)

Places == [Mbufs -> Nat]

Nowhere == [m \in Mbufs |-> 0]

\* The place gains, loses, a reference to m.
Put(place, m) == [place EXCEPT ![m] = @ + 1]

Take(place, m) == [place EXCEPT ![m] = @ - 1]

\* rte_pktmbuf_alloc finds nothing to hand out.
Exhausted(place) == \A m \in Mbufs : place[m] = 0

\* The references a place holds, one by one, and their number.
Refs(place) == UNION {{m} \X (1 .. place[m]) : m \in Mbufs}

Total(place) == Cardinality(Refs(place))

=============================================================================
