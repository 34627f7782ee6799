------------------------------ MODULE MCRxLoop ------------------------------
(***************************************************************************)
(* Small instances of the transmit/receive loop.  The bursts are written   *)
(* with the buffers m1 and m2; the others are interchangeable.             *)
(***************************************************************************)
EXTENDS RxLoop, TLC

CONSTANTS m1, m2

ShortAndLong == {<<m1>>, <<m1, m2>>}

Pair == {<<m1, m2>>}

Single == {<<m1>>}

Symmetry == Permutations(Mbufs \ {m1, m2})

=============================================================================
