---------------------------- MODULE MCPcapLoader ----------------------------
(***************************************************************************)
(* Every capture of up to MaxRecords records whose sizes straddle the two  *)
(* limits of get_packet, with every kind of ending.                        *)
(***************************************************************************)
EXTENDS PcapLoader, TLC

CONSTANT MaxRecords

MCRecords ==
  {[caplen |-> c, len |-> c] : c \in {0, 1, DataRoom, BufSize, BufSize + 1}}
    \cup {[caplen |-> 1, len |-> 2]}

MCCaptures ==
  [header : BOOLEAN,
   recs : UNION {[1 .. n -> MCRecords] : n \in 0 .. MaxRecords},
   tail : [kind : {"end"}, present : {0}]
            \cup [kind : {"cut", "error"}, present : {0, DataRoom, BufSize - 1}]]

Symmetry == Permutations(Mbufs)

=============================================================================
