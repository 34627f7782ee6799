------------------------- MODULE MCTrafficGenerator -------------------------
(***************************************************************************)
(* One configuration file, a test description with two captures, and the   *)
(* shortest captures that take every way through the loader.               *)
(***************************************************************************)
EXTENDS TrafficGenerator, TLC

MCConfigFiles ==
  [readable : {TRUE}, cpus : {TRUE}, working_dir : {"./files"},
   max_cnt_mbufs : {Cardinality(Mbufs)}, num_memory_channels : {1}, nic_queue_size : {1}]

MCYamlFiles == [scanned : {TRUE}, node : {TRUE}, captures : {2}, texts : {"fit"}]

Packet(size) == [caplen |-> size, len |-> size]

Packets(n) == [i \in 1 .. n |-> Packet(1)]

Tails(kinds) == [kind : kinds, present : {0}]

MCCaptures ==
  [header : {TRUE}, recs : {Packets(n) : n \in 1 .. 3}, tail : Tails({"end"})]
    \cup [header : {TRUE}, recs : {Packets(1)}, tail : Tails({"cut"})]
    \cup [header : BOOLEAN, recs : {Packets(1)}, tail : Tails({"error"})]
    \cup [header : {TRUE}, recs : {<<Packet(1), Packet(BufSize + 1)>>}, tail : Tails({"end"})]

=============================================================================
