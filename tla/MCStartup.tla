----------------------------- MODULE MCStartup ------------------------------
(***************************************************************************)
(* main with words of four bits: settings that fit their fields and        *)
(* settings that do not, pools whose size in bytes does not fit a word.    *)
(***************************************************************************)
EXTENDS Startup

MCConfigFiles ==
  [readable : {TRUE}, cpus : {TRUE}, working_dir : {"elsewhere"},
   max_cnt_mbufs : {1, 5, 7}, num_memory_channels : {2, 7, Missing},
   nic_queue_size : {3, 6}]
    \cup
  [readable : BOOLEAN, cpus : BOOLEAN, working_dir : {"./files"},
   max_cnt_mbufs : {4}, num_memory_channels : {1}, nic_queue_size : {2}]

MCYamlFiles ==
  [scanned : {TRUE}, node : BOOLEAN, captures : {-1, 0, 1, 2}, texts : {"fit"}]
    \cup
  [scanned : BOOLEAN, node : {TRUE}, captures : {2},
   texts : {"missing", "long"}]

=============================================================================
