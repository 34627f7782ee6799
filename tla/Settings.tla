------------------------------ MODULE Settings ------------------------------
(***************************************************************************)
(* The program's settings, app/cfg/config.c: parse_config stores three     *)
(* ints of files/config.cfg into a struct of which only the first field is *)
(* as wide as an int.  The memory is modelled in cells of 16 bits:         *)
(*    1, 2  max_cnt_mbufs, low half first                                  *)
(*    3     num_memory_channels                                            *)
(*    4     nic_queue_size                                                 *)
(*    5     the two bytes that follow the struct                           *)
(***************************************************************************)
EXTENDS Integers, Sequences

CONSTANTS
  Half,         \* 2^16, what a cell holds
  Missing,      \* a key that the file lacks
  ConfigFiles   \* the contents of files/config.cfg considered

Word == Half * Half

Setting == (0 .. Word - 1) \cup {Missing}

ConfigFile == [readable : BOOLEAN, cpus : BOOLEAN, working_dir : {"./files", "elsewhere"},
               max_cnt_mbufs : Setting, num_memory_channels : Setting,
               nic_queue_size : Setting]

ASSUME SettingsAssumption == Half \in Nat \ {0, 1} /\ ConfigFiles \subseteq ConfigFile

VARIABLES
  config,       \* what the file says
  tgn_stgs,     \* the cells
  parsed        \* what parse_config returned

\* The int is stored where the pointer points, whatever is declared there.
StoreInt(cells, at, i) ==
  [cells EXCEPT ![at] = i % Half, ![at + 1] = i \div Half]

StoresSwapped == <<[at |-> 1, key |-> "max_cnt_mbufs"],            \* mutant
                   [at |-> 4, key |-> "nic_queue_size"],
                   [at |-> 3, key |-> "num_memory_channels"]>>

Stores == <<[at |-> 1, key |-> "max_cnt_mbufs"],
            [at |-> 3, key |-> "num_memory_channels"],
            [at |-> 4, key |-> "nic_queue_size"]>>

(* The lookups are made in turn, up to the first key that is missing.      *)
Found(n) == \A k \in 1 .. n : config[Stores[k].key] # Missing

Lookup(cells, n) ==
  IF Found(n) THEN StoreInt(cells, Stores[n].at, config[Stores[n].key]) ELSE cells

ParseConfig ==
  IF config.readable /\ config.cpus
  THEN /\ tgn_stgs' = Lookup(Lookup(Lookup(tgn_stgs, 1), 2), 3)
       /\ parsed' = Found(3)
  ELSE tgn_stgs' = tgn_stgs /\ parsed' = FALSE

MaxCntMbufs == tgn_stgs[1] + Half * tgn_stgs[2]

SettingsInit ==
  /\ config \in ConfigFiles
  /\ tgn_stgs \in {[i \in 1 .. 5 |-> 0], [i \in 1 .. 5 |-> IF i = 5 THEN 1 ELSE 0]}
  /\ parsed = FALSE

(* The stores overlap, and the order of the lookups makes up for it: after *)
(* a successful parse_config every field holds what the file says, cut to  *)
(* its width.  The last store reaches beyond the struct: it overwrites the *)
(* two bytes behind it, with zeros as long as the size fits its field.     *)
SettingsHold ==
  parsed =>
    /\ MaxCntMbufs = config.max_cnt_mbufs
    /\ tgn_stgs[3] = config.num_memory_channels % Half
    /\ tgn_stgs[4] = config.nic_queue_size % Half
    /\ tgn_stgs[5] = config.nic_queue_size \div Half

=============================================================================
