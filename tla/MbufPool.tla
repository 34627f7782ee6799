------------------------------ MODULE MbufPool ------------------------------
(***************************************************************************)
(* gen/priv/mbuf_pool.c and utils/file_utils.c: init_mempool computes how  *)
(* many file descriptors a pool of the configured size needs, one for each *)
(* huge page, raises the limit of the process and creates the pool.  All   *)
(* of it comes after rte_eal_init.                                         *)
(***************************************************************************)
EXTENDS Settings

CONSTANTS
  MbufSz,       \* RTE_MBUF_DEFAULT_BUF_SIZE
  HgpageSz,     \* 2 MB
  OtherFds,     \* 1024
  Limits        \* the hard limits on descriptors the process may start with

ASSUME PoolAssumption ==
  /\ MbufSz \in Nat \ {0} /\ HgpageSz \in Nat \ {0} /\ OtherFds \in Nat
  /\ Limits \subseteq Nat

VARIABLES
  limit,        \* RLIMIT_NOFILE: cur and max
  privileged,   \* the process may raise its hard limit
  mbuf_pool     \* "none" before init_mempool, then "pool" or "NULL"

\* The product of two 32-bit numbers is one.
Product == (MaxCntMbufs * MbufSz) % Word

CntFds == OtherFds + Product \div HgpageSz

NewMaxKept(cnt) == limit.max                                       \* mutant

NewMax(cnt) == IF cnt > limit.max THEN cnt ELSE limit.max

NewLimits(cnt) == [cur |-> cnt, max |-> NewMax(cnt)]

(* set_max_fds: the soft limit becomes cnt, which may be less than it was; *)
(* the hard limit is raised when it has to be and the kernel allows it.    *)
SetMaxFds(cnt) ==
  /\ NewLimits(cnt).max > limit.max => privileged
  /\ limit' = NewLimits(cnt)

InitMempool(eal) ==
  \/ SetMaxFds(CntFds) /\ \/ eal /\ mbuf_pool' = "pool"
                          \/ mbuf_pool' = "NULL"
  \/ UNCHANGED limit /\ mbuf_pool' = "NULL"

PoolInit ==
  /\ \E max \in Limits : \E cur \in 0 .. max : limit = [cur |-> cur, max |-> max]
  /\ privileged \in BOOLEAN
  /\ mbuf_pool = "none"

(* With a pool the process may open the files that the pool takes, unless  *)
(* the size of the pool in bytes does not fit 32 bits, when the limit is   *)
(* set for a smaller one.  The limits stay consistent in any case.         *)
FdLimit ==
  /\ limit.cur <= limit.max
  /\ mbuf_pool = "pool" =>
       \/ limit.cur >= OtherFds + (config.max_cnt_mbufs * MbufSz) \div HgpageSz
       \/ config.max_cnt_mbufs * MbufSz >= Word

=============================================================================
