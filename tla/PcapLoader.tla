----------------------------- MODULE PcapLoader -----------------------------
(***************************************************************************)
(* The capture loader, gen/priv/pcap_loader.c: check_pcap validates the    *)
(* file header, then load_packets calls get_packet until it returns NULL   *)
(* and keeps what it returned in tx_packets[MAX_PKT_BURST].                *)
(*                                                                         *)
(* The program runs on one thread and nothing else touches the pool while  *)
(* it loads, so a call of get_packet, with load_packets' reaction to what  *)
(* it returns, is one step; each way out of get_packet is a disjunct.      *)
(*                                                                         *)
(* A write outside tx_packets, or beyond the room a buffer has for packet  *)
(* data, is undefined in C: the loader stops in the phase "undef", of      *)
(* which nothing is promised.                                              *)
(***************************************************************************)
EXTENDS Mempool, Sequences, FiniteSets

CONSTANTS
  MaxPktBurst,  \* MAX_PKT_BURST, the length of tx_packets
  BufSize,      \* RTE_MBUF_DEFAULT_BUF_SIZE, the headroom included
  DataRoom,     \* what is left of it behind rte_pktmbuf_mtod
  Captures      \* the capture files considered

Record == [caplen : Nat, len : Nat]

(***************************************************************************)
(* A capture file: is its global header one check_pcap takes, the complete *)
(* records, and what follows the last of them:                             *)
(*   "end"   nothing, or a record header the file ends in;                 *)
(*   "cut"   the header of an acceptable record the file ends in the data  *)
(*           of;                                                           *)
(*   "error" a record the stream fails to deliver (ferror, not feof).      *)
(* present is how many bytes of such a record's data the file has, fewer   *)
(* than its header says: fread stores them before it finds that out.       *)
(***************************************************************************)
Ending == [kind : {"end"}, present : {0}]
            \cup [kind : {"cut", "error"}, present : 0 .. BufSize - 1]

Capture == [header : BOOLEAN, recs : Seq(Record), tail : Ending]

ASSUME LoaderAssumption ==
  /\ MaxPktBurst \in Nat \ {0}
  /\ BufSize \in Nat
  /\ DataRoom \in 1 .. BufSize
  /\ Captures \subseteq Capture

VARIABLES
  capture,      \* the file behind pcap_file
  pos,          \* complete records read so far
  eof,          \* feof(pcap_file)
  pool,         \* references in the free list of the pool
  lost,         \* references nobody will ever give back
  tx_packets,   \* the entries load_packets has filled
  data,         \* which record of the file a buffer holds, 0 for none
  phase,        \* "check", "load", "done", "rejected", "undef"
  pkt_num,      \* what load_packets returned
  pool0         \* history: the free list when main opens the file

vars == <<capture, pos, eof, pool, lost, tx_packets, data, phase, pkt_num, pool0>>

-----------------------------------------------------------------------------

(* check_pcap: the file header is read and compared.  main closes the file *)
(* and exits when it is not what the loader expects.                       *)
CheckPcap ==
  /\ phase = "check"
  /\ phase' = IF capture.header THEN "load" ELSE "rejected"
  /\ UNCHANGED <<capture, pos, eof, pool, lost, tx_packets, data, pkt_num, pool0>>

(* get_packet returned NULL: load_packets asks feof(pcap_file) and returns *)
(* the number of packets, or false.                                        *)
PktNumIgnoringEof(at_eof) == Len(tx_packets)                       \* mutant

PktNum(at_eof) == IF at_eof THEN Len(tx_packets) ELSE 0

Finish(at_eof) ==
  /\ eof' = at_eof
  /\ phase' = "done"
  /\ pkt_num' = PktNum(at_eof)
  /\ UNCHANGED <<capture, pos, tx_packets, data, pool0>>

\* The pool after rte_pktmbuf_alloc handed out m, the first thing get_packet
\* does in every call.
AllocAndFree(m) == Put(Take(pool, m), m)                           \* mutant

Alloc(m) == Take(pool, m)

\* rte_pktmbuf_free on a way out of get_packet that gives the buffer back.
FreeTwice(m) == pool' = Put(Put(Alloc(m), m), m)                   \* mutant

Keep(m) == pool' = Alloc(m)                                        \* mutant

Release(m) == pool' = Put(Alloc(m), m)

NextRecord == capture.recs[pos + 1]

\* The size check of get_packet.
Acceptable(rec) == rec.caplen <= BufSize /\ rec.caplen = rec.len

\* pkt_num of load_packets when it stores the packet.
SlotAfter == Len(tx_packets) + 1                                   \* mutant

Slot == Len(tx_packets)

(***************************************************************************)
(* The ways out of get_packet.  m is the buffer rte_pktmbuf_alloc took     *)
(* from the pool.                                                          *)
(***************************************************************************)

\* The record header cannot be read because the file ends: NULL, and the
\* buffer is not given back.
HeaderAtEof(m) ==
  /\ pos = Len(capture.recs) /\ capture.tail.kind = "end"
  /\ pool' = Alloc(m)
  /\ lost' = Put(lost, m)
  /\ Finish(TRUE)

\* The stream fails under fread, in the header or in the data.
ReadError(m) ==
  /\ pos = Len(capture.recs) /\ capture.tail.kind = "error"
  /\ capture.tail.present <= DataRoom
  /\ Release(m) /\ UNCHANGED lost
  /\ Finish(FALSE)

\* The file ends inside the packet data: an error to get_packet, the end of
\* the file to load_packets.
DataAtEof(m) ==
  /\ pos = Len(capture.recs) /\ capture.tail.kind = "cut"
  /\ capture.tail.present <= DataRoom
  /\ Release(m) /\ UNCHANGED lost
  /\ Finish(TRUE)

\* Too long or captured in part; or empty, which fread(.., 0, 1, ..) does
\* not tell from a failure.
Refused(m) ==
  /\ pos < Len(capture.recs)
  /\ ~ Acceptable(NextRecord) \/ NextRecord.caplen = 0
  /\ Release(m) /\ UNCHANGED lost
  /\ Finish(FALSE)

\* The packet is read and load_packets stores it.
Stored(m) ==
  /\ pos < Len(capture.recs)
  /\ Acceptable(NextRecord) /\ NextRecord.caplen \in 1 .. DataRoom
  /\ Slot < MaxPktBurst
  /\ pool' = Alloc(m)
  /\ data' = [data EXCEPT ![m] = pos + 1]
  /\ tx_packets' = Append(tx_packets, m)
  /\ pos' = pos + 1
  /\ UNCHANGED <<capture, eof, lost, phase, pkt_num, pool0>>

\* The packet, or what the file has of it, is longer than the room behind
\* rte_pktmbuf_mtod, or the array has no entry left for it.
Overrun(m) ==
  /\ \/ /\ pos < Len(capture.recs)
        /\ Acceptable(NextRecord) /\ NextRecord.caplen > 0
        /\ NextRecord.caplen > DataRoom \/ Slot >= MaxPktBurst
     \/ pos = Len(capture.recs) /\ capture.tail.present > DataRoom
  /\ phase' = "undef"
  /\ UNCHANGED <<capture, pos, eof, pool, lost, tx_packets, data, pkt_num, pool0>>

GetPacket(m) ==
  /\ phase = "load"
  /\ pool[m] > 0
  /\ \/ HeaderAtEof(m)
     \/ ReadError(m)
     \/ DataAtEof(m)
     \/ Refused(m)
     \/ Stored(m)
     \/ Overrun(m)

\* rte_pktmbuf_alloc returns NULL: the file is not even looked at.
NoMbuf ==
  /\ phase = "load"
  /\ Exhausted(pool)
  /\ UNCHANGED <<pool, lost>>
  /\ Finish(FALSE)

Init ==
  /\ capture \in Captures
  /\ pos = 0 /\ eof = FALSE
  /\ pool \in [Mbufs -> {0, 1}]
  /\ pool0 = pool
  /\ lost = Nowhere
  /\ tx_packets = <<>>
  /\ data = [m \in Mbufs |-> 0]
  /\ phase = "check"
  /\ pkt_num = 0

Next == CheckPcap \/ NoMbuf \/ \E m \in Mbufs : GetPacket(m)

Spec == Init /\ [][Next]_vars

-----------------------------------------------------------------------------

(* No place but the loader's own array grows beyond its bounds; a buffer   *)
(* is in the free list at most once, so none is freed twice.               *)
TypeOK ==
  /\ capture \in Captures
  /\ pos \in 0 .. Len(capture.recs)
  /\ eof \in BOOLEAN
  /\ pool \in [Mbufs -> {0, 1}] /\ pool0 \in [Mbufs -> {0, 1}]
  /\ lost \in [Mbufs -> {0, 1}]
  /\ tx_packets \in Seq(Mbufs) /\ Len(tx_packets) <= MaxPktBurst
  /\ data \in [Mbufs -> Nat]
  /\ phase \in {"check", "load", "done", "rejected", "undef"}
  /\ pkt_num \in 0 .. MaxPktBurst

Loaded == {tx_packets[i] : i \in DOMAIN tx_packets}

Held(m) == IF m \in Loaded THEN 1 ELSE 0

(* Every buffer the pool had when main opened the file is, in every state, *)
(* in exactly one place: still free, in the array, or leaked by the call   *)
(* of get_packet that met the end of the file.  get_packet's four ways of  *)
(* returning NULL after the allocation neither duplicate nor drop one.     *)
BufferAccounting ==
  \A m \in Mbufs : pool[m] + lost[m] + Held(m) = pool0[m]

(* The burst is the capture: entry i of the array is a buffer of its own   *)
(* and holds record i, so the records go out in the order of the file.     *)
BurstIsCapture ==
  \A i \in DOMAIN tx_packets :
    /\ data[tx_packets[i]] = i
    /\ \A j \in DOMAIN tx_packets : tx_packets[j] = tx_packets[i] => j = i

(* What load_packets should return, read off the file and the pool it was  *)
(* called with: all complete records if every one of them fits and the     *)
(* file ends, and nothing otherwise.  One buffer more than there are       *)
(* records is needed: get_packet allocates before it looks for the end of  *)
(* the file.                                                               *)
Wanted(rec) == rec.len = rec.caplen /\ rec.caplen \in 1 .. BufSize

Buffers == Cardinality({m \in Mbufs : pool0[m] = 1})

Expected ==
  LET n == Len(capture.recs)
  IN  IF /\ capture.tail.kind # "error" /\ n < Buffers
         /\ \A i \in 1 .. n : Wanted(capture.recs[i])
      THEN n
      ELSE 0

(* load_packets is all or nothing: it returns the reference result.  In    *)
(* particular a file that was cut short inside its last record loads       *)
(* without a complaint, less that record.                                  *)
LoadResult == phase = "done" => pkt_num = Expected

(* The j-th call of get_packet comes to read packet data: there is a       *)
(* buffer for it and nothing before it stopped the loader.                 *)
Reads(j) ==
  /\ j <= Buffers
  /\ \A i \in 1 .. j : i <= Len(capture.recs) => Wanted(capture.recs[i])

\* It has no place for what it reads, or load_packets has none for the packet.
Outside(j) ==
  IF j <= Len(capture.recs)
  THEN capture.recs[j].caplen > DataRoom \/ j > MaxPktBurst
  ELSE capture.tail.present > DataRoom

(* The captures for which the loader leaves the defined behaviour of C:    *)
(* those with an acceptable record that is longer than the room behind the *)
(* headroom, which the size check takes, with as much of such a record     *)
(* before the file is cut or fails, or with more records than the array    *)
(* has entries; if no earlier record is refused and the pool lasts.  Every *)
(* other capture is loaded or rejected without a write out of bounds.      *)
UndefinedFor ==
  phase \in {"done", "undef"} =>
    (phase = "undef" <=> \E j \in 1 .. Len(capture.recs) + 1 : Reads(j) /\ Outside(j))

=============================================================================
