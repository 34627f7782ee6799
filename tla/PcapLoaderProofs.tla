-------------------------- MODULE PcapLoaderProofs --------------------------
(***************************************************************************)
(* Proofs about the capture loader, for every pool, every array length and *)
(* every set of captures.                                                  *)
(***************************************************************************)
EXTENDS PcapLoader, MempoolProofs

(* The position in the file is the number of entries filled: load_packets  *)
(* stores what get_packet read and stops at the first call that reads      *)
(* nothing.  With it, where a buffer is says whether it may be stored.     *)
IInv ==
  /\ TypeOK
  /\ BufferAccounting
  /\ BurstIsCapture
  /\ pos = Len(tx_packets)

USE LoaderAssumption DEF LoaderAssumption

(* The program starts with an empty array and nothing leaked.              *)
LEMMA InitIInv == Init => IInv
  <1> SUFFICES ASSUME Init PROVE IInv
    OBVIOUS
  <1> USE DEF Init
  <1>1. Len(capture.recs) \in Nat
    BY DEF Capture
  <1>2. TypeOK
    <2>1. pool \in [Mbufs -> {0, 1}] /\ pool0 \in [Mbufs -> {0, 1}]
      OBVIOUS
    <2>2. lost \in [Mbufs -> {0, 1}] /\ data \in [Mbufs -> Nat]
      BY DEF Nowhere
    <2>3. tx_packets \in Seq(Mbufs) /\ Len(tx_packets) <= MaxPktBurst
      OBVIOUS
    <2>4. pos \in 0 .. Len(capture.recs) /\ pkt_num \in 0 .. MaxPktBurst
      BY <1>1
    <2>5. capture \in Captures /\ eof \in BOOLEAN /\ phase = "check"
      OBVIOUS
    <2> HIDE DEF Init
    <2> QED
      BY <2>1, <2>2, <2>3, <2>4, <2>5 DEF TypeOK
  <1>3. BufferAccounting
    <2>1. Loaded = {}
      BY DEF Loaded
    <2> SUFFICES ASSUME NEW m \in Mbufs
                 PROVE  pool[m] + lost[m] + Held(m) = pool0[m]
      BY DEF BufferAccounting
    <2>2. Held(m) = 0 /\ lost[m] = 0
      BY <2>1 DEF Held, Nowhere
    <2>3. pool[m] \in {0, 1} /\ pool0[m] = pool[m]
      OBVIOUS
    <2> QED
      BY <2>2, <2>3
  <1>4. BurstIsCapture
    BY DEF BurstIsCapture
  <1>5. pos = Len(tx_packets)
    OBVIOUS
  <1> QED
    BY <1>2, <1>3, <1>4, <1>5 DEF IInv

(* A capture has a number of records, and each has sizes.                  *)
LEMMA CaptureRecords ==
  ASSUME TypeOK
  PROVE  /\ capture \in Capture
         /\ Len(capture.recs) \in Nat
         /\ \A i \in 1 .. Len(capture.recs) :
              /\ i \in DOMAIN capture.recs
              /\ capture.recs[i].caplen \in Nat
              /\ capture.recs[i].len \in Nat
  <1>1. capture \in Capture
    BY DEF TypeOK
  <1>2. capture.recs \in Seq(Record)
    BY <1>1 DEF Capture
  <1>3. Len(capture.recs) \in Nat /\ DOMAIN capture.recs = 1 .. Len(capture.recs)
    BY <1>2
  <1>4. \A i \in 1 .. Len(capture.recs) : capture.recs[i] \in Record
    BY <1>2
  <1> QED
    BY <1>1, <1>3, <1>4 DEF Record

(* A buffer that is still in the pool is neither in the array nor leaked.  *)
LEMMA FreeIsNowhereElse ==
  ASSUME IInv, NEW m \in Mbufs, pool[m] > 0
  PROVE  pool[m] = 1 /\ lost[m] = 0 /\ m \notin Loaded
  BY DEF IInv, TypeOK, BufferAccounting, Held

(* The ways of get_packet to fail that return the buffer leave the places  *)
(* as they were.                                                           *)
LEMMA ReleaseRestores ==
  ASSUME IInv, NEW m \in Mbufs, pool[m] > 0, Release(m)
  PROVE  pool' = pool
  <1>1. pool \in [Mbufs -> {0, 1}] /\ pool[m] = 1
    BY DEF IInv, TypeOK
  <1>2. Take(pool, m) = [pool EXCEPT ![m] = 0]
    BY <1>1 DEF Take
  <1>3. Put(Take(pool, m), m) = [Take(pool, m) EXCEPT ![m] = 1]
    BY <1>1, <1>2 DEF Put
  <1> QED
    BY <1>1, <1>2, <1>3 DEF Release, Alloc

(* A step that leaves the places, the array and the file position alone    *)
(* keeps the invariant.                                                    *)
LEMMA QuietStep ==
  ASSUME IInv,
         UNCHANGED <<capture, pos, pool, lost, tx_packets, data, pool0>>,
         eof' \in BOOLEAN, pkt_num' \in 0 .. MaxPktBurst,
         phase' \in {"load", "done", "rejected", "undef"}
  PROVE  IInv'
  BY DEF IInv, TypeOK, BufferAccounting, Held, Loaded, BurstIsCapture

(* The number load_packets returns is one an array of its size can have.   *)
LEMMA FinishType ==
  ASSUME IInv, NEW b \in BOOLEAN, Finish(b)
  PROVE  /\ eof' \in BOOLEAN /\ pkt_num' \in 0 .. MaxPktBurst /\ phase' = "done"
         /\ UNCHANGED <<capture, pos, tx_packets, data, pool0>>
  BY DEF Finish, PktNum, IInv, TypeOK

(* Each way out of get_packet keeps the invariant.                         *)
LEMMA GetPacketIInv ==
  ASSUME IInv, NEW m \in Mbufs, GetPacket(m)
  PROVE  IInv'
  <1>1. pool[m] > 0
    BY DEF GetPacket
  <1>2. pool[m] = 1 /\ lost[m] = 0 /\ m \notin Loaded
    BY <1>1, FreeIsNowhereElse
  <1>3. CASE HeaderAtEof(m)
    <2>1. /\ eof' \in BOOLEAN /\ pkt_num' \in 0 .. MaxPktBurst /\ phase' = "done"
          /\ UNCHANGED <<capture, pos, tx_packets, data, pool0>>
      BY <1>3, FinishType DEF HeaderAtEof
    <2>2. pool' = [pool EXCEPT ![m] = 0] /\ lost' = [lost EXCEPT ![m] = 1]
      BY <1>2, <1>3 DEF HeaderAtEof, Alloc, Put, Take, IInv, TypeOK
    <2>3. TypeOK'
      BY <2>1, <2>2 DEF IInv, TypeOK
    <2>4. BufferAccounting'
      BY <1>2, <2>1, <2>2 DEF IInv, TypeOK, BufferAccounting, Held, Loaded
    <2> QED
      BY <2>1, <2>3, <2>4 DEF IInv, BurstIsCapture
  <1>4. ASSUME Release(m), UNCHANGED lost, NEW b \in BOOLEAN, Finish(b)
        PROVE  IInv'
    BY <1>1, <1>4, ReleaseRestores, FinishType, QuietStep
  <1>5. CASE ReadError(m) \/ DataAtEof(m) \/ Refused(m)
    BY <1>4, <1>5 DEF ReadError, DataAtEof, Refused
  <1>6. CASE Stored(m)
    <2> USE <1>6 DEF Stored
    <2>1. /\ Len(tx_packets) < MaxPktBurst /\ pos < Len(capture.recs)
          /\ tx_packets \in Seq(Mbufs) /\ Len(tx_packets) \in Nat
          /\ pos = Len(tx_packets)
      BY DEF Slot, IInv, TypeOK
    <2>2. /\ Len(tx_packets') = Len(tx_packets) + 1
          /\ tx_packets' \in Seq(Mbufs)
          /\ \A i \in 1 .. Len(tx_packets) : tx_packets'[i] = tx_packets[i]
          /\ tx_packets'[Len(tx_packets) + 1] = m
      BY <2>1
    <2>3. pool' = [pool EXCEPT ![m] = 0]
      BY <1>2 DEF Alloc, Take, IInv, TypeOK
    <2>4. TypeOK'
      <3>1. pos' \in 0 .. Len(capture'.recs) /\ pos' \in Nat
        BY <2>1, CaptureRecords DEF IInv
      <3>2. data' \in [Mbufs -> Nat]
        BY <2>1, <3>1 DEF IInv, TypeOK
      <3> QED
        BY <2>1, <2>2, <2>3, <3>1, <3>2 DEF IInv, TypeOK
    <2>5. Loaded' = Loaded \cup {m}
      <3>1. DOMAIN tx_packets = 1 .. Len(tx_packets)
            /\ DOMAIN tx_packets' = 1 .. (Len(tx_packets) + 1)
        BY <2>1, <2>2
      <3>2. \A x : x \in Loaded' <=> x \in Loaded \/ x = m
        BY <2>1, <2>2, <3>1 DEF Loaded
      <3> QED
        BY <3>2
    <2>6. BufferAccounting'
      BY <1>2, <2>3, <2>5 DEF IInv, TypeOK, BufferAccounting, Held
    <2>7. BurstIsCapture'
      <3>1. DOMAIN tx_packets = 1 .. Len(tx_packets)
            /\ DOMAIN tx_packets' = 1 .. (Len(tx_packets) + 1)
        BY <2>1, <2>2
      <3>2. \A i \in 1 .. Len(tx_packets) : tx_packets[i] \in Mbufs /\ tx_packets[i] # m
        BY <1>2, <2>1, <3>1 DEF Loaded
      <3>3. \A i \in 1 .. Len(tx_packets) : data'[tx_packets[i]] = i
        BY <3>1, <3>2 DEF IInv, TypeOK, BurstIsCapture
      <3>4. data'[m] = Len(tx_packets) + 1
        BY <2>1 DEF IInv, TypeOK
      <3> QED
        BY <2>1, <2>2, <3>1, <3>2, <3>3, <3>4 DEF IInv, BurstIsCapture
    <2> QED
      BY <2>1, <2>2, <2>4, <2>6, <2>7 DEF IInv
  <1>7. CASE Overrun(m)
    BY <1>7, QuietStep DEF Overrun, IInv, TypeOK
  <1> QED
    BY <1>3, <1>5, <1>6, <1>7 DEF GetPacket

(* Every step of the loader keeps the invariant.                           *)
LEMMA NextIInv == IInv /\ [Next]_vars => IInv'
  <1> SUFFICES ASSUME IInv, [Next]_vars PROVE IInv'
    OBVIOUS
  <1>1. CASE CheckPcap
    <2>1. eof' \in BOOLEAN /\ pkt_num' \in 0 .. MaxPktBurst
          /\ phase' \in {"load", "done", "rejected"}
      BY <1>1 DEF CheckPcap, IInv, TypeOK
    <2> QED
      BY <1>1, <2>1, QuietStep DEF CheckPcap
  <1>2. CASE NoMbuf
    BY <1>2, FinishType, QuietStep DEF NoMbuf
  <1>3. ASSUME NEW m \in Mbufs, GetPacket(m) PROVE IInv'
    BY <1>3, GetPacketIInv
  <1>4. CASE UNCHANGED vars
    BY <1>4 DEF vars, IInv, TypeOK, BufferAccounting, Held, Loaded, BurstIsCapture
  <1> QED
    BY <1>1, <1>2, <1>3, <1>4 DEF Next

(* The inductive invariant holds in every reachable state.                 *)
THEOREM Inductive == Spec => []IInv
  BY InitIInv, NextIInv, PTL DEF Spec

(* The same of a program that calls the loader later in its run, and whose *)
(* port writes to a buffer that is not in the array.                       *)
LEMMA ReadyIInv == Init' => IInv'
  BY InitIInv, PTL

LEMMA OtherWritten ==
  ASSUME IInv, NEW m \in Mbufs \ Loaded, data' = [data EXCEPT ![m] = 0],
         UNCHANGED <<capture, pos, eof, pool, lost, tx_packets, phase, pkt_num, pool0>>
  PROVE  IInv'
  <1>1. /\ data \in [Mbufs -> Nat] /\ data' \in [Mbufs -> Nat]
        /\ \A x \in Mbufs : x # m => data'[x] = data[x]
    BY DEF IInv, TypeOK
  <1>2. \A i \in DOMAIN tx_packets : tx_packets[i] # m /\ tx_packets[i] \in Mbufs
    BY DEF IInv, TypeOK, Loaded
  <1>3. BurstIsCapture'
    BY <1>1, <1>2 DEF IInv, BurstIsCapture
  <1>4. TypeOK'
    BY <1>1 DEF IInv, TypeOK
  <1>5. BufferAccounting'
    BY DEF IInv, BufferAccounting, Held, Loaded
  <1> QED
    BY <1>3, <1>4, <1>5 DEF IInv

(* No index, counter or place leaves its range, whatever the capture.      *)
THEOREM LoaderTypeOK == Spec => []TypeOK
  <1>1. IInv => TypeOK
    BY DEF IInv
  <1> QED
    BY <1>1, Inductive, PTL

(* The loader neither loses a buffer from sight nor frees one twice.       *)
THEOREM LoaderAccounting == Spec => []BufferAccounting
  <1>1. IInv => BufferAccounting
    BY DEF IInv
  <1> QED
    BY <1>1, Inductive, PTL

(* Whatever the capture, the array holds its first records, in order, each *)
(* in a buffer of its own.                                                 *)
THEOREM LoaderBurst == Spec => []BurstIsCapture
  <1>1. IInv => BurstIsCapture
    BY DEF IInv
  <1> QED
    BY <1>1, Inductive, PTL

-----------------------------------------------------------------------------

(* What was read was wanted and had room, and every record read took a     *)
(* buffer from the pool.  The buffers left say whether the file or the     *)
(* pool runs out first once all that was read was wanted.  What is not in  *)
(* the array holds none of the file.                                       *)
Progress ==
  /\ \A i \in 1 .. pos : Wanted(capture.recs[i]) /\ capture.recs[i].caplen <= DataRoom
  /\ \A m \in Mbufs : data[m] # 0 => m \in Loaded
  /\ pkt_num \in {0, Len(tx_packets)}
  /\ phase \in {"check", "load"} => pkt_num = 0 /\ Total(pool) + pos = Total(pool0)

Free0 == {m \in Mbufs : pool0[m] = 1}

(* The places of the loader, as numbers.                                   *)
LEMMA Amounts ==
  ASSUME IInv
  PROVE  /\ pool \in Places /\ pool0 \in Places
         /\ Total(pool) \in Nat /\ Total(pool0) = Buffers
         /\ pos \in Nat /\ pos <= Len(capture.recs) /\ Len(capture.recs) \in Nat
  <1>1. pool \in Places /\ pool0 \in Places
    BY DEF IInv, TypeOK, Places
  <1>2. pool0 = [m \in Mbufs |-> IF m \in Free0 THEN 1 ELSE 0]
    BY DEF IInv, TypeOK, Free0
  <1>3. Total(pool0) = Cardinality(Free0)
    BY <1>2, TotalOfSet DEF Free0
  <1>4. Len(capture.recs) \in Nat
    BY CaptureRecords DEF IInv
  <1> QED
    BY <1>1, <1>3, <1>4, TotalType DEF IInv, TypeOK, Buffers, Free0

(* load_packets asks for the reference result in the terms of the loader.  *)
LEMMA ExpectedIs ==
  ASSUME IInv
  PROVE  Expected =
           IF /\ capture.tail.kind # "error" /\ Len(capture.recs) < Total(pool0)
              /\ \A i \in 1 .. Len(capture.recs) : Wanted(capture.recs[i])
           THEN Len(capture.recs)
           ELSE 0
  BY Amounts DEF Expected

(* The calls of get_packet that end the loading, each with the result.     *)
LEMMA EndsAsExpected ==
  ASSUME IInv, Progress, phase = "load",
         NoMbuf \/ \E m \in Mbufs : GetPacket(m),
         phase' = "done"
  PROVE  pkt_num' = Expected'
  <1>1. /\ Total(pool) + pos = Total(pool0) /\ Total(pool) \in Nat /\ pos \in Nat
        /\ pos <= Len(capture.recs) /\ Len(capture.recs) \in Nat /\ pos = Len(tx_packets)
    BY Amounts DEF Progress, IInv
  <1>2. ASSUME UNCHANGED <<capture, pool0>> PROVE Expected' = Expected
    BY <1>2 DEF Expected, Buffers, Wanted
  <1>3. CASE NoMbuf
    <2>1. pkt_num' = 0 /\ UNCHANGED <<capture, pool0>>
      BY <1>3 DEF NoMbuf, Finish, PktNum
    <2>2. Total(pool) = 0
      BY <1>3, Amounts, TotalIsZero DEF NoMbuf
    <2>3. ~ Len(capture.recs) < Total(pool0)
      BY <1>1, <2>2
    <2> QED
      BY <1>2, <2>1, <2>3, ExpectedIs
  <1>4. ASSUME NEW m \in Mbufs, pool[m] > 0, HeaderAtEof(m) \/ DataAtEof(m)
        PROVE  pkt_num' = Expected'
    <2>1. /\ pos = Len(capture.recs) /\ capture.tail.kind # "error"
          /\ pkt_num' = Len(tx_packets) /\ UNCHANGED <<capture, pool0>>
      BY <1>4 DEF HeaderAtEof, DataAtEof, Finish, PktNum
    <2>2. Total(pool) > 0
      BY <1>4, Amounts, TotalTake
    <2>3. Len(capture.recs) < Total(pool0)
      BY <1>1, <2>1, <2>2
    <2> QED
      BY <1>1, <1>2, <2>1, <2>3, ExpectedIs DEF Progress
  <1>5. ASSUME NEW m \in Mbufs, ReadError(m)
        PROVE  pkt_num' = Expected'
    <2>1. capture.tail.kind = "error" /\ pkt_num' = 0 /\ UNCHANGED <<capture, pool0>>
      BY <1>5 DEF ReadError, Finish, PktNum
    <2> QED
      BY <1>2, <2>1, ExpectedIs
  <1>6. ASSUME NEW m \in Mbufs, Refused(m)
        PROVE  pkt_num' = Expected'
    <2>1. /\ pkt_num' = 0 /\ UNCHANGED <<capture, pool0>> /\ pos < Len(capture.recs)
          /\ ~ Acceptable(NextRecord) \/ NextRecord.caplen = 0
      BY <1>6 DEF Refused, Finish, PktNum
    <2>2. pos + 1 \in 1 .. Len(capture.recs) /\ NextRecord.caplen \in Nat
      BY <1>1, <2>1, CaptureRecords DEF IInv, NextRecord
    <2>3. ~ Wanted(NextRecord)
      BY <2>1, <2>2 DEF Acceptable, Wanted
    <2> QED
      BY <1>2, <2>1, <2>2, <2>3, ExpectedIs DEF NextRecord
  <1> QED
    BY <1>3, <1>4, <1>5, <1>6 DEF GetPacket, Stored, Overrun

(* A step that does not end the loading reads a wanted record or none.     *)
LEMMA ProgressStep ==
  ASSUME IInv, Progress, [Next]_vars
  PROVE  Progress'
  <1>1. ASSUME UNCHANGED <<capture, pos, tx_packets, data>>,
               pkt_num' \in {0, pkt_num, Len(tx_packets)},
               phase' \in {"check", "load"} =>
                 UNCHANGED <<pool, pool0, pkt_num>> /\ phase \in {"check", "load"}
        PROVE  Progress'
    BY <1>1 DEF Progress, Wanted, Loaded
  <1>2. ASSUME NEW m \in Mbufs, GetPacket(m), Stored(m) PROVE Progress'
    <2>1. /\ UNCHANGED <<capture, pool0, phase>> /\ pos' = pos + 1 /\ pool' = Take(pool, m)
          /\ pool[m] > 0 /\ phase = "load"
          /\ pos < Len(capture.recs) /\ Acceptable(NextRecord)
          /\ NextRecord.caplen \in 1 .. DataRoom
      BY <1>2 DEF GetPacket, Stored, Alloc
    <2>2. /\ Total(pool') = Total(pool) - 1 /\ Total(pool) \in Nat /\ pos \in Nat
          /\ pos + 1 \in 1 .. Len(capture.recs) /\ Total(pool0) = Total(pool) + pos
      BY <2>1, Amounts, TotalTake DEF Progress
    <2>3. Wanted(capture.recs[pos + 1]) /\ capture.recs[pos + 1].caplen <= DataRoom
      BY <2>1, <2>2, CaptureRecords DEF Acceptable, Wanted, NextRecord, IInv
    <2>4. \A i \in 1 .. pos' : Wanted(capture.recs[i]) /\ capture.recs[i].caplen <= DataRoom
      <3>1. \A i \in 1 .. pos + 1 : i \in 1 .. pos \/ i = pos + 1
        BY <2>2
      <3> QED
        BY <2>1, <2>3, <3>1 DEF Progress
    <2>5. Total(pool') + pos' = Total(pool0')
      BY <2>1, <2>2
    <2>6. \A x \in Mbufs : data'[x] # 0 => x \in Loaded'
      <3>1. /\ tx_packets' = Append(tx_packets, m) /\ data' = [data EXCEPT ![m] = pos + 1]
            /\ tx_packets \in Seq(Mbufs) /\ Len(tx_packets) \in Nat
        BY <1>2 DEF Stored, IInv, TypeOK
      <3>2. /\ DOMAIN tx_packets = 1 .. Len(tx_packets)
            /\ DOMAIN tx_packets' = 1 .. (Len(tx_packets) + 1)
            /\ \A i \in 1 .. Len(tx_packets) : tx_packets'[i] = tx_packets[i]
            /\ tx_packets'[Len(tx_packets) + 1] = m
        BY <3>1
      <3>3. \A x \in Mbufs : data'[x] # 0 => x = m \/ x \in Loaded
        BY <3>1 DEF IInv, TypeOK, Progress
      <3>4. m \in Loaded'
        <4>1. Len(tx_packets) + 1 \in DOMAIN tx_packets'
          BY <3>1, <3>2
        <4> QED
          BY <3>2, <4>1 DEF Loaded
      <3>5. \A x \in Loaded : x \in Loaded'
        BY <3>1, <3>2 DEF Loaded
      <3> QED
        BY <3>3, <3>4, <3>5
    <2>7. pkt_num' = 0
      BY <1>2, <2>1 DEF Stored, Progress
    <2> QED
      BY <2>1, <2>4, <2>5, <2>6, <2>7 DEF Progress, Wanted
  <1>3. ASSUME NEW m \in Mbufs, GetPacket(m), ~ Stored(m) PROVE Progress'
    BY <1>1, <1>3
       DEF GetPacket, HeaderAtEof, ReadError, DataAtEof, Refused, Overrun, Finish,
           PktNum, Progress
  <1>4. CASE CheckPcap \/ NoMbuf \/ UNCHANGED vars
    BY <1>1, <1>4 DEF CheckPcap, NoMbuf, Finish, PktNum, vars, Progress
  <1> QED
    BY <1>2, <1>3, <1>4 DEF Next

LEMMA NothingLoaded == Init => Progress /\ LoadResult
  <1> SUFFICES ASSUME Init PROVE Progress /\ LoadResult
    OBVIOUS
  <1>1. Total(pool) \in Nat
    BY InitIInv, Amounts
  <1> QED
    BY <1>1 DEF Init, Progress, LoadResult

LEMMA LoadResultStep ==
  ASSUME IInv, Progress, LoadResult, [Next]_vars
  PROVE  LoadResult'
  <1> SUFFICES ASSUME phase' = "done"
               PROVE  pkt_num' = Expected'
    BY DEF LoadResult
  <1>1. CASE UNCHANGED vars
    BY <1>1 DEF vars, LoadResult, Expected, Buffers, Wanted
  <1>2. CASE NoMbuf \/ \E m \in Mbufs : GetPacket(m)
    BY <1>2, EndsAsExpected DEF NoMbuf, GetPacket
  <1> QED
    BY <1>1, <1>2 DEF Next, CheckPcap

(* load_packets returns the reference result, for every capture, pool and  *)
(* array length.                                                           *)
THEOREM LoaderResult == Spec => []LoadResult
  BY NothingLoaded, ProgressStep, LoadResultStep, Inductive, PTL DEF Spec

-----------------------------------------------------------------------------

(* What was stored went where there was room for it.                       *)
LEMMA StoredInside ==
  ASSUME IInv, Progress, NEW j \in 1 .. pos
  PROVE  ~ Outside(j)
  <1>1. /\ j <= Len(capture.recs) /\ j <= MaxPktBurst
        /\ capture.recs[j].caplen \in Nat /\ capture.recs[j].caplen <= DataRoom
    BY Amounts, CaptureRecords DEF IInv, TypeOK, Progress
  <1> QED
    BY <1>1 DEF Outside

(* What the file has of a record it ends in is a number of bytes.          *)
LEMMA TailType == \A t \in Ending : t.present \in Int
  <1>1. \A t \in [kind : {"end"}, present : {0}] : t.present \in Int
    OBVIOUS
  <1>2. \A t \in [kind : {"cut", "error"}, present : 0 .. BufSize - 1] : t.present \in Int
    OBVIOUS
  <1> QED
    BY <1>1, <1>2 DEF Ending

(* A call that ends the loading writes nothing out of bounds, nor did any  *)
(* before it, nor would one have that it kept from happening.              *)
LEMMA EndsInside ==
  ASSUME IInv, Progress, phase = "load",
         NoMbuf \/ \E m \in Mbufs : GetPacket(m),
         phase' = "done",
         NEW j \in 1 .. Len(capture.recs) + 1, Reads(j), Outside(j)
  PROVE  FALSE
  <1>1. /\ Total(pool) + pos = Buffers /\ Total(pool) \in Nat /\ pos \in Nat
        /\ pos <= Len(capture.recs) /\ Len(capture.recs) \in Nat
    BY Amounts DEF Progress
  <1>2. pos < j
    BY <1>1, StoredInside
  <1>3. j <= Buffers /\ (pos < Len(capture.recs) => Wanted(capture.recs[pos + 1]))
    BY <1>1, <1>2 DEF Reads
  <1>4. CASE NoMbuf
    <2>1. Total(pool) = 0
      BY <1>4, Amounts, TotalIsZero DEF NoMbuf
    <2> QED
      BY <1>1, <1>2, <1>3, <2>1
  <1>5. ASSUME NEW m \in Mbufs, HeaderAtEof(m) \/ ReadError(m) \/ DataAtEof(m)
        PROVE  FALSE
    <2>1. pos = Len(capture.recs) /\ capture.tail \in Ending
      BY <1>5, CaptureRecords DEF HeaderAtEof, ReadError, DataAtEof, IInv, Capture
    <2>2. ~ capture.tail.present > DataRoom
      <3>1. CASE HeaderAtEof(m)
        <4>1. capture.tail.present = 0
          BY <2>1, <3>1 DEF HeaderAtEof, Ending
        <4> QED
          BY <4>1
      <3>2. CASE ReadError(m) \/ DataAtEof(m)
        <4>1. capture.tail.present \in Int
          BY <2>1, TailType
        <4>2. capture.tail.present <= DataRoom
          BY <3>2 DEF ReadError, DataAtEof
        <4> QED
          BY <4>1, <4>2
      <3> QED
        BY <1>5, <3>1, <3>2
    <2> QED
      BY <1>1, <1>2, <2>1, <2>2 DEF Outside
  <1>6. ASSUME NEW m \in Mbufs, Refused(m) PROVE FALSE
    <2>1. pos + 1 \in 1 .. Len(capture.recs) /\ pos < Len(capture.recs)
      BY <1>1, <1>6 DEF Refused
    <2>2. ~ Wanted(NextRecord)
      BY <1>6, <2>1, CaptureRecords DEF Refused, Acceptable, Wanted, NextRecord, IInv
    <2> QED
      BY <1>3, <2>1, <2>2 DEF NextRecord
  <1> QED
    BY <1>4, <1>5, <1>6 DEF GetPacket, Stored, Overrun

(* A call that writes out of bounds is one of those described.             *)
LEMMA OverrunOutside ==
  ASSUME IInv, Progress, phase = "load", NEW m \in Mbufs, pool[m] > 0, Overrun(m)
  PROVE  \E j \in 1 .. Len(capture.recs) + 1 : Reads(j) /\ Outside(j)
  <1>1. /\ Total(pool) + pos = Buffers /\ Total(pool) \in Nat /\ pos \in Nat
        /\ pos <= Len(capture.recs) /\ Len(capture.recs) \in Nat /\ pos = Len(tx_packets)
    BY Amounts DEF Progress, IInv
  <1>2. Total(pool) > 0
    BY Amounts, TotalTake
  <1>3. pos + 1 \in 1 .. Len(capture.recs) + 1 /\ pos + 1 <= Buffers
    BY <1>1, <1>2
  <1>4. ASSUME pos < Len(capture.recs)
        PROVE  Wanted(capture.recs[pos + 1]) /\ Outside(pos + 1)
    <2>1. /\ Acceptable(NextRecord) /\ NextRecord.caplen > 0
          /\ NextRecord.caplen > DataRoom \/ Slot >= MaxPktBurst
      BY <1>1, <1>4 DEF Overrun
    <2>2. pos + 1 \in 1 .. Len(capture.recs) /\ NextRecord.caplen \in Nat
      BY <1>1, <1>4, CaptureRecords DEF NextRecord, IInv
    <2> QED
      BY <1>1, <2>1, <2>2 DEF Acceptable, Wanted, NextRecord, Outside, Slot
  <1>5. Outside(pos + 1)
    <2>1. CASE pos = Len(capture.recs)
      BY <1>1, <2>1 DEF Overrun, Outside
    <2> QED
      BY <1>1, <1>4, <2>1
  <1>6. Reads(pos + 1)
    <2> SUFFICES ASSUME NEW i \in 1 .. pos + 1, i <= Len(capture.recs)
                 PROVE  Wanted(capture.recs[i])
      BY <1>3 DEF Reads
    <2>1. CASE i = pos + 1
      BY <1>1, <1>4, <2>1
    <2>2. CASE i # pos + 1
      BY <1>1, <2>2 DEF Progress
    <2> QED
      BY <2>1, <2>2
  <1> QED
    BY <1>3, <1>5, <1>6

LEMMA UndefinedStep ==
  ASSUME IInv, Progress, UndefinedFor, [Next]_vars
  PROVE  UndefinedFor'
  <1>1. UNCHANGED <<capture, pool0>>
    BY DEF Next, CheckPcap, NoMbuf, GetPacket, HeaderAtEof, ReadError, DataAtEof, Refused,
           Stored, Overrun, Finish, vars
  <1>2. \A j : Reads(j)' = Reads(j) /\ Outside(j)' = Outside(j)
    BY <1>1 DEF Reads, Outside, Wanted, Buffers
  <1> SUFFICES ASSUME phase' \in {"done", "undef"}
               PROVE  phase' = "undef" <=>
                        \E j \in 1 .. Len(capture.recs) + 1 : Reads(j) /\ Outside(j)
    BY <1>1, <1>2 DEF UndefinedFor
  <1>3. CASE UNCHANGED vars
    BY <1>3 DEF vars, UndefinedFor
  <1>4. CASE NoMbuf
    <2>1. phase = "load" /\ phase' = "done"
      BY <1>4 DEF NoMbuf, Finish
    <2> QED
      BY <1>4, <2>1, EndsInside
  <1>5. ASSUME NEW m \in Mbufs, GetPacket(m)
        PROVE  phase' = "undef" <=>
                 \E j \in 1 .. Len(capture.recs) + 1 : Reads(j) /\ Outside(j)
    <2>1. phase = "load" /\ pool[m] > 0
      BY <1>5 DEF GetPacket
    <2>2. CASE phase' = "done"
      BY <1>5, <2>1, <2>2, EndsInside
    <2>3. CASE phase' = "undef"
      <3>1. Overrun(m)
        BY <1>5, <2>1, <2>3
           DEF GetPacket, HeaderAtEof, ReadError, DataAtEof, Refused, Stored, Finish
      <3> QED
        BY <2>1, <2>3, <3>1, OverrunOutside
    <2> QED
      BY <2>2, <2>3
  <1>6. CASE CheckPcap
    BY <1>6 DEF CheckPcap
  <1> QED
    BY <1>3, <1>4, <1>5, <1>6 DEF Next

(* The loader writes out of bounds for exactly the captures described,     *)
(* whatever the pool, the array and the room of a buffer.                  *)
THEOREM LoaderDefined == Spec => []UndefinedFor
  <1>1. Init => UndefinedFor
    BY DEF Init, UndefinedFor
  <1> QED
    BY <1>1, NothingLoaded, ProgressStep, UndefinedStep, Inductive, PTL DEF Spec

-----------------------------------------------------------------------------

(* The same of a program that calls the loader later in its run, and whose *)
(* port writes to a buffer that is not in the array.                       *)
LEMMA ReadyToLoad == Init' => Progress' /\ LoadResult'
  BY NothingLoaded, PTL

LEMMA OtherWrittenResult ==
  ASSUME IInv, Progress, LoadResult, NEW m \in Mbufs, data' = [data EXCEPT ![m] = 0],
         UNCHANGED <<capture, pos, eof, pool, lost, tx_packets, phase, pkt_num, pool0>>
  PROVE  Progress' /\ LoadResult'
  <1>1. \A x \in Mbufs : data'[x] # 0 => data[x] # 0
    BY DEF IInv, TypeOK
  <1> QED
    BY <1>1 DEF Progress, LoadResult, Expected, Buffers, Wanted, Loaded

=============================================================================
