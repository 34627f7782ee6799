-------------------------- MODULE PreparationProofs --------------------------
(***************************************************************************)
(* Proofs about the test description and the checksum requests, for every  *)
(* description, every width of its fields, every device and every burst.   *)
(***************************************************************************)
EXTENDS Preparation, SequenceTheorems, TLAPS

Desc == [l4 : {Flags}, l3_len : Nat, cksum : {"pseudo", "other"}]

StageInv ==
  /\ stage \in {"queues", "prep", "loop", "failed"}
  /\ stage \in {"prep", "loop"} => offloads = UNION Needed
  /\ stage \in {"queues", "failed"} => prepared = <<>>

(* The requests that were made go with the first frames of the burst.      *)
PrepInv ==
  /\ burst \in Seq(Frames) /\ prepared \in Seq(Desc)
  /\ pkt_indx = Len(prepared) + 1 /\ Len(prepared) <= Len(burst)
  /\ \A n \in 1 .. Len(prepared) :
       /\ burst[n].has_ihl => prepared[n].l3_len = burst[n].ihl * 4
       /\ prepared[n].cksum = burst[n].cksum
  /\ stage = "loop" => Len(prepared) = Len(burst)

(* The capture and the field that are copied.                              *)
CopyInv ==
  /\ doc \in Documents
  /\ i \in Nat \ {0} /\ f \in 1 .. 7

IInv == StageInv /\ PrepInv /\ CopyInv

-----------------------------------------------------------------------------

(* Or-ed, the two flags are the one for UDP.                               *)
LEMMA OredIsUdp == Flags = UDP_CKSUM /\ Flags # TCP_CKSUM /\ Flags # SCTP_CKSUM
  <1>1. Flags = UDP_CKSUM
    BY DEF Flags, TCP_CKSUM, UDP_CKSUM
  <1>2. 1 \in Flags /\ 0 \in Flags /\ 1 \notin TCP_CKSUM /\ 0 \notin SCTP_CKSUM
    BY DEF Flags, TCP_CKSUM, UDP_CKSUM, SCTP_CKSUM
  <1> QED
    BY <1>1, <1>2

LEMMA AsksForUdp == Protocol(Flags) = "udp"
  <1>1. TCP_CKSUM # UDP_CKSUM /\ SCTP_CKSUM # UDP_CKSUM
    BY OredIsUdp
  <1> HIDE DEF TCP_CKSUM, UDP_CKSUM, SCTP_CKSUM
  <1> QED
    BY <1>1, OredIsUdp DEF Protocol

(* The offsets of a checksum tell the protocols apart.                     *)
LEMMA OffsetsDiffer ==
  Offset("udp") = 6 /\ Offset("tcp") = 16 /\ Offset("sctp") = 8
  BY DEF Offset

(* A request, and the lengths it can come with.                            *)
LEMMA LengthsAreNat ==
  ASSUME NEW frame \in Frames, NEW l3 \in HeaderLengths(frame)
  PROVE  l3 \in Nat /\ (frame.has_ihl => l3 = frame.ihl * 4)
  BY FramesAssumption DEF FramesAssumption, Frame, HeaderLengths

LEMMA DescribeStep ==
  ASSUME CopyInv, Describe
  PROVE  CopyInv'
  <1> USE DEF CopyInv
  <1>1. Len(Fields) = 7
    BY DEF Fields
  <1>2. CASE Scan
    BY <1>2 DEF Scan
  <1>3. CASE CopyField
    <2>1. /\ doc' = doc
          /\ \/ UNCHANGED <<i, f>>
             \/ /\ f' = IF f = Len(Fields) THEN 1 ELSE f + 1
                /\ i' = IF f = Len(Fields) THEN i + 1 ELSE i
      BY <1>3 DEF CopyField
    <2> QED
      BY <1>1, <2>1
  <1>4. CASE CopyDone
    BY <1>4 DEF CopyDone
  <1>5. CASE PrintCfg
    BY <1>5 DEF PrintCfg
  <1> QED
    BY <1>2, <1>3, <1>4, <1>5 DEF Describe

LEMMA InitIInv == Init => IInv
  <1> SUFFICES ASSUME Init PROVE IInv
    OBVIOUS
  <1>1. /\ offloads = {} /\ pkt_indx = 1 /\ prepared = <<>> /\ stage = "queues"
        /\ burst \in UNION {[1 .. n -> Frames] : n \in 1 .. 2}
    BY DEF Init, PrepInit
  <1>2. burst \in Seq(Frames)
    <2>1. PICK n \in 1 .. 2 : burst \in [1 .. n -> Frames]
      BY <1>1
    <2>2. n \in Nat
      OBVIOUS
    <2> QED
      BY <2>1, <2>2, SeqDef
  <1>3. CopyInv
    BY DEF Init, DescribeInit, CopyInv
  <1> QED
    BY <1>1, <1>2, <1>3 DEF IInv, StageInv, PrepInv

LEMMA NextIInv == IInv /\ [Next]_<<describing, preparing>> => IInv'
  <1> SUFFICES ASSUME IInv, [Next]_<<describing, preparing>> PROVE IInv'
    OBVIOUS
  <1> USE DEF IInv
  <1>1. ASSUME UNCHANGED describing PROVE CopyInv'
    BY <1>1 DEF describing, CopyInv
  <1>2. ASSUME UNCHANGED preparing PROVE StageInv' /\ PrepInv'
    BY <1>2 DEF preparing, StageInv, PrepInv
  <1>3. CASE InitQueues /\ UNCHANGED describing
    BY <1>3, <1>1 DEF InitQueues, StageInv, PrepInv
  <1>4. CASE PrepPacket /\ UNCHANGED describing
    <2>1. PICK l3 \in HeaderLengths(burst[pkt_indx]) :
            prepared' = Append(prepared, [l4 |-> Flags, l3_len |-> l3,
                                          cksum |-> burst[pkt_indx].cksum])
      BY <1>4 DEF PrepPacket
    <2>2. /\ pkt_indx \in 1 .. Len(burst) /\ stage = "prep" /\ pkt_indx' = pkt_indx + 1
          /\ UNCHANGED <<offloads, burst, stage>>
      BY <1>4 DEF PrepPacket, PrepInv
    <2>3. burst[pkt_indx] \in Frames
      BY <2>2 DEF PrepInv
    <2>4. l3 \in Nat /\ (burst[pkt_indx].has_ihl => l3 = burst[pkt_indx].ihl * 4)
      BY <2>3, LengthsAreNat
    <2> DEFINE desc == [l4 |-> Flags, l3_len |-> l3, cksum |-> burst[pkt_indx].cksum]
    <2>5. desc \in Desc
      <3>1. burst[pkt_indx].cksum \in {"pseudo", "other"}
        BY <2>3, FramesAssumption DEF FramesAssumption, Frame
      <3> QED
        BY <2>4, <3>1 DEF Desc
    <2>6. /\ prepared' \in Seq(Desc) /\ Len(prepared') = Len(prepared) + 1
          /\ \A n \in 1 .. Len(prepared) : prepared'[n] = prepared[n]
          /\ prepared'[Len(prepared) + 1] = desc
      BY <2>1, <2>5 DEF PrepInv
    <2>7. PrepInv'
      <3>1. ASSUME NEW n \in 1 .. Len(prepared')
            PROVE  /\ burst'[n].has_ihl => prepared'[n].l3_len = burst'[n].ihl * 4
                   /\ prepared'[n].cksum = burst'[n].cksum
        <4>1. CASE n \in 1 .. Len(prepared)
          BY <2>2, <2>6, <3>1, <4>1 DEF PrepInv
        <4>2. CASE n = Len(prepared) + 1
          BY <2>2, <2>4, <2>6, <3>1, <4>2 DEF PrepInv
        <4> QED
          BY <2>6, <4>1, <4>2 DEF PrepInv
      <3> QED
        BY <2>2, <2>6, <3>1 DEF PrepInv
    <2> QED
      BY <1>4, <1>1, <2>2, <2>7 DEF StageInv
  <1>5. CASE PrepDone /\ UNCHANGED describing
    BY <1>5, <1>1 DEF PrepDone, StageInv, PrepInv
  <1>6. CASE Describe /\ UNCHANGED preparing
    BY <1>6, <1>2, DescribeStep
  <1>7. CASE UNCHANGED <<describing, preparing>>
    BY <1>7, <1>1, <1>2
  <1> QED
    BY <1>3, <1>4, <1>5, <1>6, <1>7 DEF Next

(* The invariant that the theorems below follow from.                      *)
THEOREM Inductive == Spec => []IInv
  BY InitIInv, NextIInv, PTL DEF Spec

(* No frame asks the device for an offload that init_rx_tx_queues has not  *)
(* turned on: trgen.c:39-42 against eth_dev.c:29-52.                       *)
THEOREM AsksForEnabled == Spec => []OnlyEnabled
  <1>1. IInv => OnlyEnabled
    <2> SUFFICES ASSUME IInv, NEW n \in DOMAIN prepared
                 PROVE  {"ipv4", Protocol(prepared[n].l4)} \subseteq offloads
      BY DEF OnlyEnabled
    <2>1. prepared \in Seq(Desc)
      BY DEF IInv, PrepInv
    <2>2. prepared[n] \in Desc /\ prepared # <<>>
      BY <2>1
    <2>3. Protocol(prepared[n].l4) = "udp"
      BY <2>2, AsksForUdp DEF Desc
    <2>4. offloads = UNION Needed
      BY <2>2 DEF IInv, StageInv
    <2>5. {"ipv4", "udp"} \subseteq UNION Needed
      BY DEF Needed
    <2> QED
      BY <2>3, <2>4, <2>5
  <1> QED
    BY <1>1, Inductive, PTL

(* Of the frames that rx_loop is given those of UDP over IPv4 come out     *)
(* right whose checksum field holds the sum of the pseudo-header in the    *)
(* capture, and no others, whatever is in the burst: trgen.c:20-46, :61.   *)
THEOREM RightAsCaptured == Spec => []ChecksumRight
  <1>1. IInv => ChecksumRight
    <2> SUFFICES ASSUME IInv, stage = "loop"
                 PROVE  /\ Len(prepared) = Len(burst)
                        /\ \A n \in DOMAIN burst :
                             Right(burst[n], prepared[n])
                               <=> /\ burst[n].ipv4 /\ burst[n].has_ihl
                                   /\ burst[n].proto = "udp" /\ burst[n].cksum = "pseudo"
      BY DEF ChecksumRight
    <2>1. /\ Len(prepared) = Len(burst)
          /\ burst \in Seq(Frames) /\ prepared \in Seq(Desc)
      BY DEF IInv, PrepInv
    <2>2. ASSUME NEW n \in DOMAIN burst
          PROVE  Right(burst[n], prepared[n])
                   <=> /\ burst[n].ipv4 /\ burst[n].has_ihl
                       /\ burst[n].proto = "udp" /\ burst[n].cksum = "pseudo"
      <3> DEFINE frame == burst[n]
                 desc == prepared[n]
      <3>1. frame \in Frame /\ desc \in Desc
        BY <2>1, FramesAssumption DEF FramesAssumption
      <3>2. Protocol(desc.l4) = "udp" /\ desc.l3_len \in Nat
        BY <3>1, AsksForUdp DEF Desc
      <3>3. (frame.has_ihl => desc.l3_len = frame.ihl * 4) /\ desc.cksum = frame.cksum
        BY <2>1 DEF IInv, PrepInv
      <3>4. frame.ihl \in Nat /\ frame.proto \in {"tcp", "udp", "sctp", "other"}
        BY <3>1 DEF Frame
      <3> HIDE DEF frame, desc
      <3>5. frame.has_ihl /\ frame.proto # "other" =>
              (desc.l3_len + 6 = 4 * frame.ihl + Offset(frame.proto) <=> frame.proto = "udp")
        BY <3>3, <3>4, OffsetsDiffer
      <3>6. Right(frame, desc) <=>
              /\ frame.ipv4 /\ frame.has_ihl
              /\ frame.proto = "udp" /\ frame.cksum = "pseudo"
        BY <3>2, <3>3, <3>5, OffsetsDiffer DEF Right
      <3> QED
        BY <3>6 DEF frame, desc
    <2> QED
      BY <2>1, <2>2
  <1> QED
    BY <1>1, Inductive, PTL

-----------------------------------------------------------------------------

(* The array, cell by cell: what the copies so far have left in a capture. *)
Cell(n, at) == captures[Place(n, at)]

TextAt(n, at, text) ==
  /\ \A k \in 1 .. Len(text) : Cell(n, at + k - 1) = text[k]
  /\ Cell(n, at + Len(text)) = NUL

\* A text in a field that has room for so many cells: with its end, or
\* without it when it fills the field.
Fills(n, at, room, text) ==
  IF Len(text) < room THEN TextAt(n, at, text)
  ELSE \A k \in 1 .. room : Cell(n, at + k - 1) = text[k]

\* The fields before the one with number g.
CopiedUpTo(n, g) ==
  LET c == doc.items[n]
  IN  /\ g > 1 => c.name # Missing /\ Fills(n, 0, NameRoom + 1, c.name)
      /\ g > 2 => Cell(n, Bursts) = Number(c.burst)
      /\ g > 3 => Cell(n, Bursts + 1) = Number(c.fps)
      /\ g > 4 => Cell(n, Bursts + 2) = Number(c.ipg)
      /\ g > 5 => c.cln_ips # Missing /\ Fills(n, ClnIps, AddrRoom, c.cln_ips)
      /\ g > 6 => c.srv_ips # Missing /\ Fills(n, SrvIps, AddrRoom + 1, c.srv_ips)
      /\ g > 7 => Cell(n, ClnPort) = Number(c.cln_port)

ArrayInv ==
  /\ pc = "scan" => i = 1 /\ f = 1
  /\ pc \in {"copy", "print"} =>
       /\ DOMAIN captures = 1 .. Size * Len(doc.items)
       /\ \A n \in DOMAIN doc.items : pc = "print" \/ n < i => CopiedUpTo(n, 8)
  /\ pc = "copy" /\ i <= Len(doc.items) => CopiedUpTo(i, f)

(* What is printed of a capture, or of what is no capture.                 *)
Shown == Seq(STRING) \cup {Garbled}

Entry ==
  [name : Shown, burst : Nat, fps : Nat, ipg : Nat,
   cln_ips : Shown, srv_ips : Shown, cln_port : Nat] \cup {Junk}

PrintedInv ==
  /\ printed \in Seq(Entry)
  /\ pc \in {"scan", "copy"} => printed = <<>>
  /\ pc = "print" => Len(printed) = i - 1
  /\ PrintedAsWritten

(* The struct from its first cell to its last.                             *)
LEMMA Layout ==
  /\ NameRoom \in Nat /\ AddrRoom \in Nat /\ NameRoom > 0 /\ AddrRoom > 0
  /\ Bursts = NameRoom + 1 /\ ClnIps = NameRoom + 4 /\ SrvIps = ClnIps + AddrRoom
  /\ ClnPort = SrvIps + AddrRoom + 1 /\ Size = ClnPort + 1
  /\ Bursts \in Nat /\ ClnIps \in Nat /\ SrvIps \in Nat /\ ClnPort \in Nat /\ Size \in Nat
  BY DocumentsAssumption DEF DocumentsAssumption, Bursts, ClnIps, SrvIps, ClnPort, Size

LEMMA Rows ==
  ASSUME NEW w \in Nat, NEW m \in Nat, NEW n \in Nat, m < n
  PROVE  m * w + w <= n * w
  <1> DEFINE d == n - m - 1
  <1>1. d \in Nat /\ n = m + 1 + d
    OBVIOUS
  <1> HIDE DEF d
  <1>2. d * w \in Nat /\ n * w = m * w + w + d * w
    BY <1>1
  <1> QED
    BY <1>2

(* Captures lie one behind the other, and in the array.                    *)
LEMMA PlaceIs ==
  ASSUME NEW n \in Nat \ {0}, NEW m \in Nat \ {0}, NEW c \in 0 .. Size - 1, NEW at \in 0 .. Size
  PROVE  /\ Place(n, c) \in Int /\ Place(m, at) \in Int
         /\ n < m => Place(n, c) < Place(m, at)
         /\ n = m => Place(n, c) = Place(m, at) + c - at
         /\ n > m => Place(n, c) >= Place(m, at) + Size - at
  <1> DEFINE row(k) == (k - 1) * Size
  <1>1. Size \in Nat /\ Place(n, c) = row(n) + c + 1 /\ Place(m, at) = row(m) + at + 1
    BY Layout DEF Place
  <1>2. row(n) \in Nat /\ row(m) \in Nat
    BY <1>1
  <1>3. /\ n < m => row(n) + Size <= row(m)
        /\ m < n => row(m) + Size <= row(n)
    BY <1>1, Rows
  <1> HIDE DEF row
  <1> QED
    BY <1>1, <1>2, <1>3

LEMMA PlaceInside ==
  ASSUME Len(doc.items) \in Nat, NEW n \in 1 .. Len(doc.items), NEW c \in 0 .. Size - 1
  PROVE  Place(n, c) \in 1 .. Size * Len(doc.items)
  <1> DEFINE N == Len(doc.items)
             row == (n - 1) * Size
  <1>1. Size \in Nat /\ N \in Nat /\ n \in 1 .. N /\ Place(n, c) = row + c + 1
    BY Layout DEF Place
  <1> HIDE DEF N
  <1>2. row \in Nat /\ row + Size <= N * Size /\ N * Size = Size * N
    BY <1>1, Rows
  <1>3. Place(n, c) \in 1 .. Size * N
    <2> HIDE DEF row
    <2> QED
      BY <1>1, <1>2
  <1> QED
    BY <1>3 DEF N

(* A write reaches no capture before its own, and of its own nothing       *)
(* before its place.                                                       *)
LEMMA CellWritten ==
  ASSUME DOMAIN captures = 1 .. Size * Len(doc.items), Len(doc.items) \in Nat,
         NEW m \in 1 .. Len(doc.items), NEW at \in 0 .. Size - 1,
         NEW values, Len(values) \in Nat, captures' = Write(captures, Place(m, at), values)
  PROVE  /\ DOMAIN captures' = DOMAIN captures
         /\ \A n \in 1 .. Len(doc.items) : \A c \in 0 .. Size - 1 :
              /\ n < m => Cell(n, c)' = Cell(n, c)
              /\ n = m => Cell(n, c)' = IF c \in at .. at + Len(values) - 1
                                        THEN values[c - at + 1] ELSE Cell(n, c)
  <1>1. DOMAIN captures' = DOMAIN captures
    BY DEF Write
  <1>2. ASSUME NEW n \in 1 .. Len(doc.items), NEW c \in 0 .. Size - 1
        PROVE  /\ n < m => captures'[Place(n, c)] = captures[Place(n, c)]
               /\ n = m => captures'[Place(n, c)] =
                             IF c \in at .. at + Len(values) - 1
                             THEN values[c - at + 1] ELSE captures[Place(n, c)]
    <2> DEFINE here == Place(n, c)
               from == Place(m, at)
    <2>0. at \in 0 .. Size /\ n \in Nat \ {0} /\ m \in Nat \ {0}
      BY Layout
    <2>1. here \in DOMAIN captures
      BY PlaceInside
    <2>2. /\ here \in Int /\ from \in Int
          /\ n < m => here < from
          /\ n = m => here = from + c - at
      BY <2>0, PlaceIs
    <2>3. captures'[here] = IF here \in from .. from + Len(values) - 1
                            THEN values[here - from + 1] ELSE captures[here]
      BY <2>1 DEF Write
    <2> HIDE DEF here, from
    <2>4. /\ n < m => here \notin from .. from + Len(values) - 1
          /\ n = m => (here \in from .. from + Len(values) - 1
                         <=> c \in at .. at + Len(values) - 1)
          /\ n = m => here - from + 1 = c - at + 1
      BY <2>2, Layout
    <2>5. n < m => captures'[here] = captures[here]
      BY <2>3, <2>4
    <2>6. n = m => captures'[here] = IF c \in at .. at + Len(values) - 1
                                     THEN values[c - at + 1] ELSE captures[here]
      BY <2>3, <2>4
    <2> QED
      BY <2>5, <2>6 DEF here
  <1> QED
    BY <1>1, <1>2 DEF Cell, Place

(* Each field lies behind those before it.                                 *)
Start(g) == IF g = 8 THEN Size ELSE Fields[g].at

LEMMA Starts ==
  /\ Start(1) = 0 /\ Start(2) = Bursts /\ Start(3) = Bursts + 1 /\ Start(4) = Bursts + 2
  /\ Start(5) = ClnIps /\ Start(6) = SrvIps /\ Start(7) = ClnPort /\ Start(8) = Size
  <1>1. Fields = <<Name, Burst, Fps, Ipg, Cln, Srv, Port>>
    BY DEF Fields
  <1> USE DEF Name, Burst, Fps, Ipg, Cln, Srv, Port
  <1> QED
    BY <1>1 DEF Start

(* The texts of a capture, unless one is missing.                          *)
LEMMA CaptureIs ==
  ASSUME doc \in Documents, NEW n \in 1 .. Len(doc.items)
  PROVE  LET c == doc.items[n]
         IN  /\ c.name # Missing => c.name \in Seq(STRING) /\ Len(c.name) \in Nat
             /\ c.cln_ips # Missing => c.cln_ips \in Seq(STRING) /\ Len(c.cln_ips) \in Nat
             /\ c.srv_ips # Missing => c.srv_ips \in Seq(STRING) /\ Len(c.srv_ips) \in Nat
  <1> DEFINE c == doc.items[n]
  <1>1. c \in Capture
    BY DocumentsAssumption DEF DocumentsAssumption
  <1>2. c.name \in Text /\ c.cln_ips \in Text /\ c.srv_ips \in Text
    BY <1>1 DEF Capture
  <1> HIDE DEF c
  <1>3. /\ c.name # Missing => c.name \in Seq(STRING) /\ Len(c.name) \in Nat
        /\ c.cln_ips # Missing => c.cln_ips \in Seq(STRING) /\ Len(c.cln_ips) \in Nat
        /\ c.srv_ips # Missing => c.srv_ips \in Seq(STRING) /\ Len(c.srv_ips) \in Nat
    BY <1>2 DEF Text
  <1> QED
    BY <1>3 DEF c

(* A write behind a field leaves its text alone,                           *)
LEMMA TextStays ==
  ASSUME NEW n, NEW at \in Nat, NEW room \in Nat, NEW text, Len(text) \in Nat,
         Fills(n, at, room, text),
         \A c \in at .. at + room - 1 : Cell(n, c)' = Cell(n, c)
  PROVE  Fills(n, at, room, text)'
  <1>1. CASE Len(text) < room
    <2>1. TextAt(n, at, text) /\ at + Len(text) \in at .. at + room - 1
      BY <1>1 DEF Fills
    <2>2. Cell(n, at + Len(text))' = NUL
      BY <2>1 DEF TextAt
    <2>3. ASSUME NEW k \in 1 .. Len(text)
          PROVE  Cell(n, at + k - 1)' = text[k]
      <3>1. at + k - 1 \in at .. at + room - 1
        BY <1>1
      <3> QED
        BY <2>1, <3>1 DEF TextAt
    <2> QED
      BY <1>1, <2>2, <2>3 DEF Fills, TextAt
  <1>2. CASE ~ (Len(text) < room)
    <2>1. ASSUME NEW k \in 1 .. room
          PROVE  Cell(n, at + k - 1)' = text[k]
      <3>1. at + k - 1 \in at .. at + room - 1
        OBVIOUS
      <3> QED
        BY <1>2, <3>1 DEF Fills
    <2> QED
      BY <1>2, <2>1 DEF Fills
  <1> QED
    BY <1>1, <1>2

(* and what was copied stays, whatever is written behind it.               *)
LEMMA StillCopied ==
  ASSUME doc \in Documents, doc' = doc, NEW n \in 1 .. Len(doc.items), NEW g \in 1 .. 8,
         CopiedUpTo(n, g), \A c \in 0 .. Start(g) - 1 : Cell(n, c)' = Cell(n, c)
  PROVE  CopiedUpTo(n, g)'
  <1> DEFINE c == doc.items[n]
  <1>1. /\ Start(g) \in Nat /\ NameRoom \in Nat /\ AddrRoom \in Nat
        /\ g > 1 => Start(g) >= NameRoom + 1
        /\ g > 5 => Start(g) >= ClnIps + AddrRoom /\ ClnIps \in Nat
        /\ g > 6 => Start(g) >= SrvIps + (AddrRoom + 1) /\ SrvIps \in Nat
    <2>1. CASE g = 1
      BY <2>1, Starts, Layout
    <2>2. CASE g = 2
      BY <2>2, Starts, Layout
    <2>3. CASE g = 3
      BY <2>3, Starts, Layout
    <2>4. CASE g = 4
      BY <2>4, Starts, Layout
    <2>5. CASE g = 5
      BY <2>5, Starts, Layout
    <2>6. CASE g = 6
      BY <2>6, Starts, Layout
    <2>7. CASE g = 7
      BY <2>7, Starts, Layout
    <2>8. CASE g = 8
      BY <2>8, Starts, Layout
    <2> QED
      BY <2>1, <2>2, <2>3, <2>4, <2>5, <2>6, <2>7, <2>8
  <1>2. /\ g > 2 => Bursts \in 0 .. Start(g) - 1
        /\ g > 3 => Bursts + 1 \in 0 .. Start(g) - 1
        /\ g > 4 => Bursts + 2 \in 0 .. Start(g) - 1
        /\ g > 7 => ClnPort \in 0 .. Start(g) - 1
    <2>1. CASE g = 1
      BY <2>1, Starts, Layout
    <2>2. CASE g = 2
      BY <2>2, Starts, Layout
    <2>3. CASE g = 3
      BY <2>3, Starts, Layout
    <2>4. CASE g = 4
      BY <2>4, Starts, Layout
    <2>5. CASE g = 5
      BY <2>5, Starts, Layout
    <2>6. CASE g = 6
      BY <2>6, Starts, Layout
    <2>7. CASE g = 7
      BY <2>7, Starts, Layout
    <2>8. CASE g = 8
      BY <2>8, Starts, Layout
    <2> QED
      BY <2>1, <2>2, <2>3, <2>4, <2>5, <2>6, <2>7, <2>8
  <1>3. ASSUME g > 1 PROVE c.name # Missing /\ Fills(n, 0, NameRoom + 1, c.name)'
    <2>1. c.name # Missing /\ Fills(n, 0, NameRoom + 1, c.name)
      BY <1>3 DEF CopiedUpTo
    <2>2. Len(c.name) \in Nat /\ 0 \in Nat /\ NameRoom + 1 \in Nat /\ Start(g) >= 0 + (NameRoom + 1)
      BY <1>1, <1>3, <2>1, CaptureIs
    <2>3. \A k \in 0 .. 0 + (NameRoom + 1) - 1 : Cell(n, k)' = Cell(n, k)
      <3>1. \A k \in 0 .. 0 + (NameRoom + 1) - 1 : k \in 0 .. Start(g) - 1
        BY <1>1, <2>2
      <3> QED
        BY <3>1
    <2> QED
      BY <2>1, <2>2, <2>3, TextStays
  <1>4. ASSUME g > 5 PROVE c.cln_ips # Missing /\ Fills(n, ClnIps, AddrRoom, c.cln_ips)'
    <2>1. c.cln_ips # Missing /\ Fills(n, ClnIps, AddrRoom, c.cln_ips)
      BY <1>4 DEF CopiedUpTo
    <2>2. Len(c.cln_ips) \in Nat /\ ClnIps \in Nat /\ AddrRoom \in Nat /\ Start(g) >= ClnIps + AddrRoom
      BY <1>1, <1>4, <2>1, CaptureIs
    <2>3. \A k \in ClnIps .. ClnIps + AddrRoom - 1 : Cell(n, k)' = Cell(n, k)
      <3>1. \A k \in ClnIps .. ClnIps + AddrRoom - 1 : k \in 0 .. Start(g) - 1
        BY <1>1, <2>2
      <3> QED
        BY <3>1
    <2> QED
      BY <2>1, <2>2, <2>3, TextStays
  <1>5. ASSUME g > 6 PROVE c.srv_ips # Missing /\ Fills(n, SrvIps, AddrRoom + 1, c.srv_ips)'
    <2>1. c.srv_ips # Missing /\ Fills(n, SrvIps, AddrRoom + 1, c.srv_ips)
      BY <1>5 DEF CopiedUpTo
    <2>2. Len(c.srv_ips) \in Nat /\ SrvIps \in Nat /\ AddrRoom + 1 \in Nat /\ Start(g) >= SrvIps + (AddrRoom + 1)
      BY <1>1, <1>5, <2>1, CaptureIs
    <2>3. \A k \in SrvIps .. SrvIps + (AddrRoom + 1) - 1 : Cell(n, k)' = Cell(n, k)
      <3>1. \A k \in SrvIps .. SrvIps + (AddrRoom + 1) - 1 : k \in 0 .. Start(g) - 1
        BY <1>1, <2>2
      <3> QED
        BY <3>1
    <2> QED
      BY <2>1, <2>2, <2>3, TextStays
  <1>6. ASSUME g > 2 PROVE (Cell(n, Bursts) = Number(c.burst))'
    <2>1. Cell(n, Bursts)' = Cell(n, Bursts)
      BY <1>2, <1>6
    <2> QED
      BY <1>6, <2>1 DEF CopiedUpTo, Number
  <1>7. ASSUME g > 3 PROVE (Cell(n, Bursts + 1) = Number(c.fps))'
    <2>1. Cell(n, Bursts + 1)' = Cell(n, Bursts + 1)
      BY <1>2, <1>7
    <2> QED
      BY <1>7, <2>1 DEF CopiedUpTo, Number
  <1>8. ASSUME g > 4 PROVE (Cell(n, Bursts + 2) = Number(c.ipg))'
    <2>1. Cell(n, Bursts + 2)' = Cell(n, Bursts + 2)
      BY <1>2, <1>8
    <2> QED
      BY <1>8, <2>1 DEF CopiedUpTo, Number
  <1>9. ASSUME g > 7 PROVE (Cell(n, ClnPort) = Number(c.cln_port))'
    <2>1. Cell(n, ClnPort)' = Cell(n, ClnPort)
      BY <1>2, <1>9
    <2> QED
      BY <1>9, <2>1 DEF CopiedUpTo, Number
  <1>10. /\ g > 1 => (c.name # Missing)' /\ Fills(n, 0, NameRoom + 1, c.name)'
         /\ g > 5 => (c.cln_ips # Missing)' /\ Fills(n, ClnIps, AddrRoom, c.cln_ips)'
         /\ g > 6 => (c.srv_ips # Missing)' /\ Fills(n, SrvIps, AddrRoom + 1, c.srv_ips)'
    BY <1>3, <1>4, <1>5
  <1> QED
    BY <1>6, <1>7, <1>8, <1>9, <1>10 DEF CopiedUpTo

-----------------------------------------------------------------------------

(* What strcpy writes: into its field, and maybe on behind it.             *)
LEMMA TextEnds ==
  ASSUME NEW text \in Seq(STRING)
  PROVE  LET values == text \o <<NUL>>
         IN  /\ Len(values) = Len(text) + 1 /\ Len(text) \in Nat
             /\ \A k \in 1 .. Len(text) : values[k] = text[k]
             /\ values[Len(text) + 1] = NUL
  <1> DEFINE S == STRING \cup {NUL}
             end == <<NUL>>
  <1>1. text \in Seq(S) /\ end \in Seq(S) /\ Len(end) = 1 /\ end[1] = NUL /\ Len(text) \in Nat
    BY SeqMonotonic, STRING \subseteq S
  <1> HIDE DEF S, end
  <1>2. /\ Len(text \o end) = Len(text) + Len(end)
        /\ \A k \in 1 .. Len(text) + Len(end) :
             (text \o end)[k] = IF k <= Len(text) THEN text[k] ELSE end[k - Len(text)]
    BY <1>1, ConcatProperties, Zenon
  <1>3. /\ \A k \in 1 .. Len(text) : (text \o end)[k] = text[k]
        /\ (text \o end)[Len(text) + 1] = NUL
    BY <1>1, <1>2
  <1> QED
    BY <1>1, <1>2, <1>3 DEF end

LEMMA TextWritten ==
  ASSUME NEW n, NEW at \in Nat, NEW room \in Nat, NEW text \in Seq(STRING),
         \A c \in at .. at + room - 1 :
           c <= at + Len(text) => Cell(n, c)' = (text \o <<NUL>>)[c - at + 1]
  PROVE  Fills(n, at, room, text)'
  <1> DEFINE values == text \o <<NUL>>
  <1>1. /\ Len(text) \in Nat /\ values[Len(text) + 1] = NUL
        /\ \A k \in 1 .. Len(text) : values[k] = text[k]
    BY TextEnds
  <1>2. \A c \in at .. at + room - 1 : c <= at + Len(text) => Cell(n, c)' = values[c - at + 1]
    OBVIOUS
  <1> HIDE DEF values
  <1>3. ASSUME NEW k \in 1 .. room, k <= Len(text) PROVE Cell(n, at + k - 1)' = text[k]
    <2>1. /\ at + k - 1 \in at .. at + room - 1 /\ at + k - 1 <= at + Len(text)
          /\ (at + k - 1) - at + 1 = k /\ k \in 1 .. Len(text)
      BY <1>1, <1>3
    <2> QED
      BY <1>1, <1>2, <2>1
  <1>4. CASE Len(text) < room
    <2>1. /\ at + Len(text) \in at .. at + room - 1 /\ at + Len(text) <= at + Len(text)
          /\ (at + Len(text)) - at + 1 = Len(text) + 1
      BY <1>1, <1>4
    <2>2. Cell(n, at + Len(text))' = NUL
      BY <1>1, <1>2, <2>1
    <2>3. \A k \in 1 .. Len(text) : k \in 1 .. room /\ k <= Len(text)
      BY <1>1, <1>4
    <2>4. \A k \in 1 .. Len(text) : Cell(n, at + k - 1)' = text[k]
      BY <1>3, <2>3
    <2> QED
      BY <1>4, <2>2, <2>4 DEF Fills, TextAt
  <1>5. CASE ~ (Len(text) < room)
    <2>1. \A k \in 1 .. room : k <= Len(text)
      BY <1>1, <1>5
    <2>2. \A k \in 1 .. room : Cell(n, at + k - 1)' = text[k]
      BY <1>3, <2>1
    <2> QED
      BY <1>5, <2>2 DEF Fills
  <1> QED
    BY <1>4, <1>5

(* The fields one by one.                                                  *)
TextFields == {1, 5, 6}

\* The room that the layout leaves a text.
Room(g) == IF g = 1 THEN NameRoom + 1 ELSE IF g = 5 THEN AddrRoom ELSE AddrRoom + 1

LEMMA FieldsAre ==
  /\ Fields[1] = Name /\ Fields[2] = Burst /\ Fields[3] = Fps /\ Fields[4] = Ipg
  /\ Fields[5] = Cln /\ Fields[6] = Srv /\ Fields[7] = Port /\ Len(Fields) = 7
  <1> DEFINE all == <<Name, Burst, Fps, Ipg, Cln, Srv, Port>>
  <1> HIDE DEF Name, Burst, Fps, Ipg, Cln, Srv, Port
  <1> QED
    BY DEF Fields

LEMMA StoredIs ==
  ASSUME NEW g \in 1 .. 7, NEW value
  PROVE  /\ Fields[g].at = Start(g)
         /\ g \in TextFields => Fields[g].must /\ Stored(Fields[g], value) = value \o <<NUL>>
         /\ g \notin TextFields => Stored(Fields[g], value) = <<Number(value)>>
  <1>1. Fields[g].at = Start(g)
    BY DEF Start
  <1>2. /\ g \in TextFields => Fields[g].text = TRUE /\ Fields[g].must = TRUE
        /\ g \notin TextFields => Fields[g].text = FALSE
    BY FieldsAre DEF TextFields, Name, Burst, Fps, Ipg, Cln, Srv, Port
  <1> QED
    BY <1>1, <1>2 DEF Stored, Number

LEMMA KeysAre ==
  /\ Fields[1].key = "name" /\ Fields[2].key = "burst" /\ Fields[3].key = "fps"
  /\ Fields[4].key = "ipg" /\ Fields[5].key = "cln_ips" /\ Fields[6].key = "srv_ips"
  /\ Fields[7].key = "cln_port"
  BY FieldsAre DEF Name, Burst, Fps, Ipg, Cln, Srv, Port

(* How much a copy writes, and how much of it its field has room for.      *)
LEMMA CopyWrites ==
  ASSUME doc \in Documents, NEW n \in 1 .. Len(doc.items), NEW g \in 1 .. 7,
         g \in TextFields => doc.items[n][Fields[g].key] # Missing
  PROVE  LET value  == doc.items[n][Fields[g].key]
             values == Stored(Fields[g], value)
         IN  /\ g \in TextFields =>
                  /\ value \in Seq(STRING) /\ values = value \o <<NUL>>
                  /\ Len(values) = Len(value) + 1 /\ Len(value) \in Nat
                  /\ Room(g) \in Nat /\ Start(g) + Room(g) <= Size
             /\ g \notin TextFields => values = <<Number(value)>> /\ Len(values) = 1
             /\ Len(values) \in Nat /\ Start(g) \in 0 .. Size - 1
  <1> DEFINE value == doc.items[n][Fields[g].key]
             values == Stored(Fields[g], value)
  <1>1. Start(g) \in 0 .. Size - 1
    <2>1. \A x \in {0, Bursts, Bursts + 1, Bursts + 2, ClnIps, SrvIps, ClnPort} : x \in 0 .. Size - 1
      BY Layout
    <2>2. Start(g) \in {0, Bursts, Bursts + 1, Bursts + 2, ClnIps, SrvIps, ClnPort}
      BY Starts
    <2> QED
      BY <2>1, <2>2
  <1>2. ASSUME g \notin TextFields PROVE values = <<Number(value)>> /\ Len(values) = 1
    <2>1. values = <<Number(value)>>
      BY <1>2, StoredIs
    <2> HIDE DEF values, value
    <2> QED
      BY <2>1
  <1>3. ASSUME g \in TextFields
        PROVE  /\ value \in Seq(STRING) /\ values = value \o <<NUL>>
               /\ Len(values) = Len(value) + 1 /\ Len(value) \in Nat
               /\ Room(g) \in Nat /\ Start(g) + Room(g) <= Size
    <2>1. value \in Seq(STRING)
      BY <1>3, CaptureIs, KeysAre DEF TextFields
    <2>2. values = value \o <<NUL>>
      BY <1>3, StoredIs
    <2>3. Room(g) \in Nat /\ Start(g) + Room(g) <= Size
      <3>1. CASE g = 1
        BY <3>1, Starts, Layout DEF Room
      <3>2. CASE g = 5
        BY <3>2, Starts, Layout DEF Room
      <3>3. CASE g = 6
        BY <3>3, Starts, Layout DEF Room
      <3> QED
        BY <1>3, <3>1, <3>2, <3>3 DEF TextFields
    <2> HIDE DEF values, value
    <2> QED
      BY <2>1, <2>2, <2>3, TextEnds
  <1> HIDE DEF values, value
  <1>4. /\ g \in TextFields =>
             /\ value \in Seq(STRING) /\ values = value \o <<NUL>>
             /\ Len(values) = Len(value) + 1 /\ Len(value) \in Nat
             /\ Room(g) \in Nat /\ Start(g) + Room(g) <= Size
        /\ g \notin TextFields => values = <<Number(value)>> /\ Len(values) = 1
        /\ Len(values) \in Nat
    <2>1. CASE g \in TextFields
      BY <1>3, <2>1
    <2>2. CASE g \notin TextFields
      BY <1>2, <2>2
    <2> QED
      BY <2>1, <2>2
  <1> QED
    BY <1>1, <1>4 DEF values, value

(* One copy adds its field to what was copied, and takes nothing away of   *)
(* its own capture or of those before.                                     *)
LEMMA CopyOne ==
  ASSUME doc \in Documents, doc' = doc, Len(doc.items) \in Nat,
         DOMAIN captures = 1 .. Size * Len(doc.items),
         NEW n \in 1 .. Len(doc.items), NEW g \in 1 .. 7, CopiedUpTo(n, g),
         g \in TextFields => doc.items[n][Fields[g].key] # Missing,
         captures' = Write(captures, Place(n, Fields[g].at),
                           Stored(Fields[g], doc.items[n][Fields[g].key]))
  PROVE  /\ DOMAIN captures' = DOMAIN captures
         /\ \A m \in 1 .. Len(doc.items) : m < n /\ CopiedUpTo(m, 8) => CopiedUpTo(m, 8)'
         /\ CopiedUpTo(n, g + 1)'
  <1> DEFINE c == doc.items[n]
             value == doc.items[n][Fields[g].key]
             values == Stored(Fields[g], value)
             at == Start(g)
  <1>1. /\ g \in TextFields =>
             /\ value \in Seq(STRING) /\ values = value \o <<NUL>>
             /\ Len(values) = Len(value) + 1 /\ Len(value) \in Nat
             /\ Room(g) \in Nat /\ at + Room(g) <= Size
        /\ g \notin TextFields => values = <<Number(value)>> /\ Len(values) = 1
        /\ Len(values) \in Nat /\ at \in 0 .. Size - 1
    BY CopyWrites
  <1>2. /\ DOMAIN captures' = DOMAIN captures
        /\ \A m \in 1 .. Len(doc.items) : \A k \in 0 .. Size - 1 :
             /\ m < n => Cell(m, k)' = Cell(m, k)
             /\ m = n => Cell(m, k)' = IF k \in at .. at + Len(values) - 1
                                       THEN values[k - at + 1] ELSE Cell(m, k)
    <2>1. captures' = Write(captures, Place(n, at), values)
      BY StoredIs
    <2> HIDE DEF values, at
    <2> QED
      BY <1>1, <2>1, CellWritten
  <1>3. Size \in Nat /\ Start(8) = Size
    BY Layout, Starts
  <1>4. ASSUME NEW m \in 1 .. Len(doc.items), m < n, CopiedUpTo(m, 8)
        PROVE  CopiedUpTo(m, 8)'
    <2>1. \A k \in 0 .. Start(8) - 1 : Cell(m, k)' = Cell(m, k)
      BY <1>2, <1>3, <1>4
    <2> QED
      BY <1>4, <2>1, StillCopied
  <1>5. CopiedUpTo(n, g)'
    <2>1. \A k \in 0 .. at - 1 : Cell(n, k)' = Cell(n, k)
      <3> HIDE DEF values, at
      <3>1. \A k \in 0 .. at - 1 : k \in 0 .. Size - 1 /\ k \notin at .. at + Len(values) - 1
        <4>1. at \in 0 .. Size - 1 /\ Size \in Nat /\ Len(values) \in Nat
          BY <1>1, <1>3
        <4> QED
          BY <4>1
      <3>2. \A k \in 0 .. Size - 1 : Cell(n, k)' = IF k \in at .. at + Len(values) - 1
                                                THEN values[k - at + 1] ELSE Cell(n, k)
        BY <1>2
      <3> QED
        BY <3>1, <3>2, Zenon
    <2>2. g \in 1 .. 8 /\ CopiedUpTo(n, g) /\ doc \in Documents /\ doc' = doc
      OBVIOUS
    <2>3. \A k \in 0 .. Start(g) - 1 : Cell(n, k)' = Cell(n, k)
      BY <2>1
    <2> HIDE DEF values, at, value, c
    <2> QED
      BY <2>2, <2>3, StillCopied
  <1>6. g \in TextFields =>
          /\ value # Missing
          /\ \A k \in at .. at + Room(g) - 1 :
               k <= at + Len(value) => Cell(n, k)' = (value \o <<NUL>>)[k - at + 1]
    <2> SUFFICES ASSUME g \in TextFields
                 PROVE  /\ value # Missing
                        /\ \A k \in at .. at + Room(g) - 1 :
                             k <= at + Len(value) => Cell(n, k)' = (value \o <<NUL>>)[k - at + 1]
      OBVIOUS
    <2>1. value # Missing
      OBVIOUS
    <2> HIDE DEF value, values, at
    <2>2. ASSUME NEW k \in at .. at + Room(g) - 1, k <= at + Len(value)
          PROVE  Cell(n, k)' = (value \o <<NUL>>)[k - at + 1]
      <3>1. k \in 0 .. Size - 1 /\ k \in at .. at + Len(values) - 1
        <4>1. /\ at \in 0 .. Size - 1 /\ Room(g) \in Nat /\ at + Room(g) <= Size
              /\ Len(value) \in Nat /\ Len(values) = Len(value) + 1
          BY <1>1
        <4> QED
          BY <1>3, <2>2, <4>1
      <3>2. Cell(n, k)' = values[k - at + 1]
        BY <1>2, <3>1
      <3> QED
        BY <1>1, <3>2
    <2> QED
      BY <2>1, <2>2
  <1>7. ASSUME g \notin TextFields PROVE Cell(n, at)' = Number(value)
    <2> HIDE DEF value, values, at
    <2>0. at \in 0 .. Size - 1 /\ Len(values) = 1
      BY <1>1, <1>7
    <2>1. at \in 0 .. Size - 1 /\ at \in at .. at + Len(values) - 1 /\ at - at + 1 = 1
      BY <1>3, <2>0
    <2>2. Cell(n, at)' = values[at - at + 1]
      BY <1>2, <2>1
    <2> QED
      BY <1>1, <1>7, <2>1, <2>2
  <1>8. CopiedUpTo(n, g + 1)'
    <2> USE KeysAre, Starts DEF TextFields
    <2>1. CASE g = 1
      <3>1. c.name # Missing /\ Fills(n, 0, NameRoom + 1, c.name)'
        BY <1>1, <1>6, <2>1, TextWritten DEF Room
      <3> QED
        BY <1>5, <2>1, <3>1 DEF CopiedUpTo
    <2>2. CASE g = 2
      BY <1>5, <1>7, <2>2 DEF CopiedUpTo, Number
    <2>3. CASE g = 3
      BY <1>5, <1>7, <2>3 DEF CopiedUpTo, Number
    <2>4. CASE g = 4
      BY <1>5, <1>7, <2>4 DEF CopiedUpTo, Number
    <2>5. CASE g = 5
      <3>1. c.cln_ips # Missing /\ Fills(n, ClnIps, AddrRoom, c.cln_ips)'
        BY <1>1, <1>6, <2>5, Layout, TextWritten DEF Room
      <3>2. /\ c.name # Missing /\ Fills(n, 0, NameRoom + 1, c.name)'
            /\ (Cell(n, Bursts) = Number(c.burst))'
            /\ (Cell(n, Bursts + 1) = Number(c.fps))'
            /\ (Cell(n, Bursts + 2) = Number(c.ipg))'
        BY <1>5, <2>5 DEF CopiedUpTo
      <3>3. CopiedUpTo(n, 6)'
        BY <3>1, <3>2 DEF CopiedUpTo
      <3> QED
        BY <2>5, <3>3
    <2>6. CASE g = 6
      <3>1. c.srv_ips # Missing /\ Fills(n, SrvIps, AddrRoom + 1, c.srv_ips)'
        BY <1>1, <1>6, <2>6, Layout, TextWritten DEF Room
      <3> QED
        BY <1>5, <2>6, <3>1 DEF CopiedUpTo
    <2>7. CASE g = 7
      BY <1>5, <1>7, <2>7 DEF CopiedUpTo, Number
    <2> QED
      BY <2>1, <2>2, <2>3, <2>4, <2>5, <2>6, <2>7
  <1> QED
    BY <1>2, <1>4, <1>8

-----------------------------------------------------------------------------

(* A text is read to its end, and no further,                              *)
LEMMA ReadsText ==
  ASSUME Len(doc.items) \in Nat, DOMAIN captures = 1 .. Size * Len(doc.items),
         NEW n \in 1 .. Len(doc.items), NEW at \in Nat, NEW stop \in 0 .. Size - 1,
         NEW text \in Seq(STRING), at + Len(text) < stop, TextAt(n, at, text)
  PROVE  ReadText(n, at, stop) = text
  <1> DEFINE from == Place(n, at)
             to == Place(n, stop)
             K == {k \in from .. to - 1 : captures[k] = NUL}
             end == from + Len(text)
  <1>1. /\ Size \in Nat /\ Len(text) \in Nat /\ at \in 0 .. Size - 1
        /\ at + Len(text) \in 0 .. Size - 1
    BY Layout
  <1>2. \A k \in 0 .. Len(text) : Place(n, at + k) = from + k
    BY <1>1 DEF Place
  <1>3. /\ from \in Int /\ to \in Int /\ end \in from .. to - 1
        /\ end \in DOMAIN captures
    <2>1. from \in Int
      BY <1>1, PlaceInside
    <2>2. Place(n, at + Len(text)) \in DOMAIN captures /\ to \in DOMAIN captures
      BY <1>1, PlaceInside
    <2>3. Place(n, at + Len(text)) = end
      BY <1>1, <1>2
    <2>4. to = from + (stop - at)
      BY <1>1 DEF Place
    <2> HIDE DEF from, to
    <2> QED
      BY <1>1, <2>1, <2>2, <2>3, <2>4
  <1>4. captures[end] = NUL
    <2>1. Place(n, at + Len(text)) = end
      BY <1>1, <1>2
    <2> QED
      BY <2>1 DEF TextAt, Cell
  <1>5. ASSUME NEW j \in 1 .. Len(text)
        PROVE  captures[from + j - 1] = text[j] /\ text[j] \in STRING
    <2>1. j - 1 \in 0 .. Len(text)
      BY <1>1
    <2>2. Place(n, at + (j - 1)) = from + (j - 1)
      BY <1>2, <2>1
    <2>3. at + j - 1 = at + (j - 1) /\ from + j - 1 = from + (j - 1)
      BY <1>1, <1>3, <2>1
    <2>4. captures[Place(n, at + j - 1)] = text[j]
      BY DEF TextAt, Cell
    <2>5. text[j] \in STRING
      BY ElementOfSeq
    <2> QED
      BY <2>2, <2>3, <2>4, <2>5
  <1>0. ReadText(n, at, stop) = IF K = {} THEN Garbled ELSE SubSeq(captures, from, Min(K) - 1)
    BY DEF ReadText
  <1> HIDE DEF from, to
  <1>6. end \in K /\ \A k \in K : end <= k
    <2>1. end \in K
      BY <1>3, <1>4
    <2>2. ASSUME NEW k \in K, k < end PROVE FALSE
      <3>1. k \in Int /\ k >= from /\ captures[k] = NUL
        BY <1>3
      <3> DEFINE j == k - from + 1
      <3>2. j \in 1 .. Len(text) /\ from + j - 1 = k
        BY <1>1, <1>3, <2>2, <3>1
      <3> HIDE DEF j
      <3>3. captures[k] \in STRING
        BY <1>5, <3>2
      <3> QED
        BY <3>1, <3>3, DocumentsAssumption DEF DocumentsAssumption
    <2>3. \A k \in K : k \in Int
      BY <1>3
    <2> QED
      BY <1>1, <1>3, <2>1, <2>2, <2>3
  <1>7. Min(K) = end
    <2>1. K \subseteq Int
      BY <1>3
    <2> HIDE DEF K, end
    <2>2. Min(K) \in K /\ \A y \in K : Min(K) <= y
      BY <1>6 DEF Min
    <2>3. Min(K) \in Int /\ end \in Int
      BY <1>6, <2>1, <2>2
    <2>4. Min(K) <= end /\ end <= Min(K)
      BY <1>6, <2>2
    <2> QED
      BY <2>3, <2>4
  <1>8. ReadText(n, at, stop) = SubSeq(captures, from, end - 1)
    <2> HIDE DEF K, end
    <2> QED
      BY <1>0, <1>6, <1>7
  <1>9. /\ SubSeq(captures, from, end - 1) \in Seq(STRING)
        /\ Len(SubSeq(captures, from, end - 1)) = Len(text)
        /\ \A j \in 1 .. Len(text) : SubSeq(captures, from, end - 1)[j] = text[j]
    <2>1. from \in Int /\ end - 1 \in Int /\ end - 1 - from + 1 = Len(text)
      BY <1>1, <1>3
    <2>2. \A k \in from .. end - 1 : captures[k] \in STRING
      <3> SUFFICES ASSUME NEW k \in from .. end - 1 PROVE captures[k] \in STRING
        OBVIOUS
      <3> DEFINE j == k - from + 1
      <3>1. j \in 1 .. Len(text) /\ from + j - 1 = k
        BY <1>1, <1>3
      <3> HIDE DEF j
      <3> QED
        BY <1>5, <3>1
    <2> DEFINE last == end - 1
               read == SubSeq(captures, from, last)
    <2>3. last \in Int /\ last - from + 1 = Len(text) /\ (from <= last <=> Len(text) > 0)
      BY <1>1, <1>3, <2>1
    <2>4. \A k \in from .. last : captures[k] \in STRING
      BY <2>2
    <2> HIDE DEF last
    <2>5. /\ read \in Seq(STRING)
          /\ Len(read) = IF from <= last THEN last - from + 1 ELSE 0
          /\ \A j \in 1 .. last - from + 1 : read[j] = captures[from + j - 1]
      BY <2>1, <2>3, <2>4, SubSeqProperties
    <2> HIDE DEF read
    <2>6. Len(read) = Len(text)
      BY <1>1, <2>3, <2>5
    <2>7. \A j \in 1 .. Len(text) : read[j] = text[j]
      BY <1>5, <2>3, <2>5
    <2> QED
      BY <2>5, <2>6, <2>7 DEF read, last
  <1>10. SubSeq(captures, from, end - 1) = text
    BY <1>9, SeqEqual, Zenon
  <1> QED
    BY <1>8, <1>10

(* and one that has no end before the next number runs on into it.         *)
LEMMA ReadsOn ==
  ASSUME Len(doc.items) \in Nat, NEW n \in 1 .. Len(doc.items),
         NEW at \in Nat, NEW stop \in 0 .. Size - 1,
         \A c \in at .. stop - 1 : Cell(n, c) \in STRING
  PROVE  ReadText(n, at, stop) = Garbled
  <1> DEFINE from == Place(n, at)
             to == Place(n, stop)
             row == (n - 1) * Size
  <1>1. row \in Nat /\ from = row + at + 1 /\ to = row + stop + 1
    BY Layout DEF Place
  <1>2. ASSUME NEW k \in from .. to - 1 PROVE captures[k] # NUL
    <2> DEFINE c == k - row - 1
    <2>0. \A x : Place(n, x) = row + x + 1
      BY DEF Place
    <2> HIDE DEF row, from, to
    <2>1. c \in at .. stop - 1 /\ row + c + 1 = k
      BY <1>1, <1>2
    <2> HIDE DEF c
    <2>2. captures[k] \in STRING
      BY <2>0, <2>1 DEF Cell
    <2> QED
      BY <2>2, DocumentsAssumption DEF DocumentsAssumption
  <1>3. {k \in from .. to - 1 : captures[k] = NUL} = {}
    BY <1>2
  <1> QED
    BY <1>3 DEF ReadText

(* A field that is filled holds nothing but text.                          *)
LEMMA FilledCells ==
  ASSUME NEW n, NEW at \in Nat, NEW room \in Nat, NEW text \in Seq(STRING),
         Fills(n, at, room, text), Len(text) >= room
  PROVE  \A c \in at .. at + room - 1 : Cell(n, c) \in STRING
  <1> SUFFICES ASSUME NEW c \in at .. at + room - 1 PROVE Cell(n, c) \in STRING
    OBVIOUS
  <1>1. Len(text) \in Nat
    OBVIOUS
  <1>2. \A k \in 1 .. room : Cell(n, at + k - 1) = text[k]
    BY <1>1 DEF Fills
  <1> DEFINE j == c - at + 1
  <1>3. j \in 1 .. room /\ j \in 1 .. Len(text) /\ at + j - 1 = c
    BY <1>1
  <1> HIDE DEF j
  <1>4. text[j] \in STRING
    BY <1>3, ElementOfSeq
  <1> QED
    BY <1>2, <1>3, <1>4

(* An address that fills its field runs on into the next.                  *)
LEMMA RunsOn ==
  ASSUME NEW n, NEW one \in Seq(STRING), NEW two \in Seq(STRING), Len(one) >= AddrRoom,
         \A k \in 1 .. AddrRoom : Cell(n, ClnIps + k - 1) = one[k],
         TextAt(n, SrvIps, two)
  PROVE  LET text == SubSeq(one, 1, AddrRoom) \o two
         IN  /\ text \in Seq(STRING) /\ Len(text) = AddrRoom + Len(two) /\ Len(two) \in Nat
             /\ TextAt(n, ClnIps, text)
  <1> DEFINE first == SubSeq(one, 1, AddrRoom)
             text == first \o two
  <1>1. /\ AddrRoom \in Nat /\ AddrRoom > 0 /\ ClnIps \in Nat /\ SrvIps = ClnIps + AddrRoom
        /\ Len(one) \in Nat /\ Len(two) \in Nat
    BY Layout
  <1>2. /\ first \in Seq(STRING) /\ Len(first) = AddrRoom
        /\ \A k \in 1 .. AddrRoom : first[k] = one[k]
    <2>1. \A k \in 1 .. AddrRoom : one[k] \in STRING
      <3>1. \A k \in 1 .. AddrRoom : k \in 1 .. Len(one)
        BY <1>1
      <3> QED
        BY <3>1, ElementOfSeq
    <2>2. 1 \in Int /\ AddrRoom \in Int /\ 1 <= AddrRoom /\ AddrRoom - 1 + 1 = AddrRoom
      BY <1>1
    <2>3. /\ first \in Seq(STRING)
          /\ Len(first) = IF 1 <= AddrRoom THEN AddrRoom - 1 + 1 ELSE 0
          /\ \A k \in 1 .. AddrRoom - 1 + 1 : first[k] = one[1 + k - 1]
      BY <2>1, <2>2, SubSeqProperties
    <2> HIDE DEF first
    <2> QED
      BY <2>2, <2>3
  <1> HIDE DEF first
  <1>3. /\ text \in Seq(STRING) /\ Len(text) = Len(first) + Len(two)
        /\ \A k \in 1 .. Len(first) + Len(two) :
             text[k] = IF k <= Len(first) THEN first[k] ELSE two[k - Len(first)]
    BY <1>2, ConcatProperties, Zenon
  <1> HIDE DEF text
  <1>4. Len(text) = AddrRoom + Len(two)
    BY <1>2, <1>3
  <1>5. ASSUME NEW k \in 1 .. Len(text) PROVE Cell(n, ClnIps + k - 1) = text[k]
    <2>1. k \in 1 .. Len(first) + Len(two) /\ k \in Int
      BY <1>1, <1>2, <1>4
    <2>2. CASE k <= AddrRoom
      <3>1. k \in 1 .. AddrRoom /\ text[k] = first[k]
        BY <1>2, <1>3, <2>1, <2>2
      <3> QED
        BY <1>2, <3>1
    <2>3. CASE ~ (k <= AddrRoom)
      <3> DEFINE j == k - AddrRoom
      <3>1. j \in 1 .. Len(two) /\ ClnIps + k - 1 = SrvIps + j - 1
        BY <1>1, <1>2, <2>1, <2>3
      <3>2. text[k] = two[j]
        BY <1>2, <1>3, <2>1, <2>3
      <3> HIDE DEF j
      <3>3. Cell(n, SrvIps + j - 1) = two[j]
        BY <3>1 DEF TextAt
      <3> QED
        BY <3>1, <3>2, <3>3
    <2> QED
      BY <2>2, <2>3
  <1>6. Cell(n, ClnIps + Len(text)) = NUL
    <2>1. ClnIps + Len(text) = SrvIps + Len(two)
      BY <1>1, <1>4
    <2> QED
      BY <2>1 DEF TextAt
  <1>7. TextAt(n, ClnIps, text)
    BY <1>5, <1>6 DEF TextAt
  <1> QED
    BY <1>1, <1>3, <1>4, <1>7 DEF text, first

(* What is printed of a capture that was copied.                           *)
LEMMA PrintsCapture ==
  ASSUME doc \in Documents, Len(doc.items) \in Nat,
         DOMAIN captures = 1 .. Size * Len(doc.items),
         NEW n \in 1 .. Len(doc.items), CopiedUpTo(n, 8)
  PROVE  Printed(n) = AsWritten(doc.items[n]) /\ Printed(n) \in Entry
  <1> DEFINE c == doc.items[n]
             name == ReadText(n, 0, Bursts)
             cln == ReadText(n, ClnIps, ClnPort)
             srv == ReadText(n, SrvIps, ClnPort)
  <1>1. /\ c.name \in Seq(STRING) /\ Len(c.name) \in Nat /\ Fills(n, 0, NameRoom + 1, c.name)
        /\ c.cln_ips \in Seq(STRING) /\ Len(c.cln_ips) \in Nat
        /\ Fills(n, ClnIps, AddrRoom, c.cln_ips)
        /\ c.srv_ips \in Seq(STRING) /\ Len(c.srv_ips) \in Nat
        /\ Fills(n, SrvIps, AddrRoom + 1, c.srv_ips)
    <2>1. /\ c.name # Missing /\ c.cln_ips # Missing /\ c.srv_ips # Missing
          /\ Fills(n, 0, NameRoom + 1, c.name) /\ Fills(n, ClnIps, AddrRoom, c.cln_ips)
          /\ Fills(n, SrvIps, AddrRoom + 1, c.srv_ips)
      BY DEF CopiedUpTo
    <2>2. /\ c.name # Missing => c.name \in Seq(STRING) /\ Len(c.name) \in Nat
          /\ c.cln_ips # Missing => c.cln_ips \in Seq(STRING) /\ Len(c.cln_ips) \in Nat
          /\ c.srv_ips # Missing => c.srv_ips \in Seq(STRING) /\ Len(c.srv_ips) \in Nat
      BY CaptureIs
    <2> HIDE DEF c
    <2> QED
      BY <2>1, <2>2
  <1>2. /\ captures[Place(n, Bursts)] = Number(c.burst)
        /\ captures[Place(n, Bursts + 1)] = Number(c.fps)
        /\ captures[Place(n, Bursts + 2)] = Number(c.ipg)
        /\ captures[Place(n, ClnPort)] = Number(c.cln_port)
    BY DEF CopiedUpTo, Cell
  <1>3. /\ Number(c.burst) \in Nat /\ Number(c.fps) \in Nat /\ Number(c.ipg) \in Nat
        /\ Number(c.cln_port) \in Nat
    <2>1. c \in Capture
      BY DocumentsAssumption DEF DocumentsAssumption
    <2> QED
      BY <2>1 DEF Capture, Scalar, Number
  <1> HIDE DEF c
  <1>4. /\ NameRoom \in Nat /\ AddrRoom \in Nat /\ ClnIps \in Nat /\ SrvIps \in Nat /\ Size \in Nat
        /\ Bursts = 0 + (NameRoom + 1) /\ Bursts \in 0 .. Size - 1
        /\ ClnPort = SrvIps + (AddrRoom + 1) /\ ClnPort \in 0 .. Size - 1
        /\ SrvIps = ClnIps + AddrRoom
    BY Layout
  <1>4a. \A x \in Nat : x <= AddrRoom => SrvIps + x < ClnPort /\ ClnIps + (AddrRoom + x) < ClnPort
    BY <1>4
  <1>4b. /\ NameRoom \in Nat /\ AddrRoom \in Nat
         /\ Len(c.name) \in Nat /\ Len(c.cln_ips) \in Nat /\ Len(c.srv_ips) \in Nat
    BY <1>1, <1>4
  <1>5. name = Kept(c.name, NameRoom) /\ name \in Shown
    <2>1. CASE Len(c.name) <= NameRoom
      <3>1. Len(c.name) < NameRoom + 1 /\ 0 + Len(c.name) < Bursts
        BY <1>1, <1>4, <2>1
      <3>2. TextAt(n, 0, c.name)
        BY <1>1, <3>1 DEF Fills
      <3>3. name = c.name
        BY <1>1, <1>4, <3>1, <3>2, ReadsText
      <3> HIDE DEF name
      <3> QED
        BY <1>1, <2>1, <3>3 DEF Kept, Shown
    <2>2. CASE ~ (Len(c.name) <= NameRoom)
      <3>1. Len(c.name) >= NameRoom + 1 /\ 0 \in Nat /\ NameRoom + 1 \in Nat
        BY <1>4b, <2>2
      <3>2. \A x \in 0 .. 0 + (NameRoom + 1) - 1 : Cell(n, x) \in STRING
        BY <1>1, <3>1, FilledCells
      <3>3. name = Garbled
        BY <1>4, <3>2, ReadsOn
      <3> HIDE DEF name
      <3> QED
        BY <2>2, <3>3 DEF Kept, Shown
    <2> QED
      BY <2>1, <2>2
  <1>6. ASSUME Len(c.srv_ips) <= AddrRoom PROVE TextAt(n, SrvIps, c.srv_ips)
    <2>1. Len(c.srv_ips) < AddrRoom + 1
      BY <1>4b, <1>6
    <2> QED
      BY <1>1, <2>1 DEF Fills
  <1>7. ASSUME ~ (Len(c.srv_ips) <= AddrRoom)
        PROVE  \A x \in SrvIps .. ClnPort - 1 : Cell(n, x) \in STRING
    <2>1. Len(c.srv_ips) >= AddrRoom + 1 /\ AddrRoom + 1 \in Nat
      BY <1>4b, <1>7
    <2>2. \A x \in SrvIps .. SrvIps + (AddrRoom + 1) - 1 : Cell(n, x) \in STRING
      BY <1>1, <1>4, <2>1, FilledCells
    <2> QED
      BY <1>4, <2>2
  <1>8. srv = Kept(c.srv_ips, AddrRoom) /\ srv \in Shown
    <2>1. CASE Len(c.srv_ips) <= AddrRoom
      <3>1. SrvIps + Len(c.srv_ips) < ClnPort
        BY <1>4a, <1>4b, <2>1
      <3>2. srv = c.srv_ips
        BY <1>1, <1>4, <1>6, <2>1, <3>1, ReadsText
      <3> HIDE DEF srv
      <3> QED
        BY <1>1, <2>1, <3>2 DEF Kept, Shown
    <2>2. CASE ~ (Len(c.srv_ips) <= AddrRoom)
      <3>1. srv = Garbled
        BY <1>4, <1>7, <2>2, ReadsOn
      <3> HIDE DEF srv
      <3> QED
        BY <2>2, <3>1 DEF Kept, Shown
    <2> QED
      BY <2>1, <2>2
  <1>9. /\ cln = IF Len(c.cln_ips) < AddrRoom THEN c.cln_ips
                 ELSE IF Len(c.srv_ips) <= AddrRoom
                 THEN SubSeq(c.cln_ips, 1, AddrRoom) \o c.srv_ips
                 ELSE Garbled
        /\ cln \in Shown
    <2>1. CASE Len(c.cln_ips) < AddrRoom
      <3>1. ClnIps + Len(c.cln_ips) < ClnPort
        BY <1>1, <1>4, <2>1
      <3>2. TextAt(n, ClnIps, c.cln_ips)
        BY <1>1, <2>1 DEF Fills
      <3>3. cln = c.cln_ips
        BY <1>1, <1>4, <3>1, <3>2, ReadsText
      <3> HIDE DEF cln
      <3> QED
        BY <1>1, <2>1, <3>3 DEF Shown
    <2>2. CASE ~ (Len(c.cln_ips) < AddrRoom) /\ Len(c.srv_ips) <= AddrRoom
      <3> DEFINE text == SubSeq(c.cln_ips, 1, AddrRoom) \o c.srv_ips
      <3>0. Len(c.cln_ips) >= AddrRoom
        BY <1>4b, <2>2
      <3>1. /\ Len(c.cln_ips) >= AddrRoom
            /\ \A k \in 1 .. AddrRoom : Cell(n, ClnIps + k - 1) = c.cln_ips[k]
        BY <1>1, <1>4, <3>0 DEF Fills
      <3>2. /\ text \in Seq(STRING) /\ Len(text) = AddrRoom + Len(c.srv_ips)
            /\ TextAt(n, ClnIps, text)
        BY <1>1, <1>6, <2>2, <3>1, RunsOn
      <3> HIDE DEF text
      <3>3. ClnIps + Len(text) < ClnPort
        BY <1>4a, <1>4b, <2>2, <3>2
      <3>4. cln = text
        BY <1>4, <3>2, <3>3, ReadsText
      <3> HIDE DEF cln
      <3> QED
        BY <2>2, <3>2, <3>4 DEF text, Shown
    <2>3. CASE ~ (Len(c.cln_ips) < AddrRoom) /\ ~ (Len(c.srv_ips) <= AddrRoom)
      <3>1. Len(c.cln_ips) >= AddrRoom
        BY <1>4b, <2>3
      <3>2. \A x \in ClnIps .. ClnIps + AddrRoom - 1 : Cell(n, x) \in STRING
        BY <1>1, <1>4, <3>1, FilledCells
      <3>3. ASSUME NEW x \in ClnIps .. ClnPort - 1 PROVE Cell(n, x) \in STRING
        <4>1. x \in ClnIps .. ClnIps + AddrRoom - 1 \/ x \in SrvIps .. ClnPort - 1
          BY <1>4
        <4> QED
          BY <1>7, <2>3, <3>2, <4>1
      <3>4. cln = Garbled
        BY <1>4, <3>3, ReadsOn
      <3> HIDE DEF cln
      <3> QED
        BY <2>3, <3>4 DEF Shown
    <2> QED
      BY <2>1, <2>2, <2>3
  <1>10. Printed(n) = [name |-> name, burst |-> Number(c.burst), fps |-> Number(c.fps),
                       ipg |-> Number(c.ipg), cln_ips |-> cln, srv_ips |-> srv,
                       cln_port |-> Number(c.cln_port)]
    BY <1>2 DEF Printed
  <1> HIDE DEF name, cln, srv
  <1>11. Printed(n) = AsWritten(c)
    BY <1>5, <1>8, <1>9, <1>10 DEF AsWritten
  <1>12. Printed(n) \in Entry
    BY <1>3, <1>5, <1>8, <1>9, <1>10 DEF Entry
  <1> QED
    BY <1>11, <1>12 DEF c

LEMMA PrintedStep ==
  ASSUME CopyInv, ArrayInv, PrintedInv, Describe
  PROVE  ArrayInv' /\ PrintedInv'
  <1>1. /\ doc \in Documents /\ doc' = doc /\ doc.items \in Seq(Capture) /\ Len(doc.items) \in Nat
        /\ DOMAIN doc.items = 1 .. Len(doc.items)
        /\ i \in Nat \ {0} /\ f \in 1 .. 7
    BY DocumentsAssumption
    DEF CopyInv, DocumentsAssumption, Describe, Scan, CopyField, CopyDone, PrintCfg
  <1>2. ASSUME printed' = printed, pc' \in {"scan", "copy"} => pc \in {"scan", "copy"},
               pc' = "print" => printed = <<>> /\ i' = 1
        PROVE  PrintedInv'
    BY <1>1, <1>2 DEF PrintedInv, PrintedAsWritten
  <1>3. CASE Scan
    <2>1. /\ pc = "scan" /\ pc' \in {"copy", "rejected", "undef"} /\ i' = 1 /\ f' = 1 /\ printed' = printed
          /\ pc' = "copy" => DOMAIN captures' = 1 .. Size * Len(doc.items)
      BY <1>3 DEF Scan, ArrayInv
    <2>2. CopiedUpTo(1, 1)'
      BY DEF CopiedUpTo
    <2>3. ArrayInv'
      BY <1>1, <2>1, <2>2 DEF ArrayInv
    <2> QED
      BY <1>2, <2>1, <2>3
  <1>4. CASE CopyField
    <2> DEFINE value == doc.items[i][Fields[f].key]
    <2>1. /\ pc = "copy" /\ i \in 1 .. Len(doc.items) /\ printed' = printed
          /\ \/ pc' \in {"crashed", "undef"}
             \/ /\ ~ (value = Missing /\ Fields[f].must)
                /\ captures' = Write(captures, Place(i, Fields[f].at), Stored(Fields[f], value))
                /\ f' = IF f = 7 THEN 1 ELSE f + 1
                /\ i' = IF f = 7 THEN i + 1 ELSE i
                /\ pc' = "copy"
      BY <1>1, <1>4, FieldsAre DEF CopyField
    <2>2. PrintedInv'
      BY <1>2, <2>1
    <2>3. CASE pc' \in {"crashed", "undef"}
      BY <2>2, <2>3 DEF ArrayInv
    <2>4. CASE pc' = "copy"
      <3>1. PICK n \in 1 .. Len(doc.items), g \in 1 .. 7 : n = i /\ g = f
        BY <1>1, <2>1
      <3>2. g \in TextFields => doc.items[n][Fields[g].key] # Missing
        BY <2>1, <2>4, <3>1, StoredIs
      <3>3. /\ DOMAIN captures = 1 .. Size * Len(doc.items) /\ CopiedUpTo(n, g)
            /\ \A m \in 1 .. Len(doc.items) : m < n => CopiedUpTo(m, 8)
        BY <1>1, <2>1, <3>1 DEF ArrayInv
      <3>4. captures' = Write(captures, Place(n, Fields[g].at),
                              Stored(Fields[g], doc.items[n][Fields[g].key]))
        BY <2>1, <2>4, <3>1
      <3>5. /\ DOMAIN captures' = DOMAIN captures
            /\ \A m \in 1 .. Len(doc.items) : m < n /\ CopiedUpTo(m, 8) => CopiedUpTo(m, 8)'
            /\ CopiedUpTo(n, g + 1)'
        BY <1>1, <3>2, <3>3, <3>4, CopyOne
      <3>6. /\ DOMAIN captures' = 1 .. Size * Len(doc.items) /\ pc' = "copy"
            /\ \A m \in 1 .. Len(doc.items) : m < n => CopiedUpTo(m, 8)'
        BY <1>1, <2>1, <2>4, <3>3, <3>5
      <3>7. CASE g = 7
        <4>1. i' = n + 1 /\ f' = 1 /\ CopiedUpTo(n, 8)'
          BY <2>1, <2>4, <3>1, <3>5, <3>7
        <4>2. \A m \in 1 .. Len(doc.items) : m < i' => CopiedUpTo(m, 8)'
          BY <1>1, <3>6, <4>1
        <4>3. CopiedUpTo(n + 1, 1)'
          BY DEF CopiedUpTo
        <4> QED
          BY <1>1, <2>2, <3>6, <4>1, <4>2, <4>3 DEF ArrayInv
      <3>8. CASE g # 7
        <4>1. i' = n /\ f' = g + 1
          BY <2>1, <2>4, <3>1, <3>8
        <4> QED
          BY <1>1, <2>2, <3>5, <3>6, <4>1 DEF ArrayInv
      <3> QED
        BY <3>7, <3>8
    <2> QED
      BY <2>1, <2>2, <2>3, <2>4
  <1>5. CASE CopyDone
    <2>1. /\ pc = "copy" /\ i > Len(doc.items) /\ pc' = "print" /\ i' = 1
          /\ UNCHANGED <<doc, captures, printed, f>>
      BY <1>5 DEF CopyDone
    <2>2. /\ DOMAIN captures = 1 .. Size * Len(doc.items) /\ printed = <<>>
          /\ \A n \in 1 .. Len(doc.items) : CopiedUpTo(n, 8)
      BY <1>1, <2>1 DEF ArrayInv, PrintedInv
    <2>3. ASSUME NEW n \in 1 .. Len(doc.items) PROVE CopiedUpTo(n, 8)'
      <3>1. \A c \in 0 .. Start(8) - 1 : Cell(n, c)' = Cell(n, c)
        BY <2>1 DEF Cell
      <3>2. CopiedUpTo(n, 8) /\ 8 \in 1 .. 8 /\ doc \in Documents /\ doc' = doc
        BY <1>1, <2>1, <2>2
      <3> QED
        BY <3>1, <3>2, StillCopied
    <2> QED
      BY <1>1, <1>2, <2>1, <2>2, <2>3 DEF ArrayInv
  <1>6. CASE PrintCfg
    <2>1. pc = "print" /\ UNCHANGED <<doc, captures, f>>
      BY <1>6 DEF PrintCfg
    <2>2. /\ DOMAIN captures = 1 .. Size * Len(doc.items) /\ Len(printed) = i - 1
          /\ \A n \in 1 .. Len(doc.items) : CopiedUpTo(n, 8)
          /\ printed \in Seq(Entry) /\ PrintedAsWritten
      BY <1>1, <2>1 DEF ArrayInv, PrintedInv
    <2>3. ASSUME NEW n \in 1 .. Len(doc.items) PROVE CopiedUpTo(n, 8)'
      <3>1. \A c \in 0 .. Start(8) - 1 : Cell(n, c)' = Cell(n, c)
        BY <2>1 DEF Cell
      <3>2. CopiedUpTo(n, 8) /\ 8 \in 1 .. 8 /\ doc \in Documents /\ doc' = doc
        BY <1>1, <2>1, <2>2
      <3> QED
        BY <3>1, <3>2, StillCopied
    <2>4. ArrayInv'
      BY <1>1, <1>6, <2>1, <2>2, <2>3 DEF ArrayInv, PrintCfg
    <2>5. CASE pc' # "print"
      BY <1>2, <1>6, <2>1, <2>4, <2>5 DEF PrintCfg
    <2>6. CASE pc' = "print"
      <3> DEFINE x == IF i <= Len(doc.items) THEN Printed(i) ELSE Junk
      <3>1. printed' = Append(printed, x) /\ i' = i + 1
        BY <1>6, <2>6 DEF PrintCfg
      <3>2. /\ x \in Entry
            /\ i <= Len(doc.items) => x = AsWritten(doc.items[i])
        <4>1. CASE i <= Len(doc.items)
          <5>1. i \in 1 .. Len(doc.items) /\ CopiedUpTo(i, 8)
            BY <1>1, <2>2, <4>1
          <5> QED
            BY <1>1, <2>2, <4>1, <5>1, PrintsCapture
        <4>2. CASE ~ (i <= Len(doc.items))
          BY <4>2 DEF Entry
        <4> QED
          BY <4>1, <4>2
      <3> HIDE DEF x
      <3>3. /\ printed' \in Seq(Entry) /\ Len(printed') = i
            /\ \A n \in 1 .. i - 1 : printed'[n] = printed[n]
            /\ printed'[i] = x
        BY <1>1, <2>2, <3>1, <3>2, AppendProperties
      <3>4. PrintedAsWritten'
        BY <1>1, <2>2, <3>2, <3>3 DEF PrintedAsWritten
      <3> QED
        BY <1>1, <2>4, <2>6, <3>1, <3>3, <3>4 DEF PrintedInv
    <2> QED
      BY <2>5, <2>6
  <1> QED
    BY <1>3, <1>4, <1>5, <1>6 DEF Describe

(* What is printed of a capture is what the file says of it, for every     *)
(* width of the fields, every number of captures and every length of their *)
(* texts, but for those that run on: gen_config.c:37-70.  A copy never     *)
(* reaches a place before its own, so that of all that a text too long for *)
(* its field is written over nothing was there yet.                        *)
THEOREM PrintsAsWritten == Spec => []PrintedAsWritten
  <1> DEFINE Whole == ArrayInv /\ PrintedInv
  <1>1. Init => Whole
    BY DEF Init, DescribeInit, ArrayInv, PrintedInv, PrintedAsWritten
  <1>2. IInv /\ Whole /\ [Next]_<<describing, preparing>> => Whole'
    <2> SUFFICES ASSUME IInv, Whole, [Next]_<<describing, preparing>> PROVE Whole'
      OBVIOUS
    <2>1. CASE Describe
      BY <2>1, PrintedStep DEF IInv
    <2>2. CASE UNCHANGED describing
      BY <2>2 DEF describing, ArrayInv, PrintedInv, PrintedAsWritten, CopiedUpTo, Fills, TextAt, Cell
    <2> QED
      BY <2>1, <2>2 DEF Next
  <1>3. Whole => PrintedAsWritten
    BY DEF PrintedInv
  <1> HIDE DEF Whole
  <1> QED
    BY <1>1, <1>2, <1>3, Inductive, PTL DEF Spec

=============================================================================
