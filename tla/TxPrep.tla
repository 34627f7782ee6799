------------------------------- MODULE TxPrep -------------------------------
(***************************************************************************)
(* Checksums.  init_rx_tx_queues turns on the offloads of the device, if   *)
(* it has all of them; prep_tx_packets requests a checksum for every frame *)
(* of the burst, with flags that are or-ed and a length that is read from  *)
(* the frame.  What it does to all frames alike, the addresses of port and *)
(* device under test and the zero for the IP checksum, is left out.        *)
(***************************************************************************)
EXTENDS Naturals, Sequences, FiniteSets

CONSTANTS
  Devices,      \* the capabilities a device may have
  Frames        \* the frames the capture may hold

(* Is the frame IPv4; what the low half of the byte behind the Ethernet    *)
(* header says, and whether the frame is long enough to have that byte;    *)
(* the protocol above; and what its checksum field holds in the capture:   *)
(* the sum of the pseudo-header, as in a capture taken on a sender that    *)
(* leaves the rest to its own device, or a finished checksum or none.      *)
Frame == [ipv4 : BOOLEAN, ihl : 0 .. 15, has_ihl : BOOLEAN,
          proto : {"tcp", "udp", "sctp", "other"}, cksum : {"pseudo", "other"}]

ASSUME FramesAssumption == Frames \subseteq Frame

VARIABLES
  capa,         \* dev_info: what the device can do
  offloads,     \* what port_conf turns on
  burst,        \* the frames in tx_packets
  pkt_indx,     \* the next one to prepare
  prepared,     \* for each that is: its field of ol_flags, its l3_len and the
                \* checksum field as it is handed over
  stage         \* "queues", "prep", "loop", "failed"

preparing == <<capa, offloads, burst, pkt_indx, prepared, stage>>

-----------------------------------------------------------------------------

(* The flags of ol_flags for the checksum of layer 4 are the values 1, 2   *)
(* and 3 of one field of two bits.  A value is the set of its bits.        *)
TCP_CKSUM  == {0}
SCTP_CKSUM == {1}
UDP_CKSUM  == {0, 1}

FlagsOfTcp == TCP_CKSUM                                            \* mutant

Flags == TCP_CKSUM \cup UDP_CKSUM

(* The offloads, in the order they are looked for; each as a whole.        *)
NeededWithoutUdp ==                                                \* mutant
  {{"rx_ipv4", "rx_udp", "rx_tcp"}, {"ipv4"}, {"tcp"}}

Needed == {{"rx_ipv4", "rx_udp", "rx_tcp"}, {"ipv4"}, {"tcp", "udp"}}

\* What follows in the function can fail as well.
InitQueues ==
  /\ stage = "queues"
  /\ \/ /\ \A s \in Needed : s \subseteq capa
        /\ offloads' = UNION Needed
        /\ stage' = "prep"
     \/ stage' = "failed" /\ UNCHANGED offloads
  /\ UNCHANGED <<capa, burst, pkt_indx, prepared>>

(* Behind the end of a short frame is what its buffer held before.         *)
HeaderLengths(frame) ==
  IF frame.has_ihl THEN {frame.ihl * 4} ELSE {n * 4 : n \in 0 .. 15}

(* Nothing is written to the checksum field of layer 4, here or before the *)
(* burst is handed over (rte_eth_tx_prepare would).                        *)
PrepPacket ==
  /\ stage = "prep" /\ pkt_indx <= Len(burst)
  /\ \E l3 \in HeaderLengths(burst[pkt_indx]) :
       prepared' = Append(prepared, [l4 |-> Flags, l3_len |-> l3,
                                     cksum |-> burst[pkt_indx].cksum])
  /\ pkt_indx' = pkt_indx + 1
  /\ UNCHANGED <<capa, offloads, burst, stage>>

PrepDone ==
  /\ stage = "prep" /\ pkt_indx > Len(burst)
  /\ stage' = "loop"
  /\ UNCHANGED <<capa, offloads, burst, pkt_indx, prepared>>

PrepInit ==
  /\ capa \in Devices
  /\ burst \in UNION {[1 .. n -> Frames] : n \in 1 .. 2}
  /\ offloads = {} /\ pkt_indx = 1 /\ prepared = <<>> /\ stage = "queues"

-----------------------------------------------------------------------------

(* The device puts its checksum of layer 4 where the request says: at an   *)
(* offset that is the protocol's, behind the headers.                      *)
Protocol(l4) == CASE l4 = TCP_CKSUM  -> "tcp"
                  [] l4 = SCTP_CKSUM -> "sctp"
                  [] l4 = UDP_CKSUM  -> "udp"

Offset(proto) == CASE proto = "udp" -> 6 [] proto = "tcp" -> 16 [] proto = "sctp" -> 8

(* No frame asks the device for an offload that is not on: the values that *)
(* prep_tx_packets requests are those init_rx_tx_queues insists on.        *)
OnlyEnabled ==
  \A n \in DOMAIN prepared : {"ipv4", Protocol(prepared[n].l4)} \subseteq offloads

(* The device adds up the segment with what its checksum field holds,      *)
(* which has to be the sum of the pseudo-header.                           *)
Right(frame, desc) ==
  /\ frame.ipv4 /\ frame.has_ihl /\ frame.proto # "other"
  /\ desc.l3_len + Offset(Protocol(desc.l4)) = 4 * frame.ihl + Offset(frame.proto)
  /\ desc.cksum = "pseudo"

(* Which frames come out right.  Or-ed, the flags for TCP and for UDP are  *)
(* the one for UDP: the checksum is put where a UDP datagram has it, and   *)
(* so spoils every other frame.  Of the UDP datagrams over IPv4 those can  *)
(* be trusted, and only those, whose checksum field came with the sum of   *)
(* the pseudo-header out of the capture; one that was captured with its    *)
(* finished checksum leaves with a wrong one.                              *)
ChecksumRight ==
  stage = "loop" =>
    /\ Len(prepared) = Len(burst)
    /\ \A n \in DOMAIN burst :
         Right(burst[n], prepared[n])
           <=> /\ burst[n].ipv4 /\ burst[n].has_ihl
               /\ burst[n].proto = "udp" /\ burst[n].cksum = "pseudo"

=============================================================================
