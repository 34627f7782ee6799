--------------------------- MODULE MCPreparation ----------------------------
(***************************************************************************)
(* Test descriptions: captures with texts shorter than their field, as     *)
(* long, and longer, and captures that lack one key.  Bursts of one or two *)
(* frames, with and without IP options, or too short for a header; devices *)
(* that have all offloads but one, or all.  The descriptions are varied    *)
(* for one burst, and the bursts for one description.                      *)
(***************************************************************************)
EXTENDS Preparation

Repeat(char, n) == [k \in 1 .. n |-> char]

(* Texts that fit, that fill their field, and that reach the next number,  *)
(* the next capture, and the end of an array of two captures.              *)
Whole ==
  [name : {Repeat("n", n) : n \in {1, NameRoom, NameRoom + 1, Size, 2 * Size}},
   burst : {2}, fps : {3, NoNumber}, ipg : {4},
   cln_ips : {Repeat("c", n) : n \in 1 .. 2 * AddrRoom + 1},
   srv_ips : {Repeat("s", n) : n \in {1, AddrRoom, AddrRoom + 1, AddrRoom + 4}},
   cln_port : {5}]

Plain == CHOOSE c \in Whole :
           Len(c.name) = 1 /\ Len(c.cln_ips) = 1 /\ Len(c.srv_ips) = 1

Lacking == {[Plain EXCEPT ![key] = Missing] : key \in DOMAIN Plain}

PlainDocument ==
  [scalars |-> TRUE, node |-> TRUE, dut |-> <<"d">>, items |-> <<Plain, Plain>>]

MCDocuments ==
  [scalars : {TRUE}, node : {TRUE}, dut : {<<"d">>},
   items : {<<c, d>> : c \in Whole, d \in {Plain} \cup Lacking}
             \cup {<<d, c>> : c \in Whole, d \in {Plain} \cup Lacking}
             \cup {<<>>, <<Plain>>, <<Plain, Plain, Plain>>}]
    \cup [scalars : BOOLEAN, node : BOOLEAN,
          dut : {Repeat("d", n) : n \in {1, CfgRoom - 1, CfgRoom}},
          items : {<<Plain, Plain>>}]

AllOffloads == {"rx_ipv4", "rx_udp", "rx_tcp", "ipv4", "tcp", "udp"}

MCDevices == {AllOffloads} \cup {AllOffloads \ {o} : o \in AllOffloads}

MCFrames ==
  [ipv4 : {TRUE}, ihl : {5, 6}, has_ihl : {TRUE}, proto : {"tcp", "udp", "sctp"},
   cksum : {"pseudo", "other"}]
    \cup [ipv4 : BOOLEAN, ihl : {0, 6}, has_ihl : BOOLEAN, proto : {"other"}, cksum : {"other"}]

PlainFrame ==
  [ipv4 |-> TRUE, ihl |-> 5, has_ihl |-> TRUE, proto |-> "udp", cksum |-> "pseudo"]

MCInit ==
  /\ Init
  /\ doc = PlainDocument \/ (capa = AllOffloads /\ burst = <<PlainFrame>>)

MCSpec == MCInit /\ [][Next]_<<describing, preparing>>

=============================================================================
