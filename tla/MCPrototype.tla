---------------------------- MODULE MCPrototype -----------------------------
(***************************************************************************)
(* The prototype with the captures that take every way through its loader. *)
(***************************************************************************)
EXTENDS Prototype, TLC

Packet(size) == [caplen |-> size, len |-> size]

Packets(n) == [i \in 1 .. n |-> Packet(1)]

Tails(kinds) == [kind : kinds, present : {0}]

MCCaptures ==
  [header : {TRUE}, recs : {Packets(n) : n \in 1 .. 3}, tail : Tails({"end", "cut"})]
    \cup [header : BOOLEAN, recs : {Packets(1)}, tail : Tails({"error"})]
    \cup [header : {TRUE}, recs : {<<Packet(1), Packet(BufSize + 1)>>}, tail : Tails({"end"})]

=============================================================================
