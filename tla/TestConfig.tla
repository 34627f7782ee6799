----------------------------- MODULE TestConfig ------------------------------
(***************************************************************************)
(* The test description, mgmt/gen_config.c: prs_cfg copies the captures of *)
(* files/yaml_cfg.yaml into an array of structs, field by field, with      *)
(* strcpy where the field is a text; print_cfg prints what it finds there. *)
(* The array is modelled in cells, one for a character of a text, one for  *)
(* a number, one for the padding before a number.  Nothing bounds a copy:  *)
(* a text may run into the fields and captures behind its own, or beyond   *)
(* the array, after which nothing can be said of the program ("undef").    *)
(***************************************************************************)
EXTENDS Naturals, Sequences, FiniteSetsExt

CONSTANTS
  NameRoom,     \* characters in name, 100
  AddrRoom,     \* SIZEOF_IPV4_ADDR, 18
  CfgRoom,      \* bytes of struct cfg from dut_ether_addr to its end, 32
  NUL,          \* what ends a text
  Junk,         \* a cell that malloc returned
  Garbled,      \* a text that runs on into the bytes of a number
  Missing,      \* a key that a capture lacks
  NoNumber,     \* a scalar of which strtoull makes 0
  Documents     \* the files considered

Text == Seq(STRING) \cup {Missing}

Scalar == Nat \cup {NoNumber, Missing}

Capture ==
  [name : Text, burst : Scalar, fps : Scalar, ipg : Scalar,
   cln_ips : Text, srv_ips : Text, cln_port : Scalar]

ASSUME DocumentsAssumption ==
  /\ NameRoom \in Nat \ {0} /\ AddrRoom \in Nat \ {0} /\ CfgRoom \in Nat
  /\ NUL \notin STRING
  /\ \A d \in Documents :
       /\ d.scalars \in BOOLEAN /\ d.node \in BOOLEAN
       /\ d.dut \in Seq(STRING) /\ d.items \in Seq(Capture)

VARIABLES
  doc,          \* the file: are both scalars there, the text dut_ether_addr,
                \* is there a node "captures", its items
  captures,     \* the array
  i,            \* the capture that is copied,
  f,            \* and its field
  printed,      \* what print_cfg has printed of the captures
  pc            \* "scan", "copy", "print", "done", "rejected", "crashed", "undef"

describing == <<doc, captures, i, f, printed, pc>>

-----------------------------------------------------------------------------

(* The layout of struct cptr, and the order of the copies.                 *)
Bursts  == NameRoom + 1
ClnIps  == Bursts + 3
SrvIps  == ClnIps + AddrRoom
ClnPort == SrvIps + AddrRoom + 1
Size    == ClnPort + 1

Name  == [at |-> 0,          key |-> "name",     text |-> TRUE,  must |-> TRUE]
Burst == [at |-> Bursts,     key |-> "burst",    text |-> FALSE, must |-> TRUE]
Fps   == [at |-> Bursts + 1, key |-> "fps",      text |-> FALSE, must |-> TRUE]
Ipg   == [at |-> Bursts + 2, key |-> "ipg",      text |-> FALSE, must |-> FALSE]
Cln   == [at |-> ClnIps,     key |-> "cln_ips",  text |-> TRUE,  must |-> TRUE]
Srv   == [at |-> SrvIps,     key |-> "srv_ips",  text |-> TRUE,  must |-> TRUE]
Port  == [at |-> ClnPort,    key |-> "cln_port", text |-> FALSE, must |-> FALSE]

FieldsSwapped == <<Name, Burst, Fps, Ipg, Srv, Cln, Port>>         \* mutant

Fields == <<Name, Burst, Fps, Ipg, Cln, Srv, Port>>

\* What is written at the field's place: strcpy's text and its end, or a number.
Stored(field, value) ==
  IF field.text THEN value \o <<NUL>>
  ELSE IF value \in {Missing, NoNumber} THEN <<0>> ELSE <<value>>

Write(cells, at, values) ==
  [k \in DOMAIN cells |->
     IF k \in at .. at + Len(values) - 1 THEN values[k - at + 1] ELSE cells[k]]

\* The place of a field of capture n.
Place(n, at) == (n - 1) * Size + at + 1

\* What a read of the text at this place gives, the next number being at stop.
ReadText(n, at, stop) ==
  LET ends == {k \in Place(n, at) .. Place(n, stop) - 1 : captures[k] = NUL}
  IN  IF ends = {} THEN Garbled ELSE SubSeq(captures, Place(n, at), Min(ends) - 1)

-----------------------------------------------------------------------------

(* Both scalars and the node "captures" have to be there, and malloc has   *)
(* to find the room: it does not for the -1 of a node without a sequence.  *)
(* A text that reaches beyond dut_ether_addr is put over the pointer that  *)
(* malloc sets afterwards; one that reaches beyond the struct is put over  *)
(* what else main has on its stack.                                        *)
Scan ==
  /\ pc = "scan"
  /\ \/ pc' = "rejected" /\ UNCHANGED captures
     \/ doc.scalars /\ Len(doc.dut) >= CfgRoom /\ pc' = "undef" /\ UNCHANGED captures
     \/ /\ doc.scalars /\ doc.node /\ Len(doc.dut) < CfgRoom
        /\ captures' = [k \in 1 .. Size * Len(doc.items) |-> Junk]
        /\ pc' = "copy"
  /\ UNCHANGED <<doc, i, f, printed>>

(* One field of one capture.  The lookup of a key that is missing gives a  *)
(* null pointer, for which only ipg and cln_port are tested.               *)
CopyField ==
  /\ pc = "copy" /\ i <= Len(doc.items)
  /\ LET field == Fields[f]
         value == doc.items[i][field.key]
         at == Place(i, field.at)
         values == Stored(field, value)
     IN  IF value = Missing /\ field.must
         THEN pc' = "crashed" /\ UNCHANGED <<captures, i, f>>
         ELSE IF at + Len(values) - 1 > Size * Len(doc.items)
         THEN pc' = "undef" /\ UNCHANGED <<captures, i, f>>
         ELSE /\ captures' = Write(captures, at, values)
              /\ f' = IF f = Len(Fields) THEN 1 ELSE f + 1
              /\ i' = IF f = Len(Fields) THEN i + 1 ELSE i
              /\ pc' = pc
  /\ UNCHANGED <<doc, printed>>

CopyDone ==
  /\ pc = "copy" /\ i > Len(doc.items)
  /\ pc' = "print" /\ i' = 1
  /\ UNCHANGED <<doc, captures, f, printed>>

(* print_cfg is called for two captures.  What is beyond the array is not  *)
(* said, if it can be read at all.                                         *)
Printed(n) ==
  [name |-> ReadText(n, 0, Bursts),
   burst |-> captures[Place(n, Bursts)], fps |-> captures[Place(n, Bursts + 1)],
   ipg |-> captures[Place(n, Bursts + 2)],
   cln_ips |-> ReadText(n, ClnIps, ClnPort), srv_ips |-> ReadText(n, SrvIps, ClnPort),
   cln_port |-> captures[Place(n, ClnPort)]]

PrintCfg ==
  /\ pc = "print"
  /\ IF i > 2 THEN pc' = "done" /\ UNCHANGED <<i, printed>>
     ELSE \/ /\ printed' = Append(printed, IF i <= Len(doc.items) THEN Printed(i) ELSE Junk)
             /\ i' = i + 1 /\ pc' = pc
          \/ i > Len(doc.items) /\ pc' = "crashed" /\ UNCHANGED <<i, printed>>
  /\ UNCHANGED <<doc, captures, f>>

DescribeInit ==
  /\ doc \in Documents
  /\ captures = <<>> /\ i = 1 /\ f = 1 /\ printed = <<>> /\ pc = "scan"

Describe == Scan \/ CopyField \/ CopyDone \/ PrintCfg

-----------------------------------------------------------------------------

(* What is printed of a capture is what the file says of it, however long  *)
(* its texts and those of its neighbours are, with these exceptions.       *)
(* cln_ips has no room for the end of an address of the full length:       *)
(* strcpy writes it, or what is longer still, into srv_ips, whose own copy *)
(* overwrites it; the client addresses then run on into those of the       *)
(* server.  A name or a server address for which there is no room runs on  *)
(* into the number behind it.  The order of the copies keeps all else as   *)
(* it should be: what a text is written over is copied after it, unless    *)
(* it is beyond the last capture.                                          *)
Number(value) == IF value \in {Missing, NoNumber} THEN 0 ELSE value

Kept(text, room) == IF Len(text) <= room THEN text ELSE Garbled

AsWritten(c) ==
  [name |-> Kept(c.name, NameRoom),
   burst |-> Number(c.burst), fps |-> Number(c.fps), ipg |-> Number(c.ipg),
   cln_ips |-> IF Len(c.cln_ips) < AddrRoom THEN c.cln_ips
               ELSE IF Len(c.srv_ips) <= AddrRoom
               THEN SubSeq(c.cln_ips, 1, AddrRoom) \o c.srv_ips
               ELSE Garbled,
   srv_ips |-> Kept(c.srv_ips, AddrRoom), cln_port |-> Number(c.cln_port)]

PrintedAsWritten ==
  \A n \in DOMAIN printed : n <= Len(doc.items) => printed[n] = AsWritten(doc.items[n])

=============================================================================
