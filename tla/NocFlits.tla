------------------------------- MODULE NocFlits -------------------------------
(***************************************************************************)
(* Packets and flits of the network on chip.  The data of a packet are the *)
(* bytes 0 .. length - 1; a flit carries DATA_SIZE of them at most, named  *)
(* by the offset they are copied from and their number.                    *)
(***************************************************************************)
EXTENDS Integers, Sequences, SequencesExt

CONSTANT DATA_SIZE  \* Flit::DATA_SIZE, 8 in the code

ASSUME DataSize == DATA_SIZE \in Nat \ {0}

Slice(type, offset, length) ==
  [type |-> type, offset |-> offset, length |-> length]

Slices == [type : {"HEAD", "BODY", "TAIL", "HEAD_TAIL"},
           offset : Nat, length : 0 .. DATA_SIZE]

Least(a, b) == IF a < b THEN a ELSE b

\* Faulty variant of Rest: the loop runs while remaining_data >= DATA_SIZE.
RestNoTail(length) ==
  LET rest[offset \in 0 .. length] ==
        CASE length - offset >= DATA_SIZE ->
               <<Slice("BODY", offset, DATA_SIZE)>> \o rest[offset + DATA_SIZE]
          [] length - offset \in 1 .. DATA_SIZE - 1 ->
               <<Slice("TAIL", offset, length - offset)>>
          [] OTHER -> <<>>
  IN  rest

\* What is left at an offset: body flits while it exceeds a flit, then a tail.
Rest(length) ==
  LET rest[offset \in 0 .. length] ==
        CASE length - offset > DATA_SIZE ->
               <<Slice("BODY", offset, DATA_SIZE)>> \o rest[offset + DATA_SIZE]
          [] length - offset \in 1 .. DATA_SIZE ->
               <<Slice("TAIL", offset, length - offset)>>
          [] OTHER -> <<>>
  IN  rest

\* Faulty variant of PacketToFlits: the head's length is not limited.
PacketToFlitsUncut(length) ==
  IF length \in 1 .. DATA_SIZE THEN <<Slice("HEAD_TAIL", 0, length)>>
  ELSE <<Slice("HEAD", 0, length)>>

(***************************************************************************)
(* packetToFlits(pkt): a packet that fits in one flit is HEAD_TAIL, unless *)
(* it is empty: then it is a HEAD, and nothing follows it.                 *)
(***************************************************************************)
PacketToFlits(length) ==
  IF length \in 1 .. DATA_SIZE THEN <<Slice("HEAD_TAIL", 0, length)>>
  ELSE LET first == Least(length, DATA_SIZE)
       IN  <<Slice("HEAD", 0, first)>> \o Rest(length)[first]

\* The part of the data that a flit carries, whatever the flit's type.
Part(offset, length) == [offset |-> offset, length |-> length]
PartOf(slice) == Part(slice.offset, slice.length)

\* Faulty variant of TerminalFlits: the division does not round up.
TerminalFlitsFloor(length) ==
  [i \in 1 .. length \div DATA_SIZE |->
     Part((i - 1) * DATA_SIZE, Least(DATA_SIZE, length - (i - 1) * DATA_SIZE))]

(***************************************************************************)
(* What the flits carry that TerminalNode::generateAndSendRequest() makes  *)
(* of data of the given length: the same cut, written as a count of flits. *)
(* They have no type.  The type is computed for each flit and then put     *)
(* into an extension of the whole packet's transaction, trans, not of      *)
(* flit_trans; trans is deleted at the end.                                *)
(***************************************************************************)
TerminalFlits(length) ==
  LET count == (length + DATA_SIZE - 1) \div DATA_SIZE
  IN  [i \in 1 .. count |->
         Part((i - 1) * DATA_SIZE, Least(DATA_SIZE, length - (i - 1) * DATA_SIZE))]

\* Flit::Flit(const Packet&), the flit made of the packet's first bytes.
FlitOfPacket(length) ==
  Slice(IF length <= DATA_SIZE THEN "HEAD_TAIL" ELSE "HEAD",
        0, Least(length, DATA_SIZE))
===============================================================================
