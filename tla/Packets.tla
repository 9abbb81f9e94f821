------------------------------ MODULE Packets ------------------------------
(***************************************************************************)
(* og3::pkt::PacketWriter and PacketReader: messages put one after the     *)
(* other into the buffer of a packet, each from a multiple of four bytes,  *)
(* and found there again.  The buffer is modelled by the headers that are  *)
(* written to it; what a message says is not.                              *)
(***************************************************************************)
EXTENDS Integers, Sequences, SequencesExt

CONSTANTS BufferSizes,    \* sizes of buffers to write into
          Messages,       \* records of a size in bytes and a type
          MaxAvailable,   \* kMaxAvailableMsgs
          SizeModulus     \* the sizes in a packet are unsigned integers below this

ASSUME PacketAssumption ==
  /\ MaxAvailable \in Nat
  /\ SizeModulus \in Nat /\ BufferSizes \subseteq 0 .. SizeModulus - 1
  /\ \A msg \in Messages : msg.size \in Nat

VARIABLES bufferSize,     \* m_buffer_size of the writer
          packet,         \* m_pkt_size, m_num_msgs, the message headers at their
                          \*   offsets, and whether the CRC was added; "bad" is ~m_is_ok
          sent            \* the messages that add_message() accepted (history)

packetVars == <<bufferSize, packet, sent>>

HeaderSize == 12
MsgHeaderSize == 4
CrcSize == 4

RoundUp(size) == ((size + 3) \div 4) * 4
-----------------------------------------------------------------------------
PacketWriter(nbytes) ==
  [ok |-> nbytes >= HeaderSize, size |-> IF nbytes >= HeaderSize THEN HeaderSize ELSE 0,
   num |-> 0, headers |-> [offset \in {} |-> 0], crc |-> FALSE]

PacketInit ==
  /\ bufferSize \in BufferSizes
  /\ packet = PacketWriter(bufferSize)
  /\ sent = <<>>

(* A header is written over what was at its offset.                        *)
Overlaid(headers, offset, msg) ==
  [o \in DOMAIN headers \cup {offset} |-> IF o = offset THEN msg ELSE headers[o]]

(* Fault: the end of the message is not rounded up.                        *)
AddMessageUnaligned(msg) ==
  LET end == packet.size + MsgHeaderSize + msg.size
  IN  /\ packet.ok /\ ~packet.crc /\ end <= bufferSize
      /\ packet' = [packet EXCEPT !.headers = Overlaid(@, packet.size, msg),
                                  !.num = @ + 1, !.size = end % SizeModulus]
      /\ sent' = Append(sent, msg)
      /\ UNCHANGED bufferSize

(* add_message(): refused after the CRC, and when there is no room.        *)
AddMessage(msg) ==
  LET end == packet.size + MsgHeaderSize + RoundUp(msg.size)
  IN  /\ packet.ok /\ ~packet.crc /\ end <= bufferSize
      /\ packet' = [packet EXCEPT !.headers = Overlaid(@, packet.size, msg),
                                  !.num = @ + 1, !.size = end % SizeModulus]
      /\ sent' = Append(sent, msg)
      /\ UNCHANGED bufferSize

AddCrc ==
  /\ packet.ok /\ ~packet.crc /\ packet.size + CrcSize <= bufferSize
  /\ packet' = [packet EXCEPT !.size = (@ + CrcSize) % SizeModulus, !.crc = TRUE]
  /\ UNCHANGED <<bufferSize, sent>>

PacketNext == (\E msg \in Messages : AddMessage(msg)) \/ AddCrc

PacketSpec == PacketInit /\ [][PacketNext]_packetVars
-----------------------------------------------------------------------------
Available(p) == IF p.num < MaxAvailable THEN p.num ELSE MaxAvailable

(* What parse() reads at an offset; where no header was put, anything.     *)
HeaderAt(p, offset) == IF offset \in DOMAIN p.headers THEN p.headers[offset] ELSE [size |-> -1]

(* The offset of the i-th message, from 0.                                 *)
MessageOffset(p) ==
  LET offset[i \in 0 .. p.num] ==
        IF i = 0 THEN HeaderSize
        ELSE offset[i - 1] + MsgHeaderSize + RoundUp(HeaderAt(p, offset[i - 1]).size)
  IN  offset

(* parse() on the first nbytes bytes of a packet whose checksum matches or *)
(* not: the checks in the order they are made.  The prefix and the version *)
(* are the writer's.                                                       *)
Parse(p, nbytes, damaged) ==
  LET at == MessageOffset(p)
      room == p.size - HeaderSize - (IF p.crc THEN CrcSize ELSE 0)
      fits(i) == /\ at[i] + MsgHeaderSize <= p.size
                 /\ at[i] + HeaderAt(p, at[i]).size <= p.size
  IN  CASE nbytes < HeaderSize \/ p.size > nbytes \/ p.size < HeaderSize -> "kBadSize"
        [] p.crc /\ p.size < HeaderSize + CrcSize -> "kBadSize"
        [] OTHER ->
           CASE p.crc /\ damaged -> "kBadCrc"
             [] ~(p.crc /\ damaged) /\ MsgHeaderSize * p.num > room -> "kBadSize"
             [] ~(p.crc /\ damaged) /\ MsgHeaderSize * p.num <= room ->
                IF \A i \in 0 .. Available(p) - 1 : fits(i) THEN "kOk" ELSE "kBadSize"

(* get_msg() for the messages that are available.                          *)
Read(p) == [i \in 1 .. Available(p) |-> HeaderAt(p, MessageOffset(p)[i - 1])]
-----------------------------------------------------------------------------
(* A packet read at any moment gives the messages that were accepted, in   *)
(* their order and with their sizes and types, as many as a reader can     *)
(* hold; a packet of which a part is missing is refused, and so is one     *)
(* that was damaged and has a CRC (add_message(), add_crc(), parse(),      *)
(* get_msg()).  It needs a buffer smaller than the range of the sizes.     *)
ReadsWhatWasSent ==
  packet.ok =>
    /\ \A nbytes \in 0 .. bufferSize :
         Parse(packet, nbytes, FALSE) = IF nbytes < packet.size THEN "kBadSize" ELSE "kOk"
    /\ packet.crc => Parse(packet, bufferSize, TRUE) = "kBadCrc"
    /\ Read(packet) = SubSeq(sent, 1, Available(packet))
=============================================================================
