----------------------------- MODULE BlePacket -----------------------------
(***************************************************************************)
(* The phones' link to the tool (ble_init.c, ble_gatt_server.c) and the    *)
(* framing of what they write (packet.c).                                  *)
(*                                                                         *)
(* Up to CONFIG_BT_NIMBLE_MAX_CONNECTIONS phones are connected at a time,  *)
(* and what they write goes byte by byte to one parser, which nothing      *)
(* resets: a frame that needs several writes and is cut off by a           *)
(* disconnection, or interrupted by another phone's writes, leaves it      *)
(* anywhere, and what comes next can complete it to a command that nobody  *)
(* sent: the exclusive or is one byte.                                     *)
(*                                                                         *)
(* A frame is 0xFF 0xFE, the length of what follows, the command in two    *)
(* bytes, the payload, the exclusive or of command and payload, 0x03.      *)
(* The parser does not compare the length with the size of rBuff, past     *)
(* which nothing is defined: the frames here are shorter, and as a phone   *)
(* fills its writes up to Mtu, the first bytes of a frame stay together.   *)
(***************************************************************************)
EXTENDS Naturals, Sequences, FiniteSets

CONSTANTS
  Phones,
  Steady,          \* the phone that comes back and sends again and again
  MaxConnections,  \* CONFIG_BT_NIMBLE_MAX_CONNECTIONS
  Commands,        \* what the phones send, [code, payload]
  Mtu,             \* bytes that a write holds
  BuffSize,        \* PRODUCT_COMM_BUFF_SIZE
  MaxCuts

Byte  == 0 .. 255
Word  == 0 .. 65535
NoOne == "no one"

ASSUME LinkAssumption ==
  /\ Steady \in Phones /\ NoOne \notin Phones
  /\ MaxConnections \in Nat \ {0} /\ MaxCuts \in Nat
  /\ Mtu \in Nat \ {0} /\ BuffSize \in Byte
  /\ \A c \in Commands : /\ c.code \in Word /\ c.payload \in Seq(Byte)
                          /\ Len(c.payload) + 2 <= BuffSize

VARIABLES
  connected,    \* g_connection_handle: the phones with a handle
  advertising,  \* phones that are not connected see the tool
  sending,      \* per phone: the command in its last frame
  air,          \* per phone: bytes of that frame not yet written
  input,        \* s_demo_write_data: bytes of the last write not yet parsed
  writer,       \* and whose they are
  packet,       \* s_ble_packet
  handled,      \* what the last byte made the parser hand over, and its writer
  cuts,
  follows       \* history: the phone that wrote last, if the parser was between
                \* frames when its frame began and has had nothing else since

vars == <<connected, advertising, sending, air, input, writer, packet, handled, cuts, follows>>

Nothing == [from |-> NoOne, code |-> 0, payload |-> <<>>]

Xor(a, b) ==
  LET xor[x \in Byte, y \in Byte] ==
        IF x = 0 \/ y = 0 THEN x + y ELSE ((x + y) % 2) + 2 * xor[x \div 2, y \div 2]
  IN  xor[a, b]

\* The exclusive or of the first bytes, for each number of them.
Sums(bytes) ==
  LET acc[i \in 0 .. Len(bytes)] == IF i = 0 THEN 0 ELSE Xor(acc[i - 1], bytes[i]) IN acc

Body(c) == <<c.code \div 256, c.code % 256>> \o c.payload

\* ProductPacket_PacketSendByUART; the phones' frames are the same.
Frame(c) ==
  <<255, 254, (Len(c.payload) + 2) % 256>> \o Body(c) \o <<Sums(Body(c))[Len(Body(c))], 3>>

\* ProductPacket_Init
NewPacket == [status |-> "stx_u", length |-> 0, rBuff |-> <<>>, crc |-> 0]

\* ble_init, on_sync
Init ==
  /\ connected = {} /\ advertising = TRUE
  /\ sending = [p \in Phones |-> Nothing] /\ air = [p \in Phones |-> <<>>]
  /\ input = <<>> /\ writer = NoOne
  /\ packet = NewPacket /\ handled = Nothing
  /\ cuts = 0 /\ follows = NoOne
-----------------------------------------------------------------------------
(* ble_gap_event *)

\* ble_app_advertise: refused as long as there is no room for a connection.
Advertise == advertising' = (Cardinality(connected') < MaxConnections)

Connect(p) ==
  /\ input = <<>> /\ advertising /\ p \notin connected
  /\ connected' = connected \cup {p}
  /\ Advertise
  /\ handled' = Nothing
  /\ UNCHANGED <<sending, air, input, writer, packet, cuts, follows>>

\* What the phone has not written is lost.
Disconnect(p) ==
  /\ input = <<>> /\ p \in connected /\ cuts < MaxCuts
  /\ cuts' = cuts + 1
  /\ connected' = connected \ {p}
  /\ Advertise
  /\ air' = [air EXCEPT ![p] = <<>>]
  /\ sending' = [sending EXCEPT ![p] = Nothing]
  /\ handled' = Nothing
  /\ UNCHANGED <<input, writer, packet, follows>>

\* A phone writes its frames one after the other.
Send(p) ==
  /\ p \in connected /\ air[p] = <<>> /\ writer # p
  /\ \E c \in Commands :
       /\ sending' = [sending EXCEPT ![p] = [from |-> p, code |-> c.code, payload |-> c.payload]]
       /\ air' = [air EXCEPT ![p] = Frame(c)]
  /\ handled' = Nothing
  /\ UNCHANGED <<connected, advertising, input, writer, packet, cuts, follows>>

BetweenFrames == packet.status \in {"stx_u", "stx_l"}
Follows(p) == IF air[p] = Frame(sending[p]) THEN BetweenFrames ELSE follows = p

\* ble_svc_gatt_handler: the host task takes the writes one after the other.
Write(p) ==
  /\ input = <<>> /\ air[p] # <<>>
  /\ LET n == IF Len(air[p]) < Mtu THEN Len(air[p]) ELSE Mtu
     IN  input' = SubSeq(air[p], 1, n) /\ air' = [air EXCEPT ![p] = SubSeq(@, n + 1, Len(@))]
  /\ writer' = p /\ handled' = Nothing
  /\ follows' = IF Follows(p) THEN p ELSE NoOne
  /\ UNCHANGED <<connected, advertising, sending, packet, cuts>>
-----------------------------------------------------------------------------
(* ProductPacket_ParserPacket *)

InStatus(s) == packet.status = s
Become(s)   == packet' = [packet EXCEPT !.status = s]

\* Faulty variant for WholeFramesArrive: a 0xFF that is not followed by 0xFE
\* makes the next 0xFF one that is not followed by it either.
StartOver(byte) ==
  \/ InStatus("stx_u") /\ byte = 255 /\ Become("stx_l")
  \/ InStatus("stx_u") /\ byte # 255 /\ UNCHANGED packet
  \/ InStatus("stx_l") /\ byte = 254 /\ Become("len")
  \/ InStatus("stx_l") /\ byte # 254 /\ Become("stx_u")

Start(byte) ==
  \/ InStatus("stx_u") /\ byte = 255 /\ Become("stx_l")
  \/ InStatus("stx_u") /\ byte # 255 /\ UNCHANGED packet
  \/ InStatus("stx_l") /\ byte = 254 /\ Become("len")
  \/ InStatus("stx_l") /\ byte # 254 /\ UNCHANGED packet

\* Faulty variant for LinkResyncs: the sum of an earlier frame is kept.
LengthKeepsCrc(byte) ==
  /\ InStatus("len")
  /\ packet' = [packet EXCEPT !.status = "data", !.length = byte, !.rBuff = <<>>]

Length(byte) ==
  /\ InStatus("len")
  /\ packet' = [status |-> "data", length |-> byte, rBuff |-> <<>>, crc |-> 0]

\* A length of nothing takes a byte all the same.
Data(byte) ==
  /\ InStatus("data")
  /\ packet' = [packet EXCEPT !.rBuff = Append(@, byte), !.crc = Xor(@, byte),
                  !.status = IF Len(packet.rBuff) + 1 >= packet.length THEN "crc" ELSE @]

Check(byte) == InStatus("crc") /\ Become(IF byte = packet.crc THEN "etx" ELSE "stx_u")

End(byte) == InStatus("etx") /\ Become("stx_u")

\* ble_parsing_packet
HandOver(byte) ==
  handled' = IF InStatus("etx") /\ byte = 3 /\ packet.length >= 2
             THEN [from |-> writer, code |-> 256 * packet.rBuff[1] + packet.rBuff[2],
                   payload |-> SubSeq(packet.rBuff, 3, packet.length)]
             ELSE Nothing

ParseByte ==
  /\ input # <<>>
  /\ input' = Tail(input)
  /\ LET byte == Head(input)
     IN  /\ Start(byte) \/ Length(byte) \/ Data(byte) \/ Check(byte) \/ End(byte)
         /\ HandOver(byte)
  /\ writer' = IF Len(input) = 1 THEN NoOne ELSE writer
  /\ UNCHANGED <<connected, advertising, sending, air, cuts, follows>>
-----------------------------------------------------------------------------
Next == ParseByte \/ \E p \in Phones : Connect(p) \/ Disconnect(p) \/ Send(p) \/ Write(p)

Spec == Init /\ [][Next]_vars

\* The host task parses what has arrived; of the phones, one is assumed to
\* come back and to send.
FairSpec ==
  /\ Spec
  /\ WF_vars(ParseByte) /\ \A p \in Phones : WF_vars(Write(p))
  /\ WF_vars(Connect(Steady)) /\ WF_vars(Send(Steady))
-----------------------------------------------------------------------------
TypeOK ==
  /\ connected \subseteq Phones /\ advertising \in BOOLEAN /\ cuts \in 0 .. MaxCuts
  /\ input \in Seq(Byte) /\ writer \in Phones \cup {NoOne} /\ (input = <<>>) = (writer = NoOne)
  /\ \A p \in Phones : air[p] \in Seq(Byte) /\ (sending[p] = Nothing \/ sending[p].from = p)
  /\ packet.status \in {"stx_u", "stx_l", "len", "data", "crc", "etx"}
  /\ packet.length \in Byte /\ packet.crc \in Byte
  /\ packet.rBuff \in Seq(Byte) /\ Len(packet.rBuff) <= BuffSize
  /\ follows \in Phones \cup {NoOne}

\* Wherever earlier frames were cut off or mixed, and whatever the parser then
\* made of them: of a frame that begins when it is between frames and that no
\* other phone breaks into, it hands over the command, at the last byte, and
\* nothing else.  (Within a frame that is broken into, it can hand over anything
\* whose exclusive or is right.)
WholeFramesArrive ==
  [][ParseByte /\ follows # NoOne =>
       handled' = IF Len(input) = 1 /\ air[follows] = <<>> THEN sending[follows] ELSE Nothing]_vars

\* Cut-off frames leave the parser anywhere, but a phone that is then alone and
\* sends again and again gets through again and again.
LinkResyncs == <>[](connected \subseteq {Steady}) => []<>(handled # Nothing /\ handled = sending[Steady])
=============================================================================
