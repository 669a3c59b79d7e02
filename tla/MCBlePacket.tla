---------------------------- MODULE MCBlePacket ----------------------------
\* A key, a listing, two sizes of uploads, one whose bytes look like a frame's
\* start and one with half of such a start at the end of a write, and the start
\* of a stored file, whose first write is completed to another command by the
\* first bytes of a key's frame.  All but two take two writes.
EXTENDS BlePacket

MCCommands == {[code |-> 100, payload |-> <<1>>], [code |-> 261, payload |-> <<>>],
               [code |-> 64, payload |-> <<255, 254, 0>>], [code |-> 64, payload |-> <<0, 7, 255>>],
               [code |-> 84, payload |-> <<123, 65, 111, 125>>]}
=============================================================================
