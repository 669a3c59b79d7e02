------------------------------ MODULE Formats -------------------------------
(***************************************************************************)
(* What becomes of a stored image on its way to the target.  The worker    *)
(* turns an Intel HEX file into a binary one (fw_update_worker.c,          *)
(* ihex2bin.c, ihex_read.c) and the CAN update makes one image of a        *)
(* binary, COFF or ELF file (fw_upload_packaging.c, can_fw_update.c).      *)
(*                                                                         *)
(* An Intel HEX file is read as tokens, the start of a line or a byte (two *)
(* digits); line ends and other characters are skipped by the code.  Of an *)
(* object file the header is only good or not, and a section is where it   *)
(* goes and which bytes of the file it is.  The card may give less than is *)
(* there, which the code takes for the end of the file, and keep less than *)
(* it is given, where the code does not look at the result.                *)
(***************************************************************************)
EXTENDS Integers, Sequences, FiniteSets, SequencesExt

CONSTANTS
  HexFiles,   \* files of records [type, addr, data, off]; off spoils the sum
  Objects,    \* [format, words, header, announced, bytes, sections]
  ReadSize,   \* bytes that one read of a binary file takes (512)
  SinkSize,   \* bytes of a section passed on at once (1024)
  Wrap        \* where a number of 32 bits begins again

Bytes    == 0 .. 255
Bank     == 65536       \* addresses that 16 bits tell apart
Word     == 0 .. Bank - 1
Start    == -1          \* the colon that begins a line
Hole     == -2          \* a byte of the binary file that nobody wrote
Outside  == -3          \* a byte of the memory around the buffer of an object file
PadByte  == 255
Window   == 256         \* upper halves that the address mask keeps (24 bits)

ASSUME SizesAssumption ==
  ReadSize \in Nat \ {0} /\ SinkSize \in Nat \ {0} /\ Wrap \in Nat \ {0}

Number == 0 .. Wrap - 1

Record == [type : Bytes, addr : Word, data : {d \in Seq(Bytes) : Len(d) \in Bytes}, off : Bytes]

ASSUME HexAssumption ==
  \A f \in HexFiles :
    /\ f \in Seq(Record)
    /\ \A i \in DOMAIN f : f[i].type \in {2, 4} => Len(f[i].data) = 2

ASSUME ObjectAssumption ==
  Objects \subseteq
    [format : {"bin", "coff", "elf"}, words : BOOLEAN, header : {"good", "bad"},
     announced : Number, bytes : Seq(Bytes),
     sections : Seq([addr : Number, size : Number, raw : Number, loads : BOOLEAN])]

VARIABLES
  file,     \* what was uploaded
  cut,      \* how much of it is on the card: tokens, or bytes
  phase,    \* "read", "close", "package", "ok" or "failed"
  at,       \* tokens or bytes read
  hex,      \* ihex_state: the line being read and the upper address
  conv,     \* ihex2bin_ctx_t
  bin,      \* the binary file
  sect,     \* the section being packaged, and what was done of it
  image,    \* the file made for the target
  offset,   \* bin_sink_ctx_t
  unread,   \* history: a read of a binary file gave less than was there
  unwritten \* history: the card kept less than it was given

card == <<unread, unwritten>>
vars == <<file, cut, phase, at, hex, conv, bin, sect, image, offset, card>>

Sum(s) ==
  LET sum[n \in 0 .. Len(s)] == IF n = 0 THEN 0 ELSE sum[n - 1] + s[n]
  IN  sum[Len(s)]

\* What the last byte of a line makes a multiple of 256.
Summands(length, addr, type, data) ==
  length + (addr \div 256) + (addr % 256) + type + Sum(data)

\* A record as it stands in the file.
Line(r) ==
  LET sum == Summands(Len(r.data), r.addr, r.type, r.data) IN
  <<Start, Len(r.data), r.addr \div 256, r.addr % 256, r.type>> \o r.data
    \o <<(256 - (sum % 256) + r.off) % 256>>

\* The tokens of the first records, for each number of them.
TokensTo(records) ==
  LET tokens[n \in 0 .. Len(records)] ==
        IF n = 0 THEN << >> ELSE tokens[n - 1] \o Line(records[n])
  IN  tokens

Tokens(records) == TokensTo(records)[Len(records)]
-----------------------------------------------------------------------------
(* ihex_read.c and ihex2bin.c *)

NoLine == [field |-> "wait", high |-> 0, low |-> 0, segment |-> 0, type |-> 0,
           want |-> 0, data |-> << >>]

\* IHEX_LINEAR_ADDRESS: 24 bits of the segment and the linear address added.
Linear == ((hex.high % Window) * Bank + hex.low + hex.segment * 16) % (Window * Bank)

\* ihex2bin_file_sink: beyond its end the file grows by bytes nobody wrote.
Put(bytes, place, data) ==
  [i \in 1 .. Max({place + Len(data), Len(bytes)}) |->
     IF i - place \in DOMAIN data THEN data[i - place]
     ELSE IF i \in DOMAIN bytes THEN bytes[i] ELSE Hole]

Base == IF conv.based THEN conv.base ELSE Linear

\* ihex_data_read of a line that does not match its sum, that is shorter than
\* it says, or that lies below the first one.
Misread == conv' = [conv EXCEPT !.error = TRUE] /\ UNCHANGED bin

\* Faulty variant for ConvertedIsFile: the line's length is not tested.
DataReadAnyLength(good) ==
  IF ~good \/ (hex.type = 0 /\ Linear < Base) THEN Misread
  ELSE IF hex.type = 0 THEN
    /\ conv' = [conv EXCEPT !.based = TRUE, !.base = Base]
    /\ bin' = Put(bin, Linear - Base, hex.data)
  ELSE UNCHANGED <<conv, bin>>

DataRead(good) ==
  IF ~good \/ Len(hex.data) < hex.want \/ (hex.type = 0 /\ Linear < Base) THEN Misread
  ELSE IF hex.type = 0 THEN
    /\ conv' = [conv EXCEPT !.based = TRUE, !.base = Base]
    /\ bin' = Put(bin, Linear - Base, hex.data)
  ELSE UNCHANGED <<conv, bin>>

Idle == hex.data = << >> /\ hex.type = 0

Matches(check) == (Summands(Len(hex.data), hex.low, hex.type, hex.data) + check) % 256 = 0

Accepted(check) == Matches(check) /\ Len(hex.data) >= hex.want

DataWord == hex.data[1] * 256 + hex.data[2]

\* ihex_end_read: check is the byte after the data.
EndRead(check, next) ==
  IF Idle THEN hex' = [hex EXCEPT !.field = next] /\ UNCHANGED <<conv, bin>>
  ELSE /\ DataRead(Matches(check))
       /\ hex' = [hex EXCEPT !.field = next, !.data = << >>, !.type = 0,
                    !.high = IF Accepted(check) /\ hex.type = 4 THEN DataWord ELSE @,
                    !.segment = IF Accepted(check) /\ hex.type = 2 THEN DataWord ELSE @]

\* A line that ends too early is judged by what is left in the buffer: the type
\* when no data came, else a byte of an earlier line or of none.
Residue == IF hex.data = << >> THEN {hex.type} ELSE Bytes

\* ihex_read_byte
ReadByte(b) ==
  LET To(f) == [hex EXCEPT !.field = f] IN
  IF b = Start THEN \E check \in Residue : EndRead(check, "count")
  ELSE IF hex.field = "data" /\ Len(hex.data) = hex.want THEN EndRead(b, "wait")
  ELSE /\ UNCHANGED <<conv, bin>>
       /\ hex' = CASE hex.field = "count" -> [To("msb") EXCEPT !.want = b]
                   [] hex.field = "msb"   -> [To("lsb") EXCEPT !.low = b * 256]
                   [] hex.field = "lsb"   -> [To("type") EXCEPT !.low = @ + b]
                   [] hex.field = "type"  -> IF b > 7 THEN To("wait")
                                             ELSE [To("data") EXCEPT !.type = b]
                   [] hex.field = "data"  -> [hex EXCEPT !.data = Append(@, b)]
                   [] OTHER               -> hex

ReadHex ==
  /\ phase = "read" /\ at < cut
  /\ ReadByte(Tokens(file.records)[at + 1])
  /\ at' = at + 1
  /\ UNCHANGED <<file, cut, phase, sect, image, offset, card>>
-----------------------------------------------------------------------------
(* fw_prepare_exec_file *)

\* The output is removed when the conversion failed, also because a file could
\* not be opened or a write was refused.
Convert ==
  /\ phase = "read" /\ at = cut
  /\ \E check \in Residue : EndRead(check, "wait")
  /\ phase' = "failed" \/ (~conv'.error /\ phase' = "close")
  /\ at' = 0
  /\ UNCHANGED <<file, cut, sect, image, offset, card>>

\* Nobody looks at the result of closing it, which writes what was buffered.
Close ==
  /\ phase = "close"
  /\ phase' = "package"
  /\ \/ UNCHANGED <<bin, unwritten>>
     \/ unwritten' = TRUE /\ \E n \in 0 .. Len(bin) : bin' = SubSeq(bin, 1, n)
  /\ UNCHANGED <<file, cut, at, hex, conv, sect, image, offset, unread>>
-----------------------------------------------------------------------------
(* fw_packaging_process with the sink of the CAN update *)

\* The file that is packaged: the binary one made from Intel HEX, or the stored one.
Stored == IF file.format = "ihex" THEN bin
          ELSE SubSeq(file.bytes, 1, cut)

Fail ==
  phase' = "failed" /\ UNCHANGED <<file, cut, at, hex, conv, bin, sect, image, offset, card>>

Padding(n) == [i \in 1 .. n |-> PadByte]

\* The card keeps what it is given, or a part of it that nobody asks for: what
\* is lost when the file is closed counts as lost when it was given.
Write(data) ==
  \/ image' = image \o data /\ UNCHANGED unwritten
  \/ unwritten' = TRUE /\ \E n \in 0 .. Len(data) : image' = image \o SubSeq(data, 1, n)

\* Faulty variant for PackagedIsImage: data below what was written appended, as if it followed.
BinSinkAnyOrder(addr, data) ==
  /\ Write(Padding(addr - offset) \o data)
  /\ offset' = (addr + Len(data)) % Wrap

\* bin_sink: nothing is written below what was written before, and a gap is padded.
BinSink(addr, data) ==
  /\ addr >= offset
  /\ Write(Padding(addr - offset) \o data)
  /\ offset' = (addr + Len(data)) % Wrap

\* process_bin: a read that gives nothing is the end; the address is in sect.
PackageBin ==
  LET there == Min({ReadSize, Len(Stored) - at}) IN
  /\ phase = "package" /\ file.format \in {"ihex", "bin"}
  /\ \E n \in 0 .. there :
       /\ unread' = (unread \/ n < there)
       /\ IF n = 0 THEN phase' = "ok" /\ UNCHANGED <<at, sect, image, offset, unwritten>>
          ELSE /\ BinSink(sect.done, SubSeq(Stored, at + 1, at + n))
               /\ at' = at + n
               /\ sect' = [sect EXCEPT !.done = (@ + n) % Wrap]
               /\ UNCHANGED phase
  /\ UNCHANGED <<file, cut, hex, conv, bin>>

\* The file is as long as its metadata says and has a header that the code
\* knows, or nothing is made of it; also for want of memory or when a read fails.
Complete == file.announced # 0 /\ Len(Stored) >= file.announced /\ file.header = "good"

Load ==
  /\ phase = "package" /\ sect.index = 0
  /\ \/ /\ Complete
        /\ sect' = [index |-> 1, done |-> 0]
        /\ UNCHANGED <<file, cut, phase, at, hex, conv, bin, image, offset, card>>
     \/ Fail

\* process_coff and process_elf
LoadCoff == file.format = "coff" /\ Load
LoadElf  == file.format = "elf" /\ Load

Packaging == phase = "package" /\ sect.index # 0

Section == file.sections[sect.index]

\* Version 2 of COFF counts the size of a section in words, its address too.
SizeOf(s) == IF file.words THEN (2 * s.size) % Wrap ELSE s.size

Skipped(s) == SizeOf(s) = 0 \/ (file.format = "coff" /\ s.raw = 0) \/ ~s.loads

\* What is left of a section that is skipped, or was passed on, is nothing.
Left(s) == IF Skipped(s) THEN 0 ELSE SizeOf(s) - sect.done

InFile(s) == (s.raw + SizeOf(s)) % Wrap <= file.announced

Address == (Section.addr + sect.done) % Wrap

\* The next bytes of the section, at the pointer that the code reads them with.
Part(n) ==
  LET pointer(i) == (Section.raw + sect.done + i - 1) % Wrap IN
  [i \in 1 .. n |-> IF pointer(i) < file.announced THEN Stored[pointer(i) + 1] ELSE Outside]

SinkPart ==
  LET size == Min({Left(Section), SinkSize}) IN
  /\ InFile(Section)
  /\ BinSink(Address, Part(size))
  /\ sect' = [sect EXCEPT !.done = @ + size]
  /\ UNCHANGED <<file, cut, phase, at, hex, conv, bin, unread>>

PackageSection ==
  /\ Packaging /\ sect.index <= Len(file.sections)
  /\ \/ /\ Left(Section) = 0
        /\ sect' = [index |-> sect.index + 1, done |-> 0]
        /\ UNCHANGED <<file, cut, phase, at, hex, conv, bin, image, offset, card>>
     \/ Left(Section) > 0 /\ SinkPart
     \/ /\ Left(Section) > 0
        /\ ~InFile(Section) \/ Address < offset
        /\ Fail

Packaged ==
  /\ Packaging /\ sect.index > Len(file.sections)
  /\ phase' = "ok"
  /\ UNCHANGED <<file, cut, at, hex, conv, bin, sect, image, offset, card>>
-----------------------------------------------------------------------------
Init ==
  /\ \/ \E f \in HexFiles :
          /\ file = [format |-> "ihex", records |-> f]
          /\ phase = "read" /\ cut \in 0 .. Len(Tokens(f))
     \/ \E o \in Objects :
          /\ file = o
          /\ phase = "package" /\ cut \in 0 .. Len(o.bytes)
  /\ at = 0
  /\ hex = NoLine
  /\ conv = [based |-> FALSE, base |-> 0, error |-> FALSE]
  /\ bin = << >>
  /\ sect = [index |-> 0, done |-> 0]
  /\ image = << >> /\ offset = 0
  /\ unread = FALSE /\ unwritten = FALSE

Done == phase \in {"ok", "failed"} /\ UNCHANGED vars

Next ==
  \/ ReadHex \/ Convert \/ Close
  \/ PackageBin \/ LoadCoff \/ LoadElf \/ PackageSection \/ Packaged
  \/ Done

Spec == Init /\ [][Next]_vars
-----------------------------------------------------------------------------
(* What the file says, by the definition of the Intel HEX format *)

Records == 1 .. Len(file.records)

Before(i) == Len(TokensTo(file.records)[i - 1])

\* Lines whose data came; the sum of the last of them may be missing.
Arrived == {i \in Records : Before(i) + 5 + Len(file.records[i].data) <= cut}
Summed  == {i \in Records : Before(i + 1) <= cut}

OfType(types) == {i \in Arrived : file.records[i].type \in types}

Extended(i) == {j \in OfType({2, 4}) : j < i}

\* An extended address holds for the lines after it until the next one.
Extension(i) ==
  LET last == file.records[Max(Extended(i))]
      word == last.data[1] * 256 + last.data[2]
  IN  IF Extended(i) = {} THEN 0 ELSE IF last.type = 2 THEN word * 16 ELSE word * Bank

AddressOf(i) == file.records[i].addr + Extension(i)

DataLines == {i \in OfType({0}) : file.records[i].data # << >>}

\* The lines lie in one window of 24 bits and use one kind of extended address.
Plain ==
  /\ OfType({2}) = {} \/ OfType({4}) = {}
  /\ \A i, j \in DataLines : AddressOf(i) \div (Window * Bank) = AddressOf(j) \div (Window * Bank)

FirstAddress == AddressOf(Min(DataLines))

Covers(i, a) == a - AddressOf(i) + 1 \in DOMAIN file.records[i].data

\* What the file puts at an address: a later line replaces an earlier one.
ByteAt(a) ==
  LET lines == {i \in DataLines : Covers(i, a)}
      last == Max(lines)
  IN IF lines = {} THEN Hole ELSE file.records[last].data[a - AddressOf(last) + 1]

\* A conversion that succeeds has dropped, moved and invented nothing: the binary
\* file is what the lines that reached the card say, wherever the file was cut
\* (ihex_end_read, ihex_data_read: a line cut short or damaged fails the job),
\* unless the card lost some of it.
ConvertedIsFile ==
  phase \in {"close", "package", "ok"} /\ file.format = "ihex" /\ Plain /\ ~unwritten =>
    /\ \A i \in Summed : file.records[i].off = 0 \/ i \notin OfType(0 .. 7)
                           \/ (file.records[i].type = 0 /\ file.records[i].data = << >>)
    /\ \A i \in 1 .. Len(bin) : bin[i] = ByteAt(FirstAddress + i - 1)
    /\ \A i \in DataLines : AddressOf(i) - FirstAddress + Len(file.records[i].data) \in 1 .. Len(bin)

\* The sections of an object file that are loaded, by the byte of the image.
At(a) == {s \in Range(file.sections) : ~Skipped(s) /\ a - s.addr \in 0 .. s.size - 1}

\* They lie in the file and in the addresses that there are.
Fits ==
  \A s \in Range(file.sections) :
    ~Skipped(s) => s.raw + s.size <= file.announced /\ s.addr + s.size < Wrap

\* A file that was packaged is the image it stands for, as far as the card kept
\* what it was given: a binary file as it is, or its first bytes when a read fell
\* short (process_bin takes that for the end), and of an object file addressed in
\* bytes every loaded section at its address, whatever their order and however
\* the reads went, with padding in between (bin_sink).
PackagedIsImage ==
  phase = "ok" /\ ~unwritten =>
    IF file.format \in {"ihex", "bin"}
    THEN IsPrefix(image, Stored) /\ (~unread => image = Stored)
    ELSE ~file.words /\ Fits =>
      /\ \A a \in 0 .. Len(image) - 1 :
           IF At(a) = {} THEN image[a + 1] = PadByte
           ELSE \A s \in At(a) : image[a + 1] = file.bytes[s.raw + a - s.addr + 1]
      /\ \A s \in Range(file.sections) : ~Skipped(s) => s.addr + s.size <= Len(image)
=============================================================================
