----------------------------- MODULE MCFormats ------------------------------
(***************************************************************************)
(* All Intel HEX files of at most three lines taken from a few, files with *)
(* linear addresses, and object files of two sections taken from a few.    *)
(***************************************************************************)
EXTENDS Formats

Rec(type, addr, data) == [type |-> type, addr |-> addr, data |-> data, off |-> 0]

EndOfFile == Rec(1, 0, << >>)
Upper(word) == Rec(4, 0, word)

\* Neighbours, an overlap, a gap, a segment, a damaged line, an empty line and a
\* type that does not exist.
LineSet ==
  { Rec(0, 4, <<17, 34>>), Rec(0, 6, <<51>>), Rec(0, 5, <<68, 85>>), Rec(0, 9, <<102>>),
    Rec(2, 0, <<0, 1>>), [Rec(0, 7, <<119>>) EXCEPT !.off = 1], Rec(0, 8, << >>), Rec(9, 0, <<1>>) }

Short == UNION {[1 .. n -> LineSet] : n \in 1 .. 2}

\* A file that crosses 64 KB, one with two banks that differ in the upper byte,
\* and one with both kinds of extended address.
Linears ==
  { <<Rec(0, 65534, <<1, 2>>), Upper(<<0, 1>>), Rec(0, 0, <<3, 4>>), EndOfFile>>,
    <<Upper(<<26, 0>>), Rec(0, 2, <<1, 2>>), Rec(0, 4, <<3>>), EndOfFile>>,
    <<Upper(<<26, 0>>), Rec(0, 2, <<1, 2>>), Upper(<<27, 0>>), Rec(0, 2, <<3, 4>>), EndOfFile>>,
    <<Rec(2, 0, <<0, 1>>), Rec(0, 0, <<1>>), Upper(<<0, 0>>), Rec(0, 2, <<2>>), EndOfFile>> }

MCHexFiles == {Append(f, EndOfFile) : f \in Short} \cup Linears
                \cup {<<Rec(0, 4, <<17, 34>>), Rec(0, 6, <<51>>), Rec(0, 9, <<102>>), EndOfFile>>}

Contents == <<10, 20, 30, 40, 50, 60>>

Object(format, words, header, announced, sections) ==
  [format |-> format, words |-> words, header |-> header, announced |-> announced,
   bytes |-> Contents, sections |-> sections]

SectionSet == [addr : {0, 1, 3}, size : {0, 1, 3}, raw : {0, 1, 4}, loads : BOOLEAN]

\* Sections whose end in the file, address or size in bytes goes beyond 32 bits.
Wrapping ==
  { [addr |-> 0, size |-> 3, raw |-> Wrap - 1, loads |-> TRUE],
    [addr |-> Wrap - 2, size |-> 3, raw |-> 1, loads |-> TRUE],
    [addr |-> 1, size |-> Wrap \div 2 + 1, raw |-> 1, loads |-> TRUE],
    [addr |-> 1, size |-> Wrap \div 2, raw |-> 1, loads |-> TRUE] }

MCObjects ==
  {Object("bin", FALSE, "good", 6, << >>)}
  \cup {Object(f, FALSE, "good", 6, <<s, t>>) : f \in {"coff", "elf"}, s, t \in SectionSet}
  \cup {Object("coff", TRUE, "good", 6, <<s, t>>) : s, t \in SectionSet}
  \cup {Object("elf", FALSE, "good", 6, <<s, t>>) : s \in SectionSet, t \in Wrapping}
  \cup {Object("coff", w, "good", 6, <<s, t>>) : w \in BOOLEAN, s \in Wrapping, t \in SectionSet}
  \cup {Object("elf", FALSE, h, n, << >>) : h \in {"good", "bad"}, n \in {0, 6}}
=============================================================================
