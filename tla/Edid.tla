-------------------------------- MODULE Edid ---------------------------------
(***************************************************************************)
(* The EDID parser: the manufacturer's letters and the texts of the four   *)
(* descriptor blocks of a monitor's identification. The characters of a    *)
(* text are told apart by what the parser does with them, and the length   *)
(* of a text is a parameter.                                               *)
(***************************************************************************)
EXTENDS Integers, Sequences, FiniteSets

CONSTANTS
  TEXT_LENGTH,   \* 12
  MAX_REPLACED   \* 4

ASSUME TextOK == TEXT_LENGTH \in Nat /\ MAX_REPLACED \in Nat

\* "ok" is printable, "eol" a line feed or carriage return; isprint of a
\* "high" one, a negative char, is undefined.
CharClass == {"nul", "eol", "ok", "junk", "high"}
Texts     == [1 .. TEXT_LENGTH -> CharClass]

Unset     == <<"unset">>   \* the members of Edid have no initialiser
Number    == <<"number">>  \* the serial number of the header in decimal
EmptyText == <<>>

\* The blobs of the right length and header: four blocks, each a pixel clock
\* or a descriptor with a tag.
Blobs ==
  [blocks : [1 .. 4 -> [timing : BOOLEAN,
                        tag    : {"none", "other", "name", "serial", "text"},
                        text   : Texts]],
   serial : Nat,
   pnp    : [1 .. 2 -> 0 .. 255]]

\* The characters before the first that stops the text.
Upto(text, stops) ==
  LET stop == {i \in DOMAIN text : text[i] \in stops}
      end  == IF stop = {} THEN TEXT_LENGTH
              ELSE (CHOOSE i \in stop : \A j \in stop : i <= j) - 1
  IN SubSeq(text, 1, end)

\* Mutant: the text is not cut at the end of the line.
Cut_nul(data) == Upto(data, {"nul"})

\* strncpy stops at a NUL, and the text is cut at the first end of a line.
Cut(data) == Upto(data, {"nul", "eol"})

\* The texts that parse_string may make of data: what cannot be printed
\* becomes a dash, and a text with too many of them is dropped.
parse_string(data) ==
  LET text == Cut(data) IN
    {LET bad == {i \in DOMAIN text : text[i] \in unprintable} IN
       IF Cardinality(bad) > MAX_REPLACED THEN EmptyText
       ELSE [i \in DOMAIN text |-> IF i \in bad THEN "dash" ELSE text[i]] :
     unprintable \in {{"eol", "junk"}, {"eol", "junk", "high"}}}

\* The three letters, from 1 for A, that are packed into two bytes.
pnp_id(b0, b1) == <<(b0 % 128) \div 4, (b0 % 4) * 8 + b1 \div 32, b1 % 32>>

\* The text of the last of the four blocks that has the tag; a block with a
\* pixel clock is no descriptor.
FieldText(blocks, tag) ==
  LET mine == {i \in DOMAIN blocks : ~blocks[i].timing /\ blocks[i].tag = tag} IN
    IF mine = {} THEN {}
    ELSE parse_string(blocks[CHOOSE i \in mine : \A j \in mine : j <= i].text)

Field(blocks, tag, before) ==
  IF FieldText(blocks, tag) = {} THEN {before} ELSE FieldText(blocks, tag)

\* What the constructor may make of a blob of the right length and header; for
\* the others it throws.
ParsedEdid(edid) ==
  [monitor_name  : Field(edid.blocks, "name", Unset),
   serial_number : Field(edid.blocks, "serial", IF edid.serial > 0 THEN Number ELSE Unset),
   eisa_id       : Field(edid.blocks, "text", Unset),
   pnp_id        : {pnp_id(edid.pnp[1], edid.pnp[2])}]
-----------------------------------------------------------------------------
TextsOf(blocks, tag, otherwise) ==
  LET mine == {i \in DOMAIN blocks : ~blocks[i].timing /\ blocks[i].tag = tag} IN
    IF mine = {} THEN {otherwise} ELSE UNION {parse_string(blocks[i].text) : i \in mine}

\* A text that was parsed can be printed, is what the monitor sent up to the
\* end of the line but for the dashes, and has few of these; a text that is
\* in order is kept as it is.
CleanText(data) ==
  \A text \in parse_string(data) :
    /\ \A i \in DOMAIN text : /\ text[i] \in {"ok", "high", "dash"}
                              /\ text[i] # "dash" => text[i] = data[i]
    /\ Cardinality({i \in DOMAIN text : text[i] = "dash"}) <= MAX_REPLACED
    /\ \A n \in DOMAIN data :
         /\ \A i \in 1 .. n : data[i] = "ok"
         /\ n < TEXT_LENGTH => data[n + 1] \in {"nul", "eol"}
         => text = SubSeq(data, 1, n)

\* The letters are those that were packed.
PnpExact(b0, b1) ==
  LET id == pnp_id(b0, b1) IN
    /\ \A i \in 1 .. 3 : id[i] \in 0 .. 31
    /\ (id[1] * 32 + id[2]) * 32 + id[3] = (b0 % 128) * 256 + b1
=============================================================================
