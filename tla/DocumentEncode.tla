--------------------------- MODULE DocumentEncode ---------------------------
(***************************************************************************)
(* RECEIPT, DOT_MATRIX and TEXT documents turned into printer commands     *)
(* (renderers/src/receipt.rs, dotmatrix.rs, text.rs; protocols/src/        *)
(* escpos_commands.rs, escp_commands.rs, encoding.rs).                     *)
(*                                                                         *)
(* The encoder takes the items of the document one by one and the printer  *)
(* then obeys the commands.  The printer is external: it keeps the modes   *)
(* an earlier job has left.  A command is a tuple whose first component    *)
(* names it; a mode is changed by <<"set", mode, value>>.  A character is  *)
(* a letter: x is ASCII, e is in every code page, u is in none.  An        *)
(* optional value is a sequence of at most one.                            *)
(*                                                                         *)
(* A definition marked "Mutant" is a plausible mistake in the definition   *)
(* that follows it and is not part of the specification.                   *)
(***************************************************************************)
EXTENDS Integers, SequencesExt

CONSTANTS
  Written,      \* the documents clients submit
  LeftModes,    \* the modes an earlier job may leave the printer in
  BandRows      \* RASTER_BAND_ROWS

ASSUME EncodeAssumption == BandRows \in Nat \ {0}

VARIABLES
  document,  \* the document being rendered
  item,      \* its items encoded so far
  out,       \* commands encoded so far
  verdict,   \* encoding, rejected, failed, encoded or printed
  device     \* the printer: [modes, line, paper, row]

encodeVars == <<document, item, out, verdict, device>>

Ascii == {"x", "y", " ", "-", "CR", "NL", "FF", "TAB"}
Styles == {"small", "bold", "underline", "size", "invert",
           "italic", "strike", "wide", "condensed"}
\* The modes after ESC @.
PowerOn ==
  [s \in Styles |-> "off"] @@
  [align |-> "Left", table |-> "IBM437", pitch |-> "pica", quality |-> "draft",
   spacing |-> <<1, 6>>, form |-> <<11, <<1, 1>> >>, skip |-> 0,
   leftMargin |-> <<0, "pica", "off">>, rightMargin |-> <<0, "pica", "off">>]

set(mode, value) == <<"set", mode, value>>
on(b) == IF b THEN "on" ELSE "off"

\* text.split(sep)
split(text, sep) ==
  FoldLeft(LAMBDA acc, c : IF c = sep THEN Append(acc, <<>>)
                           ELSE [acc EXCEPT ![Len(acc)] = Append(@, c)],
           << <<>> >>, text)
\* text.replace("\r\n", "\n")
crlf(text) ==
  FoldLeft(LAMBDA acc, c : IF c = "NL" /\ acc # <<>> /\ Last(acc) = "CR"
                           THEN Append(Front(acc), "NL") ELSE Append(acc, c),
           <<>>, text)
Blank(text, controls) == [i \in DOMAIN text |-> IF text[i] \in controls THEN " " ELSE text[i]]

(***************************************************************************)
(* Code pages.                                                             *)
(***************************************************************************)
CodePages == {"utf-8", "IBM437", "IBM850"}
ForLabel(label) == label \in CodePages

\* No character is substituted: one the code page lacks is an error.
Encodable(codePage, text) ==
  codePage = "utf-8" \/ \A i \in DOMAIN text : text[i] # "u"

\* The bytes of the text: ASCII, or bytes to be read with the code page; a
\* byte of no character where the code page has none.
encode(codePage, text) ==
  [i \in DOMAIN text |-> <<text[i], CASE text[i] \in Ascii -> "ascii"
                               [] text[i] = "u" /\ codePage # "utf-8" -> "none"
                               [] OTHER -> codePage>>]

code_table_for(codePage) ==
  IF codePage \in {"IBM437", "IBM850"} THEN <<set("table", codePage)>> ELSE <<>>

(***************************************************************************)
(* The printer: what a command does to it.                                 *)
(***************************************************************************)
Shown(device0, byte) ==
  IF byte[2] \in {"ascii", device0.modes.table} THEN byte[1] ELSE "?"
Look(device0) == [s \in Styles |-> device0.modes[s]]

Prints(d, bytes) == [d EXCEPT !.line = @ \o [i \in DOMAIN bytes |-> <<Shown(d, bytes[i]), Look(d)>>]]
\* Puts the line on paper, with the item it came from.
Breaks(d, i) ==
  [d EXCEPT !.paper = Append(@, [what |-> "line", item |-> i, align |-> d.modes.align,
                                 chars |-> d.line]),
            !.line = <<>>, !.row = @ + 1]
Marks(d, what, i) ==
  [d EXCEPT !.paper = Append(@, [what |-> what, item |-> i, align |-> d.modes.align,
                                 chars |-> <<>>])]

Obeys(d, c) ==
  CASE c[1] = "reset"   -> [d EXCEPT !.modes = PowerOn, !.line = <<>>]
    [] c[1] = "set"     -> [d EXCEPT !.modes[c[2]] = c[3]]
    [] c[1] = "text"    -> Prints(d, c[2])
    [] c[1] = "lf"      -> Breaks(d, c[2])
    [] c[1] = "ff"      -> [(IF d.line = <<>> THEN d ELSE Breaks(d, c[2])) EXCEPT !.row = 0]
    \* the page in lines, the margin in columns: of the spacing and pitch of the moment
    [] c[1] = "form"    -> [d EXCEPT !.modes.form = <<c[2], d.modes.spacing>>]
    [] c[1] = "margin"  -> [d EXCEPT !.modes[c[2]] = <<c[3], d.modes.pitch, d.modes.condensed>>]
    [] c[1] = "feed"    -> [(IF d.line = <<>> THEN d ELSE Breaks(d, c[3])) EXCEPT !.row = @ + c[2]]
    \* a symbol takes as many bytes as its length field says; the rest is text
    [] c[1] = "symbol"  -> Marks(IF c[2] = c[3] THEN d ELSE Prints(d, << <<"?", "ascii">> >>),
                                 "symbol", c[4])
    [] OTHER            -> Marks(d, c[1], Last(c))

(***************************************************************************)
(* RECEIPT.                                                                *)
(***************************************************************************)
\* Symbology::validate, by length
ValidBarcode(b) ==
  CASE b.symbology = "Code128" -> b.length \in 1..80
    [] b.symbology = "Itf"     -> b.length \in 1..80 /\ b.length % 2 = 0
    [] b.symbology = "Ean13"   -> b.length \in {12, 13}

ValidReceiptItem(i) ==
  CASE i.type = "Text"    -> Len(i.text) <= 10000
    [] i.type = "Columns" -> Len(i.left) + Len(i.right) <= 1000
    [] i.type = "Feed"    -> i.lines <= 100
    [] i.type = "Barcode" -> ValidBarcode(i) /\ i.height \in 1..255 /\ i.module \in 2..6
    [] i.type = "Qr"      -> i.length \in 1..2000 /\ i.size \in 1..16
    [] i.type = "Image"   -> \A k \in DOMAIN i.max : i.max[k] \in 8..2048
    [] i.type = "Drawer"  -> i.pin <= 1
    [] OTHER              -> TRUE

ValidReceipt(r) ==
  /\ r.width \in 16..96 /\ Len(r.items) \in 1..2000
  /\ \A i \in DOMAIN r.items : ValidReceiptItem(r.items[i])

\* barcode: the payload and its length byte; CODE128 gets a prefix and doubled braces
Barcode(b, i) ==
  LET payload == IF b.symbology = "Code128" THEN b.length + b.braces + 2 ELSE b.length
  IN  <<"symbol", payload, payload % 256, i>>

\* qr: the data stored behind three bytes of its own, with a length of two bytes
Qr(q, i) == LET stored == q.length + 3 IN <<"symbol", stored, stored % 65536, i>>

\* left and right on one line; the left side is cut first.
columns(left, right, width) ==
  LET upTo(text, n) == SubSeq(text, 1, IF n < Len(text) THEN n ELSE Len(text))
      less(a, b) == IF b < a THEN a - b ELSE 0
      r == upTo(right, width)
      l == upTo(left, less(width, Len(r) + 1))
      gap == less(width, Len(l) + Len(r))
  IN  l \o [k \in 1..(IF gap < 1 THEN 1 ELSE gap) |-> " "] \o r

\* raster_image: blocks of at most BandRows rows
Raster(height, i) ==
  [k \in 1..((height + BandRows - 1) \div BandRows) |->
     <<"raster", IF k * BandRows <= height THEN BandRows ELSE height % BandRows, i>>]

\* The image shrunk to the width given, or to that of the paper
ScaledHeight(r, i) ==
  LET most == IF i.max = <<>> THEN r.width * 12 ELSE Head(i.max)
      scaled == (i.height * most) \div i.width
  IN  IF i.width <= most THEN i.height ELSE IF scaled < 1 THEN 1 ELSE scaled

\* Whether item i can be encoded at all.
ReceiptItemFails(r, i) ==
  CASE i.type = "Text"    -> ~Encodable(r.codePage, i.text)
    [] i.type = "Columns" -> ~Encodable(r.codePage, columns(i.left, i.right, r.width))
    [] i.type \in {"Image", "Raw"} -> ~i.decodes
    [] OTHER -> FALSE

Lines(codePage, text, i) ==
  FoldLeft(LAMBDA acc, l : acc \o << <<"text", encode(codePage, l)>>, <<"lf", i>> >>,
           <<>>, split(text, "NL"))
Aligned(align, commands0) == <<set("align", align)>> \o commands0 \o <<set("align", "Left")>>

\* A Text item sets every style, prints, and takes them all back.
Text(r, t, i) ==
  <<set("align", t.align), set("small", on(t.small)), set("bold", on(t.bold)),
    set("underline", on(t.underline)), set("size", on(t.double)), set("invert", on(t.invert))>>
  \o Lines(r.codePage, crlf(t.text), i)
  \o <<set("invert", "off"), set("size", "off"), set("underline", "off"),
       set("bold", "off"), set("small", "off"), set("align", "Left")>>

SeparatorLine(r, s) ==
  [k \in 1..r.width |-> IF Encodable(r.codePage, <<s.character>>) THEN s.character ELSE "-"]

ReceiptItem(r, t, i) ==
  CASE t.type = "Text" -> Text(r, t, i)
    [] t.type = "Columns" ->
         <<set("bold", on(t.bold)),
           <<"text", encode(r.codePage, columns(t.left, t.right, r.width))>>,
           <<"lf", i>>, set("bold", "off")>>
    [] t.type = "Separator" ->
         << <<"text", encode(r.codePage, SeparatorLine(r, t))>>, <<"lf", i>> >>
    [] t.type = "Feed"    -> << <<"feed", t.lines, i>> >>
    [] t.type = "Barcode" -> Aligned(t.align, <<Barcode(t, i), <<"lf", i>> >>)
    [] t.type = "Qr"      -> Aligned(t.align, <<Qr(t, i), <<"lf", i>> >>)
    [] t.type = "Image"   -> Aligned(t.align, Raster(ScaledHeight(r, t), i))
    [] t.type = "Cut"     -> << <<"cut", i>> >>
    [] t.type = "Drawer"  -> << <<"drawer", i>> >>
    [] t.type = "Raw"     -> t.commands

\* The drawer, then the cut, unless the receipt ends with one.
ReceiptEnd(r) ==
  (IF r.openDrawer THEN << <<"drawer", Len(r.items) + 1>> >> ELSE <<>>)
  \o (IF r.cut /\ Last(r.items).type # "Cut" THEN << <<"cut", Len(r.items) + 1>> >> ELSE <<>>)

(***************************************************************************)
(* DOT_MATRIX.                                                             *)
(***************************************************************************)
CondensedPitch(d) == d.cpi \in {17, 20}
pitch(cpi) ==
  <<set("pitch", CASE cpi \in {12, 20} -> "elite" [] cpi = 15 -> "micron" [] OTHER -> "pica"),
    set("condensed", on(cpi \in {17, 20}))>>

\* The command of an option that is given.
Given(option, command(_)) == [k \in DOMAIN option |-> command(option[k])]

\* Half up, as f32::round does.
Rounded(unit, lpi) == (2 * unit + lpi) \div (2 * lpi)
line_spacing(lpi, pins) ==
  LET unit == IF pins = 9 THEN 216 ELSE 180
  IN  <<set("spacing", IF lpi \in {6, 8} THEN <<1, lpi>> ELSE <<Rounded(unit, lpi), unit>>)>>

\* The settings, those that count lines or columns after what these are
\* measured in.
Header(d) ==
  (IF d.initialize THEN << <<"reset">> >> ELSE <<>>)
  \o <<set("quality", d.quality)>> \o pitch(d.cpi) \o line_spacing(d.lpi, d.pins)
  \o Given(d.formLines, LAMBDA n : <<"form", n>>)
  \o Given(d.formInches, LAMBDA n : set("form", <<n, <<1, 1>> >>))
  \o Given(d.skip, LAMBDA n : set("skip", n))
  \o Given(d.leftMargin, LAMBDA n : <<"margin", "leftMargin", n>>)
  \o Given(d.rightMargin, LAMBDA n : <<"margin", "rightMargin", n>>)
  \o (IF d.table # "" THEN <<set("table", d.table)>>
      ELSE IF d.codePage = "IBM437" THEN code_table_for(d.codePage) ELSE <<>>)

\* text_line: a form feed in the text starts a page.
TextLine(d, text, i) ==
  LET parts == split(text, "FF")
  IN  FlattenSeq([k \in DOMAIN parts |->
        << <<"text", encode(d.codePage, Blank(parts[k], {"CR", "NL"}))>>,
           IF k < Len(parts) THEN <<"ff", i>> ELSE <<"lf", i>> >>])

\* Mutant: whatever the pitch
StyledAll(d, l) == l.style
\* The styles a Line switches on and off; a condensed pitch is left alone.
Styled(d, l) == IF CondensedPitch(d) THEN l.style \ {"condensed"} ELSE l.style

Switch(styles, value) == SetToSeq({set(s, value) : s \in styles})

DotMatrixItem(d, l, i) ==
  CASE l.type = "Text" ->
         FlattenSeq([k \in DOMAIN split(crlf(l.text), "NL") |->
                       TextLine(d, split(crlf(l.text), "NL")[k], i)])
    [] l.type = "Line" ->
         Switch(Styled(d, l), "on") \o
         << <<"text", encode(d.codePage, Blank(l.text, {"CR", "NL", "FF"}))>> >>
         \o Switch(Styled(d, l), "off") \o << <<"lf", i>> >>
    [] l.type = "LineFeed" -> [k \in 1..l.lines |-> <<"lf", i>>]
    [] l.type = "FormFeed" -> << <<"ff", i>> >>
    [] l.type = "Raw" -> l.commands

DotMatrixItemFails(d, l) ==
  CASE l.type \in {"Text", "Line"} -> ~Encodable(d.codePage, l.text)
    [] l.type = "Raw" -> ~l.decodes
    [] OTHER -> FALSE

(***************************************************************************)
(* TEXT.                                                                   *)
(***************************************************************************)
normalise_newlines(text) ==
  [i \in DOMAIN crlf(text) |-> IF crlf(text)[i] = "CR" THEN "NL" ELSE crlf(text)[i]]

\* Tabs become spaces up to the next stop of the line they are in.
expand_tabs(text, width) ==
  LET step(acc, c) ==
        LET spaces == width - (acc.column % width)
        IN  CASE c = "TAB" -> [out |-> acc.out \o [k \in 1..spaces |-> " "],
                               column |-> acc.column + spaces]
              [] c \in {"NL", "FF"} -> [out |-> Append(acc.out, c), column |-> 0]
              [] OTHER -> [out |-> Append(acc.out, c), column |-> acc.column + 1]
  IN  IF width = 0 THEN text
      ELSE FoldLeft(step, [out |-> <<>>, column |-> 0], text).out

strip_suffix(text) == IF text # <<>> /\ Last(text) = "NL" THEN Front(text) ELSE text
Expanded(d) == expand_tabs(normalise_newlines(d.text), d.tabWidth)

\* render_raw: the lines, each with its ending, and a form feed
RawText(d) ==
  LET body == strip_suffix(Expanded(d))
      part(text) == LET pieces == split(text, "FF")
                    IN  FlattenSeq([k \in DOMAIN pieces |->
                          << <<"text", encode(d.codePage, pieces[k])>> >>
                          \o (IF k < Len(pieces) THEN << <<"ff", 0>> >> ELSE <<>>)])
      lines == split(body, "NL")
  IN  FlattenSeq([k \in DOMAIN lines |-> part(lines[k]) \o << <<"lf", 0>> >>])
      \o (IF d.formFeed /\ (body = <<>> \/ Last(body) # "FF") THEN << <<"ff", 0>> >> ELSE <<>>)

\* layout: pages of lines, for a provider that draws them
layout(d) ==
  LET pages == split(Expanded(d), "FF")
  IN  [p \in DOMAIN pages |-> split(strip_suffix(pages[p]), "NL")]

(***************************************************************************)
(* One document, on a printer in any state.                                *)
(***************************************************************************)
EncodeInit ==
  /\ document \in Written
  /\ item = 0 /\ out = <<>> /\ verdict = "submitted"
  /\ \E m \in LeftModes : device = [modes |-> m, line |-> <<>>, paper |-> <<>>, row |-> 0]

ValidDotMatrix(d) ==
  /\ d.cpi \in {10, 12, 15, 17, 20} /\ d.lpi \in 1..72 /\ d.pins \in {9, 24}
  /\ d.formLines = <<>> \/ d.formInches = <<>>
  /\ \A k \in DOMAIN d.formLines : d.formLines[k] >= 1
  /\ \A k \in DOMAIN d.formInches : d.formInches[k] \in 1..22
  /\ Len(d.items) \in 1..20000
ValidText(d) == d.tabWidth <= 32
Valid(d) ==
  /\ ForLabel(d.codePage)
  /\ CASE d.type = "Receipt"   -> ValidReceipt(d)
       [] d.type = "DotMatrix" -> ValidDotMatrix(d)
       [] d.type = "Text"      -> ValidText(d)

\* The renderer's validate, then the head of its encode.
Validates ==
  /\ verdict = "submitted"
  /\ IF Valid(document)
     THEN /\ verdict' = "encoding"
          /\ out' = CASE document.type = "Receipt" ->
                           << <<"reset">> >> \o code_table_for(document.codePage)
                      [] document.type = "DotMatrix" -> Header(document)
                      [] OTHER -> <<>>
     ELSE verdict' = "rejected" /\ UNCHANGED out
  /\ UNCHANGED <<document, item, device>>

ItemsOf(d) == IF d.type = "Text" THEN <<>> ELSE d.items

EncodesItem(fails, commands0) ==
  /\ verdict = "encoding" /\ item < Len(ItemsOf(document))
  /\ IF fails THEN verdict' = "failed" /\ UNCHANGED <<item, out>>
     ELSE /\ out' = out \o commands0
          /\ item' = item + 1
          /\ UNCHANGED verdict
  /\ UNCHANGED <<document, device>>

EncodesReceiptItem ==
  /\ document.type = "Receipt"
  /\ LET t == document.items[item + 1]
     IN  EncodesItem(ReceiptItemFails(document, t), ReceiptItem(document, t, item + 1))

EncodesDotMatrixItem ==
  /\ document.type = "DotMatrix"
  /\ LET t == document.items[item + 1]
     IN  EncodesItem(DotMatrixItemFails(document, t), DotMatrixItem(document, t, item + 1))

EndOf(d) ==
  CASE d.type = "Receipt" -> ReceiptEnd(d)
    [] d.type = "DotMatrix" -> IF d.formFeed /\ Last(out)[1] # "ff" THEN << <<"ff", 0>> >> ELSE <<>>
    [] d.type = "Text" -> RawText(d)

Finishes ==
  /\ verdict = "encoding" /\ item = Len(ItemsOf(document))
  /\ IF document.type = "Text" /\ ~Encodable(document.codePage, document.text)
     THEN verdict' = "failed" /\ UNCHANGED out
     ELSE verdict' = "encoded" /\ out' = out \o EndOf(document)
  /\ UNCHANGED <<document, item, device>>

\* The printer obeys what it is sent.
Printed ==
  /\ verdict = "encoded" /\ verdict' = "printed"
  /\ device' = FoldLeft(Obeys, device, out)
  /\ UNCHANGED <<document, item, out>>

EncodeNext == Validates \/ EncodesReceiptItem \/ EncodesDotMatrixItem \/ Finishes \/ Printed
EncodeSpec == EncodeInit /\ [][EncodeNext]_encodeVars
-----------------------------------------------------------------------------
\* The encoder and the printer have their types.
EncodeTypeOK ==
  /\ verdict \in {"submitted", "encoding", "rejected", "failed", "encoded", "printed"}
  /\ item \in 0..Len(ItemsOf(document))
  /\ DOMAIN device.modes = DOMAIN PowerOn /\ device.row \in Nat
  /\ verdict = "printed" => device.line = <<>>

Plain == [s \in Styles |-> "off"]
With(styles) == [s \in Styles |-> on(s \in styles)]
RawBefore(i) == \E k \in 1..(i - 1) : document.items[k].type = "Raw"
LookAsked(t) ==
  CASE t.type = "Text" /\ document.type = "Receipt" ->
         With({s \in {"small", "bold", "underline", "invert"} : t[s]}
              \cup IF t.double THEN {"size"} ELSE {})
    [] t.type = "Columns" -> With(IF t.bold THEN {"bold"} ELSE {})
    [] t.type = "Line" -> With(t.style \cup IF CondensedPitch(document) THEN {"condensed"} ELSE {})
    [] t.type \notin {"Columns", "Line"} /\ document.type = "DotMatrix" -> With(IF CondensedPitch(document) THEN {"condensed"} ELSE {})
    [] OTHER -> Plain

\* Every character is printed in its own item's style and alignment, whatever
\* an earlier job left the printer in: no item's style reaches the next one.
\* Text items of a receipt hold this even after RAW commands.  A DOT_MATRIX
\* document promises it when it initialises the printer (dotmatrix.rs:57).
StyleIsOwn ==
  verdict = "printed" /\ document.type # "Text" =>
    \A k \in DOMAIN device.paper :
      LET l == device.paper[k]
          t == document.items[l.item]
      IN  l.item \in DOMAIN document.items
          /\ \/ ~RawBefore(l.item) /\ (document.type = "Receipt" \/ document.initialize)
             \/ document.type = "Receipt" /\ t.type = "Text"
          => /\ \A c \in DOMAIN l.chars : l.chars[c][2] = LookAsked(t)
             /\ l.align = IF "align" \in DOMAIN t THEN t.align ELSE "Left"

\* What is printed is what was written: no character is lost, replaced or
\* added (encoding.rs:3-4), provided the code page has a table the printer
\* can be switched to.
CharactersOf(k) == [c \in DOMAIN device.paper[k].chars |-> device.paper[k].chars[c][1]]
NothingIsSubstituted ==
  verdict = "printed" /\ document.codePage = "IBM437" /\ ~RawBefore(Len(ItemsOf(document)) + 1)
    /\ (document.type = "DotMatrix" => document.table = "") =>
    \A k \in DOMAIN device.paper : \A c \in DOMAIN CharactersOf(k) : CharactersOf(k)[c] # "?"

\* A document that cannot be encoded sends nothing, and one that is printed
\* has every character its items have.
Count(text) == Len(SelectSeq(text, LAMBDA c : c \in {"x", "y", "e", "u"}))
PrintedOf(i) ==
  Len(SelectSeq(FlattenSeq([k \in DOMAIN device.paper |->
                  IF device.paper[k].item = i THEN CharactersOf(k) ELSE <<>>]),
                LAMBDA c : c \in {"x", "y", "e", "u", "?"}))
TextIsComplete ==
  /\ verdict = "printed" /\ document.type # "Text" =>
       \A i \in DOMAIN document.items :
         document.items[i].type \in {"Text", "Line"} =>
           PrintedOf(i) = Count(document.items[i].text)
  /\ verdict \in {"rejected", "failed"} => device.paper = <<>>

\* The right column, the amount, is printed whole and last; the line has the
\* width of the paper unless the amount fills it (receipt.rs:172).
ColumnsOf(k) == document.items[device.paper[k].item]
AmountsAreWhole ==
  verdict = "printed" /\ document.type = "Receipt" =>
    \A k \in DOMAIN device.paper :
      device.paper[k].what = "line" /\ ColumnsOf(k).type = "Columns"
        /\ Len(ColumnsOf(k).right) < document.width =>
        /\ Len(CharactersOf(k)) = document.width
        /\ Count(ColumnsOf(k).right) =
             Count(SubSeq(CharactersOf(k), document.width - Len(ColumnsOf(k).right) + 1,
                          document.width))

\* Not true of the code: the line has the width of the paper (receipt.rs:172).
ColumnsFit ==
  verdict = "printed" /\ document.type = "Receipt" =>
    \A k \in DOMAIN device.paper :
      device.paper[k].what = "line" /\ ColumnsOf(k).type = "Columns" =>
        Len(CharactersOf(k)) <= document.width

\* A receipt that is to be cut ends with a cut, and never with two of its own
\* making; a picture is printed row by row, each row once.
Symbols == SelectSeq(device.paper, LAMBDA p : p.what \in {"line", "symbol", "cut"})
EndsWithOneCut ==
  verdict = "printed" /\ document.type = "Receipt" =>
    /\ document.cut => Symbols # <<>> /\ Last(Symbols).what = "cut"
    /\ Len(Symbols) > 1 /\ Last(Symbols).item > Len(document.items)
         => document.items[Len(document.items)].type # "Cut"

RasterRows(i) ==
  FoldLeft(LAMBDA n, c : IF c[1] = "raster" /\ c[3] = i THEN n + c[2] ELSE n, 0, out)
PicturesAreWhole ==
  verdict = "printed" /\ document.type = "Receipt" =>
    \A i \in DOMAIN document.items :
      document.items[i].type = "Image" => RasterRows(i) = ScaledHeight(document, document.items[i])

\* The page length and the margins are those asked for, in the lines and
\* columns of this document (dotmatrix.rs:62).
FormIsAsAsked ==
  verdict = "printed" /\ document.type = "DotMatrix" /\ ~RawBefore(Len(document.items) + 1) =>
    /\ document.formLines # <<>> =>
         device.modes.form = <<Head(document.formLines), device.modes.spacing>>
    /\ \A m \in {"leftMargin", "rightMargin"} :
         document[m] # <<>> =>
           device.modes[m] = <<Head(document[m]), device.modes.pitch, on(CondensedPitch(document))>>

\* Where a terminal with tab stops puts the characters of a text.
Cells(text, width) ==
  FoldLeft(LAMBDA t, c :
             CASE c = "TAB" -> [t EXCEPT !.col = (@ \div width + 1) * width]
               [] c = "NL"  -> [t EXCEPT !.row = @ + 1, !.col = 0]
               [] c = "FF"  -> [t EXCEPT !.page = @ + 1, !.row = 0, !.col = 0]
               [] c = " "   -> [t EXCEPT !.col = @ + 1]
               [] OTHER     -> [t EXCEPT !.cells = @ \cup {<<t.page, t.row, t.col, c>>},
                                         !.col = @ + 1],
           [page |-> 1, row |-> 0, col |-> 0, cells |-> {}], text).cells
LayoutCells(pages) ==
  UNION {UNION {{<<p, r - 1, c - 1, pages[p][r][c]>> :
                   c \in {k \in DOMAIN pages[p][r] : pages[p][r][k] # " "}} :
                r \in DOMAIN pages[p]} : p \in DOMAIN pages}
CommandCells ==
  FoldLeft(LAMBDA t, c :
             CASE c[1] = "lf" -> [t EXCEPT !.row = @ + 1, !.col = 0]
               [] c[1] = "ff" -> [t EXCEPT !.page = @ + 1, !.row = 0, !.col = 0]
               [] OTHER -> [t EXCEPT !.col = @ + Len(c[2]),
                              !.cells = @ \cup {<<t.page, t.row, t.col + i - 1, c[2][i][1]>> :
                                                i \in {j \in DOMAIN c[2] : c[2][j][1] # " "}}],
           [page |-> 1, row |-> 0, col |-> 0, cells |-> {}], out).cells

\* Both ways of printing a text put every character in the page, row and
\* column where a terminal with tab stops would.
TextKeepsItsPlace ==
  verdict = "printed" /\ document.type = "Text" /\ document.tabWidth > 0 =>
    LET cells == Cells(normalise_newlines(document.text), document.tabWidth)
    IN  CommandCells = cells /\ LayoutCells(layout(document)) = cells

\* A document that ends with a form feed leaves the paper at the top of a
\* form, unless its text brought the form feed itself.
OwnFormFeed(d) == d.type = "Text" /\ strip_suffix(Expanded(d)) # <<>>
                  /\ Last(strip_suffix(Expanded(d))) = "FF"
EndsAtTopOfForm ==
  verdict = "printed" /\ document.type # "Receipt" /\ document.formFeed
    /\ ~RawBefore(Len(ItemsOf(document)) + 1) /\ ~OwnFormFeed(document) => device.row = 0

\* What the printer does with the commands is what the document says: the text
\* whole, in its place and its style, on the form asked for (receipt.rs,
\* dotmatrix.rs, text.rs), whatever state the printer was left in.
PaperIsAsWritten ==
  /\ EncodeTypeOK /\ StyleIsOwn /\ NothingIsSubstituted /\ TextIsComplete
  /\ AmountsAreWhole /\ EndsWithOneCut /\ PicturesAreWhole
  /\ FormIsAsAsked /\ TextKeepsItsPlace /\ EndsAtTopOfForm

\* Not true of the code: the form feed advances "to the next top-of-form"
\* (document.rs:175-176); the line ending after the text's own one is too much.
FormFeedReachesTheTop ==
  verdict = "printed" /\ document.type = "Text" /\ document.formFeed => device.row = 0
=============================================================================
