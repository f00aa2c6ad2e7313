----------------------------- MODULE LabelEncode -----------------------------
(***************************************************************************)
(* LABEL documents turned into ZPL, EPL, TSPL or CPCL (renderers/src/      *)
(* label.rs, protocols/src/label/, print-core/src/model/label.rs).         *)
(*                                                                         *)
(* One step per element of the label; the printer, which is external,      *)
(* then reads the commands: it finds the end of each field by the rules of *)
(* its language, may hold elements of an earlier, unfinished label, and    *)
(* keeps its modes from one command to the next.  Lengths are whole        *)
(* millimetres; characters are tokens, u is one no code page has.  An      *)
(* optional font is a sequence of at most one name.                        *)
(*                                                                         *)
(* A definition marked "Mutant" is a plausible mistake in the definition   *)
(* that follows it and is not part of the specification.                   *)
(***************************************************************************)
EXTENDS Integers, SequencesExt

CONSTANTS
  Labels,      \* the labels clients submit
  Hints,       \* languages a printer may be known to speak; "" is none
  U32          \* the number of values of a u32, scaled down

ASSUME LabelAssumption ==
  /\ U32 \in Nat /\ U32 > 1
  /\ \A l \in Labels :
       /\ Len(l.elements) \in Nat /\ DOMAIN l.elements = 1..Len(l.elements)
       /\ \A i \in 1..Len(l.elements) :
            l.elements[i].type \in {"Text", "Barcode", "Qr", "DataMatrix", "Box", "Raw"}

VARIABLES
  label,     \* the label being rendered
  language,  \* the printer's language hint, then the language chosen
  element,   \* elements encoded so far
  sent,      \* commands so far
  outcome,   \* submitted, valid, encoding, failed, encoded or printed
  labelPrinter  \* the printer: [buffer, mag, hri, labels]

labelVars == <<label, language, element, sent, outcome, labelPrinter>>

LabelLanguages == {"ZPL", "EPL", "TSPL", "CPCL"}
Known == LabelLanguages \cup {"RAW", "ESC/POS", "ESC/P"}
Symbologies == {"Code128", "Code39", "Ean13", "Ean8", "UpcA", "Itf"}

(***************************************************************************)
(* Measures and fonts.                                                     *)
(***************************************************************************)
\* Rounded, and as u32 saturating; 25.4 mm to the inch
Dots(mm) ==
  LET d == (20 * mm * label.dpi + 254) \div 508
  IN  IF d < U32 THEN d ELSE U32 - 1
AtLeastOne(mm) == IF Dots(mm) < 1 THEN 1 ELSE Dots(mm)
Plus(a, b) == (a + b) % U32
quarter_turns(rotation) == (rotation \div 90) % 4
Clamp(n, low, high) == IF n < low THEN low ELSE IF n > high THEN high ELSE n
AbsDiff(a, b) == IF a < b THEN b - a ELSE a - b

FontNames == <<"1", "2", "3", "4", "5">>
FontsOf(l) == IF l = "EPL" THEN <<12, 16, 20, 24, 48>> ELSE <<12, 20, 24, 32, 48>>
ScaledFont(h) == LET s == (h * label.dpi) \div 203 IN IF s < 1 THEN 1 ELSE s

\* The font and magnification closest to the height; the later one of equals.
pick_font(fonts, target, most) ==
  LET font(i) == LET h == ScaledFont(fonts[i])
                 IN  [font |-> i, mult |-> Clamp((target + h \div 2) \div h, 1, most)]
      error(f) == AbsDiff(ScaledFont(fonts[f.font]) * f.mult, target)
  IN  FoldLeft(LAMBDA best, i : IF error(font(i)) <= error(best) THEN font(i) ELSE best,
               font(1), <<1, 2, 3, 4, 5>>)

Magnification(e) ==
  LET base == ScaledFont(24) IN Clamp((AtLeastOne(e.height) + base \div 2) \div base, 1, 16)

(***************************************************************************)
(* Field data.                                                             *)
(***************************************************************************)
Controls == {"NL", "TAB"}
Replaced(text, how(_)) == FlattenSeq([i \in DOMAIN text |-> how(text[i])])
single_line(text) == [i \in DOMAIN text |-> IF text[i] \in Controls THEN " " ELSE text[i]]

\* ZPL field data: hex escapes; "_" then a token stands for "_5F" and so on
field(text) ==
  Replaced(text, LAMBDA c : CASE c \in {"_", "^", "~"} -> <<"_", c>>
                              [] c = "NL" -> <<" ">> [] OTHER -> <<c>>)
EplQuoted(text) ==
  Replaced(single_line(text), LAMBDA c : IF c \in {"\\", "\""} THEN <<"\\", c>> ELSE <<c>>)
TsplQuoted(text) ==
  Replaced(single_line(text), LAMBDA c : IF c = "\"" THEN <<"\\[\"]">> ELSE <<c>>)

\* In ^BC, ">" starts an invocation and ">0" is the character.
Code128Zpl(text) == Replaced(text, LAMBDA c : IF c = ">" THEN <<">", "0">> ELSE <<c>>)

\* EAN and UPC without the check digit, which the printer computes
barcode_payload(symbology, data) ==
  LET keep == CASE symbology = "Ean13" -> 12 [] symbology = "Ean8" -> 7
                [] symbology = "UpcA" -> 11 [] OTHER -> Len(data)
  IN  SubSeq(data, 1, IF keep < Len(data) THEN keep ELSE Len(data))

\* encode_text: ZPL is UTF-8, the others a code page that lacks u
EncodableIn(l, text) == l = "ZPL" \/ \A i \in DOMAIN text : text[i] # "u"

(***************************************************************************)
(* The encoders: the commands of one element.                              *)
(***************************************************************************)
Command(op, e, data) ==
  [op |-> op, x |-> Dots(e.x), y |-> Dots(e.y), data |-> data,
   turn |-> IF op \in {"Text", "Barcode"} THEN quarter_turns(e.rotation) ELSE 0,
   kind |-> IF op = "Barcode" THEN e.symbology ELSE "", font |-> <<>>, mult |-> 1]
Sized(c, font, mult) == [c EXCEPT !.font = font, !.mult = mult]
\* The client's font, as it came, or the resident font closest to the height
FontOf(e, l, most) ==
  IF e.font # <<>> THEN [font |-> Head(e.font), mult |-> 1]
  ELSE LET best == pick_font(FontsOf(l), AtLeastOne(e.height), most)
       IN  [font |-> <<FontNames[best.font]>>, mult |-> best.mult]
Mode(op, n) == [op |-> op, n |-> n]
\* The encoder returns an error.
Unsupported == <<>>
\* Mutant: the mode stays
WithinStays(op, n, c) == <<Mode(op, n), c>>
\* A mode for one command only.
Within(op, n, c) == <<Mode(op, n), c, Mode(op, 0)>>
\* EPL, TSPL and CPCL give a box by its corners.
Corners(e) ==
  [op |-> "Box", x |-> Dots(e.x), y |-> Dots(e.y),
   x2 |-> Plus(Dots(e.x), AtLeastOne(e.width)), y2 |-> Plus(Dots(e.y), AtLeastOne(e.tall))]
RawCommand(e) == [op |-> "Raw", data |-> e.data]

ZplElement(e) ==
  CASE e.type = "Text" -> 
         <<Sized(Command("Text", e, field(e.data)),
                 IF e.font # <<>> THEN Head(e.font) ELSE <<"0">>, AtLeastOne(e.height))>>
    [] e.type = "Barcode" ->
         LET p == barcode_payload(e.symbology, e.data)
         IN  <<Command("Barcode", e, field(IF e.symbology = "Code128" THEN Code128Zpl(p) ELSE p))>>
    [] e.type \in {"Qr", "DataMatrix"} -> <<Command(e.type, e, field(e.data))>>
    [] e.type = "Box" ->
         LET t == AtLeastOne(e.thick)
             side(mm) == IF AtLeastOne(mm) < t THEN t ELSE AtLeastOne(mm)
         IN  <<[op |-> "Box", x |-> Dots(e.x), y |-> Dots(e.y),
                x2 |-> Dots(e.x) + side(e.width), y2 |-> Dots(e.y) + side(e.tall)]>>
    [] e.type = "Raw" -> <<RawCommand(e)>>

EplElement(e) ==
  CASE e.type = "Text" ->
         LET f == FontOf(e, "EPL", 9)
         IN  <<Sized(Command("Text", e, EplQuoted(e.data)), f.font, f.mult)>>
    [] e.type = "Barcode" ->
         <<Command("Barcode", e, EplQuoted(barcode_payload(e.symbology, e.data)))>>
    [] e.type = "Qr" -> <<Command("Qr", e, EplQuoted(e.data))>>
    [] e.type = "DataMatrix" -> Unsupported
    [] e.type = "Box" -> <<Corners(e)>>
    [] e.type = "Raw" -> <<RawCommand(e)>>

TsplElement(e) ==
  CASE e.type = "Text" ->
         LET f == FontOf(e, "TSPL", 10)
         IN  <<Sized(Command("Text", e, TsplQuoted(e.data)), f.font, f.mult)>>
    [] e.type = "Barcode" ->
         <<Command("Barcode", e, TsplQuoted(barcode_payload(e.symbology, e.data)))>>
    [] e.type \in {"Qr", "DataMatrix"} -> <<Command(e.type, e, TsplQuoted(e.data))>>
    [] e.type = "Box" -> <<Corners(e)>>
    [] e.type = "Raw" -> <<RawCommand(e)>>

\* Magnification and the text under a barcode are modes, set and taken back.
CpclElement(e) ==
  CASE e.type = "Text" ->
         LET mag == IF e.font # <<>> THEN 1 ELSE Magnification(e)
             name == IF e.font # <<>> THEN Head(e.font) ELSE <<"7", " ", "0">>
             c == Sized(Command("Text", e, single_line(e.data)), name, 1)
         IN  IF mag > 1 THEN Within("mag", mag, c) ELSE <<c>>
    [] e.type = "Barcode" /\ quarter_turns(e.rotation) <= 1 ->
         LET c == Command("Barcode", e, single_line(barcode_payload(e.symbology, e.data)))
         IN  IF e.readable THEN Within("hri", 1, c) ELSE <<c>>
    [] e.type = "Barcode" /\ quarter_turns(e.rotation) > 1 -> Unsupported
    [] e.type = "Qr" -> <<Command("Qr", e, single_line(e.data))>>
    [] e.type = "DataMatrix" -> Unsupported
    [] e.type = "Box" -> <<Corners(e)>>
    [] e.type = "Raw" -> <<RawCommand(e)>>

\* The head of a label: darkness 0-30 and speed on the language's own scale;
\* ^XA and ! start a label, N and CLS clear the image buffer.
ZplHead ==
  <<Mode("clear", 0), Mode("darkness", label.darkness), Mode("speed", Clamp(label.speed, 2, 14))>>
EplHead ==
  <<Mode("clear", 0), Mode("darkness", (label.darkness * 15) \div 30),
    Mode("speed", Clamp(label.speed, 1, 6))>>
TsplHead ==
  <<Mode("darkness", (label.darkness * 15) \div 30), Mode("speed", label.speed), Mode("clear", 0)>>
CpclHead ==
  <<Mode("clear", 0), Mode("speed", Clamp(label.speed, 0, 5)),
    Mode("darkness", (label.darkness * 3) \div 30)>>
HeadOf(l) ==
  CASE l = "ZPL" -> ZplHead [] l = "EPL" -> EplHead [] l = "TSPL" -> TsplHead
    [] l = "CPCL" -> CpclHead
\* ^XZ, P1, PRINT 1, FORM and PRINT
Ends(l) == <<Mode("print", 1)>>

(***************************************************************************)
(* The printer.                                                            *)
(***************************************************************************)
\* Reads a field to its end: [text, escaped, over, broken].
Takes(l, f, c) ==
  IF f.over THEN [f EXCEPT !.broken = TRUE]
  ELSE IF f.escaped THEN [f EXCEPT !.text = Append(@, c), !.escaped = FALSE]
  ELSE CASE l = "ZPL" /\ c = "_" -> [f EXCEPT !.escaped = TRUE]
         [] l = "ZPL" /\ c \in {"^", "~"} -> [f EXCEPT !.over = TRUE]
         [] l = "EPL" /\ c = "\\" -> [f EXCEPT !.escaped = TRUE]
         [] l \in {"EPL", "TSPL"} /\ c = "\"" -> [f EXCEPT !.over = TRUE]
         [] l = "TSPL" /\ c = "\\[\"]" -> [f EXCEPT !.text = Append(@, "\"")]
         [] l = "CPCL" /\ c = "NL" -> [f EXCEPT !.over = TRUE]
         [] OTHER -> [f EXCEPT !.text = Append(@, c)]
FieldRead(l, data) ==
  LET f == FoldLeft(LAMBDA g, c : Takes(l, g, c),
                    [text |-> <<>>, escaped |-> FALSE, over |-> FALSE, broken |-> FALSE], data)
  IN  IF f.over \/ f.escaped THEN <<"broken">> ELSE f.text

\* Whether the font fills its own place in the command and no other: ^A has one
\* character, A ends it at a comma, TEXT at the closing quote, and CPCL has two
\* words, the font and its size.
FontIsTaken(l, font) ==
  CASE l = "ZPL" -> Len(font) = 1 /\ font[1] \notin {"^", "~", ","}
    [] l = "EPL" -> \A i \in DOMAIN font : font[i] \notin {",", "\""}
    [] l = "TSPL" -> \A i \in DOMAIN font : font[i] # "\""
    [] l = "CPCL" -> Len(SelectSeq(font, LAMBDA ch : ch = " ")) = 1
TextRead(l, c) == IF FontIsTaken(l, c.font) THEN FieldRead(l, c.data) ELSE <<"broken">>

\* ">0" in ^BC; EAN and UPC get their check digit.
Barred(l, c) ==
  LET text == FieldRead(l, c.data)
      plain == IF l = "ZPL" /\ c.kind = "Code128"
               THEN FoldLeft(LAMBDA acc, ch :
                               IF acc.escaped THEN [text |-> Append(acc.text, ">"), escaped |-> FALSE]
                               ELSE IF ch = ">" THEN [acc EXCEPT !.escaped = TRUE]
                               ELSE [acc EXCEPT !.text = Append(@, ch)],
                             [text |-> <<>>, escaped |-> FALSE], text).text
               ELSE text
  IN  IF c.kind \in {"Ean13", "Ean8", "UpcA"} THEN Append(plain, "check") ELSE plain

PrinterObeys(l, p, c) ==
  CASE c.op = "clear" -> [p EXCEPT !.buffer = <<>>]
    [] c.op = "mag" -> [p EXCEPT !.mag = IF c.n = 0 THEN 1 ELSE c.n]
    [] c.op = "hri" -> [p EXCEPT !.hri = c.n = 1]
    [] c.op \in {"darkness", "speed"} -> p
    [] c.op = "print" -> [p EXCEPT !.labels = Append(@, p.buffer), !.buffer = <<>>]
    [] c.op = "Barcode" -> [p EXCEPT !.buffer = Append(@, <<"Barcode", Barred(l, c), p.mag, p.hri>>)]
    [] c.op = "Text" -> [p EXCEPT !.buffer = Append(@, <<"Text", TextRead(l, c), p.mag, p.hri>>)]
    [] c.op \in {"Qr", "DataMatrix"} ->
         [p EXCEPT !.buffer = Append(@, <<c.op, FieldRead(l, c.data), p.mag, p.hri>>)]
    [] c.op = "Box" -> [p EXCEPT !.buffer = Append(@, <<"Box", <<>>, p.mag, p.hri>>)]
    [] c.op = "Raw" -> [p EXCEPT !.buffer = Append(@, <<"Raw", c.data, p.mag, p.hri>>)]

(***************************************************************************)
(* One label.                                                              *)
(***************************************************************************)
LabelInit ==
  /\ label \in Labels /\ language \in Hints
  /\ element = 0 /\ sent = <<>> /\ outcome = "submitted"
  /\ \E b \in {<<>>, << <<"Text", <<"x">>, 1, FALSE>> >>} :
       labelPrinter = [buffer |-> b, mag |-> 1, hri |-> FALSE, labels |-> <<>>]

Digits(data) == \A i \in DOMAIN data : data[i] = "1"
ValidData(e) ==
  CASE e.symbology = "Ean13" -> Digits(e.data) /\ Len(e.data) \in {12, 13}
    [] e.symbology = "Ean8"  -> Digits(e.data) /\ Len(e.data) \in {7, 8}
    [] e.symbology = "UpcA"  -> Digits(e.data) /\ Len(e.data) \in {11, 12}
    [] e.symbology = "Itf"   -> Digits(e.data) /\ Len(e.data) > 0 /\ Len(e.data) % 2 = 0
    [] e.symbology = "Code128" -> e.data # <<>> /\ \A i \in DOMAIN e.data : e.data[i] \notin {"u", "e", "NL", "TAB"}
    [] e.symbology = "Code39" -> e.data # <<>> /\ \A i \in DOMAIN e.data : e.data[i] \in {"1", " "}

\* 1 to 32 graphic ASCII characters, or none given
ValidFont(font) ==
  font # <<>> => /\ Len(Head(font)) \in 1..32
                 /\ \A i \in DOMAIN Head(font) : Head(font)[i] \notin {" ", "e", "u", "NL", "TAB"}

ValidElement(e) ==
  /\ e.type # "Raw" => e.x \in 0..(label.width - 1) /\ e.y \in 0..(label.tall - 1)
  /\ CASE e.type = "Text" ->
            /\ Len(e.data) \in 1..1000 /\ e.height \in 1..200 /\ e.rotation \in {0, 90, 180, 270}
            /\ ValidFont(e.font)
       [] e.type = "Barcode" -> ValidData(e) /\ e.rotation \in {0, 90, 180, 270}
       [] e.type \in {"Qr", "DataMatrix"} -> e.data # <<>>
       [] e.type = "Box" -> e.width > 0 /\ e.tall > 0 /\ e.thick > 0
       [] OTHER -> TRUE

MediaValid == label.width \in 5..600 /\ label.tall \in 5..2000 /\ label.dpi \in 100..1200
SettingsValid == label.darkness \in 0..30 /\ label.speed \in 1..14

\* LabelRenderer::validate
LabelValid ==
  /\ MediaValid /\ SettingsValid
  /\ label.elements # <<>> /\ \A i \in DOMAIN label.elements : ValidElement(label.elements[i])
  /\ label.language # "" => label.language \in LabelLanguages

LabelValidates ==
  /\ outcome = "submitted"
  /\ outcome' = IF LabelValid THEN "valid" ELSE "rejected"
  /\ UNCHANGED <<label, language, element, sent, labelPrinter>>

\* The label's own language, else the printer's; it must have label support.
ChoosesLanguage ==
  /\ outcome = "valid"
  /\ language' = IF label.language # "" THEN label.language ELSE language
  /\ IF language' \in LabelLanguages
     THEN outcome' = "encoding" /\ sent' = HeadOf(language')
     ELSE outcome' = "failed" /\ UNCHANGED sent
  /\ UNCHANGED <<label, element, labelPrinter>>

TextFails(l, e) == e.type \in {"Text", "Qr", "DataMatrix"} /\ ~EncodableIn(l, e.data)
Encodes(l, commands0) ==
  /\ IF commands0 = <<>> \/ TextFails(l, label.elements[element + 1])
     THEN outcome' = "failed" /\ UNCHANGED <<element, sent>>
     ELSE /\ sent' = sent \o commands0 /\ element' = element + 1
          /\ UNCHANGED outcome
  /\ UNCHANGED <<label, language, labelPrinter>>

NextElement(l) == outcome = "encoding" /\ language = l /\ element < Len(label.elements)
EncodesZpl == NextElement("ZPL") /\ Encodes("ZPL", ZplElement(label.elements[element + 1]))
EncodesEpl == NextElement("EPL") /\ Encodes("EPL", EplElement(label.elements[element + 1]))
EncodesTspl == NextElement("TSPL") /\ Encodes("TSPL", TsplElement(label.elements[element + 1]))
EncodesCpcl == NextElement("CPCL") /\ Encodes("CPCL", CpclElement(label.elements[element + 1]))

LabelEnds ==
  /\ outcome = "encoding" /\ element = Len(label.elements)
  /\ sent' = sent \o Ends(language) /\ outcome' = "encoded"
  /\ UNCHANGED <<label, language, element, labelPrinter>>

LabelPrints ==
  /\ outcome = "encoded" /\ outcome' = "printed"
  /\ labelPrinter' = FoldLeft(LAMBDA p, c : PrinterObeys(language, p, c), labelPrinter, sent)
  /\ UNCHANGED <<label, language, element, sent>>

LabelNext ==
  \/ LabelValidates \/ ChoosesLanguage \/ EncodesZpl \/ EncodesEpl \/ EncodesTspl
  \/ EncodesCpcl \/ LabelEnds \/ LabelPrints
LabelSpec == LabelInit /\ [][LabelNext]_labelVars
-----------------------------------------------------------------------------
\* The encoder and the printer have their types.
LabelTypeOK ==
  /\ outcome \in {"submitted", "valid", "rejected", "encoding", "failed", "encoded", "printed"}
  /\ element \in 0..Len(label.elements) /\ Len(labelPrinter.labels) \in 0..1
  /\ outcome = "encoding" => language \in LabelLanguages

\* What the client asked for, as it should be seen on the label.
DataAsked(e) ==
  IF e.type = "Barcode" /\ e.symbology \in {"Ean13", "Ean8", "UpcA"}
  THEN Append(SubSeq(e.data, 1, CASE e.symbology = "Ean13" -> 12 [] e.symbology = "Ean8" -> 7
                                  [] OTHER -> 11), "check")
  ELSE CASE e.type = "Raw" -> e.data
         [] e.type = "Box" -> <<>>
         [] OTHER -> [i \in DOMAIN e.data |->
                        IF e.data[i] = "NL" \/ (e.data[i] = "TAB" /\ language # "ZPL")
                        THEN " " ELSE e.data[i]]

\* Every font a client names is one the language can take.  The code passes it
\* on as it came (model/label.rs:126); for CPCL, whose fonts are two words, no
\* name that passes validation is one.
FontsAreNames ==
  \A i \in DOMAIN label.elements :
    LET e == label.elements[i]
    IN  e.type = "Text" /\ e.font # <<>> => FontIsTaken(language, Head(e.font))

EveryElementAsAsked ==
  outcome = "printed" =>
    /\ Len(labelPrinter.labels) = 1
    /\ Len(labelPrinter.labels[1]) = Len(label.elements)
    /\ \A i \in DOMAIN label.elements :
         /\ labelPrinter.labels[1][i][1] = label.elements[i].type
         /\ labelPrinter.labels[1][i][2] = DataAsked(label.elements[i])

\* One label is printed, with every element of the document once and in order
\* and nothing else: no field ends early or runs over, and nothing of an
\* earlier label is left in the buffer (label/mod.rs:3-6); for labels whose
\* fonts the language can take.
LabelIsAsAsked == outcome = "printed" /\ FontsAreNames => EveryElementAsAsked

\* An element the language cannot express fails the label before anything is
\* sent; it is never left out (label/mod.rs:6).
NothingIsDropped ==
  /\ outcome \in {"encoded", "printed"} => \A i \in DOMAIN label.elements :
       /\ language \in {"EPL", "CPCL"} => label.elements[i].type # "DataMatrix"
       /\ language = "CPCL" /\ label.elements[i].type = "Barcode" =>
            label.elements[i].rotation \in {0, 90}
  /\ outcome \in {"rejected", "failed"} => labelPrinter.labels = <<>>

\* CPCL's modes hold for one element: text is magnified, and a barcode has its
\* text, exactly when that element asked for it.
ModesAreOwn ==
  outcome = "printed" /\ language = "CPCL" /\ FontsAreNames =>
    \A i \in DOMAIN label.elements :
      LET e == label.elements[i]
          shown == labelPrinter.labels[1][i]
      IN  /\ shown[3] = IF e.type = "Text" /\ e.font = <<>> THEN Magnification(e) ELSE 1
          /\ shown[4] = (e.type = "Barcode" /\ e.readable)

\* Without a font of the client's, no other font and magnification comes closer
\* to the height asked for.
FontIsClosest ==
  outcome = "printed" /\ language \in {"EPL", "TSPL"} =>
    \A i \in DOMAIN sent :
      sent[i].op = "Text" =>
        \E k \in DOMAIN label.elements :
          LET e == label.elements[k]
              fonts == FontsOf(language)
              error(f, m) == AbsDiff(ScaledFont(fonts[f]) * m, AtLeastOne(e.height))
          IN  /\ e.type = "Text"
              /\ IF e.font # <<>> THEN sent[i].font = Head(e.font) /\ sent[i].mult = 1
                 ELSE \E best \in 1..5 :
                        /\ sent[i].font = <<FontNames[best]>>
                        /\ \A f \in 1..5, m \in 1..9 : error(best, sent[i].mult) <= error(f, m)

\* Darkness and speed are within what the language allows, and more of either
\* is never less on its scale.
SettingsAreInRange ==
  \A i \in DOMAIN sent :
    sent[i].op = "darkness" =>
      /\ sent[i].n \in 0..(CASE language = "ZPL" -> 30 [] language = "CPCL" -> 3 [] OTHER -> 15)
      /\ label.darkness = 30 => sent[i].n = CASE language = "ZPL" -> 30 [] language = "CPCL" -> 3
                                              [] OTHER -> 15

\* In each of the four languages the label is the one asked for, provided the
\* language can take the fonts named in it, or an error before anything is sent
\* (label/mod.rs).
LabelIsAsDrawn ==
  /\ LabelTypeOK /\ LabelIsAsAsked /\ NothingIsDropped /\ ModesAreOwn
  /\ FontIsClosest /\ SettingsAreInRange

\* Not true of the code: whatever font a label that passes validation names,
\* every field keeps to its place ("escapes field data so client text can never
\* inject commands", label/mod.rs:4-5).  Only the text is escaped, not the font.
AnyFontKeepsToItsField == EveryElementAsAsked

\* Not true of the code: the far corner of a box lies beyond its near one
\* (label/mod.rs:3).  The sum wraps for a box far wider than any label.
BoxIsTheRightWayRound ==
  \A i \in DOMAIN sent :
    sent[i].op = "Box" => sent[i].x2 > sent[i].x /\ sent[i].y2 > sent[i].y
=============================================================================
