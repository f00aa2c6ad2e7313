----------------------------- MODULE MCRenderers -----------------------------
(* Instances of the renderers for TLC.  They share no state, so a behaviour *)
(* is one of a single renderer, chosen at the start.                        *)
EXTENDS HtmlRender, DocumentEncode, LabelEncode

VARIABLE active

Texts == {<<"x", "e">>, <<"x", "CR", "NL", "y">>, <<"u">>, <<>>}
TextItems ==
  {[type |-> "Text", text |-> t, align |-> a, bold |-> b, underline |-> b, double |-> ~b,
    invert |-> b, small |-> ~b] : t \in Texts, a \in {"Left", "Right"}, b \in BOOLEAN}
RawItems == {[type |-> "Raw", decodes |-> d,
              commands |-> <<set("underline", "on"), set("bold", "on"),
                             set("align", "Right")>>] : d \in BOOLEAN}
Times(n, c) == [i \in 1..n |-> c]
ReceiptItems ==
  TextItems \cup RawItems
  \cup [type : {"Columns"}, left : {<<"x", "x">>, Times(17, "x")},
        right : {<<"y">>, Times(15, "y"), Append(Times(15, "y"), "e")}, bold : BOOLEAN]
  \cup [type : {"Separator"}, character : {"-", "u"}]
  \cup [type : {"Barcode"}, symbology : {"Code128"}, length : {80}, braces : {0, 80},
        height : {255}, module : {2}, align : {"Center"}]
  \cup [type : {"Barcode"}, symbology : {"Code128", "Itf"}, length : {81, 254}, braces : {0},
        height : {80}, module : {2}, align : {"Left"}]
  \cup [type : {"Barcode"}, symbology : {"Ean13"}, length : {11, 13}, braces : {0},
        height : {80, 256}, module : {6}, align : {"Left"}]
  \cup [type : {"Qr"}, length : {253, 2000, 2001}, size : {16}, align : {"Right"}]
  \cup [type : {"Feed"}, lines : {0, 2, 101}]
  \cup [type : {"Image"}, width : {10, 40}, height : {1, 9}, max : {<<8>>}, decodes : BOOLEAN,
        align : {"Center"}]
  \cup [type : {"Image"}, width : {192, 384}, height : {9}, max : {<<>>}, decodes : {TRUE},
        align : {"Center"}]
  \cup [type : {"Cut"}] \cup [type : {"Drawer"}, pin : {0, 2}]

UpTo(n, S) == UNION {[1..k -> S] : k \in 1..n}
Receipts ==
  [type : {"Receipt"}, codePage : {"IBM437"}, width : {16}, cut : BOOLEAN, openDrawer : {FALSE},
   items : UpTo(2, ReceiptItems)]
  \cup [type : {"Receipt"}, codePage : {"utf-8", "IBM850", "cp-1"}, width : {15, 16}, cut : {TRUE},
        openDrawer : {TRUE}, items : UpTo(1, ReceiptItems)]

DotMatrixItems ==
  RawItems
  \cup [type : {"Text"}, text : {<<"x", "FF", "y">>, <<"x", "CR", "NL", "e">>, <<"u">>}]
  \cup [type : {"Line"}, text : {<<"x", "NL", "e">>},
        style : {{}, {"bold"}, {"condensed", "italic"}, {"wide", "strike", "underline"}}]
  \cup [type : {"LineFeed"}, lines : {0, 2}] \cup [type : {"FormFeed"}]
DotMatrixDocuments ==
  [type : {"DotMatrix"}, codePage : {"IBM437"}, table : {""}, initialize : BOOLEAN,
   quality : {"nlq"}, cpi : {10, 17}, lpi : {6}, pins : {24}, formLines : {<<>>},
   formInches : {<<>>}, skip : {<<>>}, leftMargin : {<<>>}, rightMargin : {<<>>}, formFeed : BOOLEAN, items : UpTo(2, DotMatrixItems)]
  \cup [type : {"DotMatrix"}, codePage : {"IBM850"}, table : {"", "IBM850"}, initialize : BOOLEAN,
        quality : {"draft"}, cpi : {12, 15, 20, 11}, lpi : {6, 8, 7}, pins : {9, 24},
        formLines : {<<>>, <<66>>}, formInches : {<<>>, <<12>>}, skip : {<<6>>},
        leftMargin : {<<0>>, <<5>>}, rightMargin : {<<80>>},
        formFeed : {TRUE}, items : UpTo(1, DotMatrixItems)]

PlainTexts ==
  [type : {"Text"}, codePage : {"IBM437"}, formFeed : BOOLEAN, tabWidth : {0, 2, 3, 33},
   text : UpTo(4, {"x", "TAB", "NL", "CR", "FF"})]
  \cup [type : {"Text"}, codePage : {"IBM437", "cp-1"}, formFeed : {TRUE}, tabWidth : {8},
        text : {<<>>, <<"x", "u">>, <<"x", "TAB", "x", "NL">>}]

MCWritten == Receipts \cup DotMatrixDocuments \cup PlainTexts
Dirty == [PowerOn EXCEPT !.bold = "on", !.size = "on", !.italic = "on", !.align = "Center",
                         !.table = "IBM850", !.condensed = "on", !.spacing = <<1, 8>>]
MCLeftModes == {Dirty}

LabelTexts == {<<"x", "NL", "e">>, <<"_", "^", "x">>, <<"~", "x">>, <<"\\", "\"">>,
               <<"\"", "x", "TAB">>, <<"u", "x">>}
FontsNamed == {<<"3">>, <<"A", "B">>, <<"A", "\"">>, <<"^">>, <<>>, <<"7", " ", "0">>}
Ones(n) == Times(n, "1")
LabelElements ==
  [type : {"Text"}, x : {2}, y : {0}, data : LabelTexts, height : {4}, rotation : {0}, font : {<<>>}]
  \cup [type : {"Text"}, x : {2}, y : {0}, data : {<<"x">>}, height : {1, 3, 25, 60, 200, 201},
        rotation : {90}, font : {<<>>}]
  \cup [type : {"Text"}, x : {2}, y : {0}, data : {<<"x">>}, height : {3}, rotation : {90},
        font : {<<f>> : f \in FontsNamed}]
  \cup [type : {"Barcode"}, x : {1}, y : {1}, symbology : {"Ean13"}, data : {Ones(12), Ones(13)},
        rotation : {0, 180}, readable : BOOLEAN]
  \cup [type : {"Barcode"}, x : {1}, y : {1}, symbology : {"Code128"},
        data : {<<">", "0">>, <<"_", "x", ">">>, <<"\"", "~">>}, rotation : {90}, readable : {FALSE}]
  \cup [type : {"Barcode"}, x : {1}, y : {1}, symbology : {"Itf", "Ean8", "UpcA", "Code39"},
        data : {Ones(2), Ones(7), Ones(11), <<"x">>}, rotation : {0}, readable : {FALSE}]
  \cup [type : {"Qr", "DataMatrix"}, x : {0, 100}, y : {0}, data : {<<"x", "\"">>, <<"u">>}]
  \cup [type : {"Box"}, x : {0}, y : {1}, width : {20}, tall : {5}, thick : {0, 1}]
  \cup [type : {"Raw"}, data : {<<"x">>}]
LabelsOf(languages, dpis, darks, elements) ==
  [width : {50}, tall : {30}, dpi : dpis, language : languages, darkness : darks, speed : {14},
   elements : elements]
MCLabels ==
  LabelsOf({""}, {203}, {10}, [1..2 -> LabelElements])
  \cup LabelsOf({"", "CPCL"}, {100, 300}, {0}, {<<e>> : e \in LabelElements})
  \cup LabelsOf({"", "ZPL", "ESC/POS", "PCL"}, {203}, {0, 15, 30, 31},
                {<<[type |-> "Raw", data |-> <<"x">>]>>, <<>>})
MCHints == LabelLanguages \cup {"", "ESC/POS"}
WideBoxes ==
  LabelsOf({"EPL"}, {203}, {10},
           {<<[type |-> "Box", x |-> 1, y |-> 1, width |-> w, tall |-> 5, thick |-> 1]>> :
              w \in {20, 10000}})
GapLabels ==
  WideBoxes
  \cup LabelsOf({""}, {203}, {10}, {<<e>> : e \in {f \in LabelElements : f.type = "Text"}})

HtmlAtRest ==
  /\ javascript = FALSE
  /\ now = 0 /\ profile = FALSE /\ browser = "none" /\ page = NoPage
  /\ client = [pc |-> "returned", attempt |-> 1, startBy |-> 0, cmd |-> 0,
               waits |-> 0, result |-> "none"]
  /\ open = Nothing /\ commands = <<>> /\ stream = <<>> /\ seen = {} /\ next_id = 0

Parts == {"html", "text", "label"}
TextAtRest == CHOOSE d \in PlainTexts : TRUE
LabelAtRest == CHOOSE l \in WideBoxes : TRUE
RenderersInit ==
  /\ active \in Parts
  /\ IF active = "html" THEN HtmlInit ELSE HtmlAtRest
  /\ IF active = "text" THEN EncodeInit
     ELSE /\ document = TextAtRest /\ item = 0 /\ out = <<>> /\ verdict = "submitted"
          /\ device = [modes |-> PowerOn, line |-> <<>>, paper |-> <<>>, row |-> 0]
  /\ IF active = "label" THEN LabelInit
     ELSE /\ label = LabelAtRest /\ language = "" /\ element = 0 /\ sent = <<>>
          /\ outcome = "submitted"
          /\ labelPrinter = [buffer |-> <<>>, mag |-> 1, hri |-> FALSE, labels |-> <<>>]

RenderersNext ==
  /\ UNCHANGED active
  /\ \/ active = "html" /\ HtmlNext /\ UNCHANGED <<encodeVars, labelVars>>
     \/ active = "text" /\ EncodeNext /\ UNCHANGED <<htmlVars, labelVars>>
     \/ active = "label" /\ LabelNext /\ UNCHANGED <<htmlVars, encodeVars>>

RenderersSpec ==
  /\ RenderersInit /\ [][RenderersNext]_<<active, htmlVars, encodeVars, labelVars>>
  /\ HtmlFairness
=============================================================================
