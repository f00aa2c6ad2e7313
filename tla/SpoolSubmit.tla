----------------------------- MODULE SpoolSubmit -----------------------------
(***************************************************************************)
(* Handing a document to the Windows spooler (providers/windows/src/       *)
(* provider.rs submit_inner, raw.rs, gdi.rs, raster.rs, pdf.rs).           *)
(*                                                                         *)
(* One submission, from opening the printer to the end or the abort of     *)
(* the spool job.  Every call into Windows may fail.  A page is a sequence *)
(* of pieces: bytes of a RAW payload, lines of text, a PDF page, bands of  *)
(* an image.                                                               *)
(***************************************************************************)
EXTENDS PageLayout

CONSTANTS
  Documents,   \* SubmitSpecs: [kind, copies, setup, ...]
  Devices,     \* printers: [caps, printable, paper, direct]
  Chunk        \* CHUNK, in bytes of a RAW payload

ASSUME SubmitAssumption ==
  /\ Chunk \in Nat \ {0}
  /\ \A d \in Documents : d.copies \in Nat /\ d.kind \in {"Raw", "Text", "Pdf", "Image"}
  /\ \A v \in Devices :
       /\ v.direct \in BOOLEAN
       /\ Len(v.caps.papers) \in Nat /\ DOMAIN v.caps.papers = 1..Len(v.caps.papers)

VARIABLES
  doc,      \* the SubmitSpec
  printer,  \* the printer; direct: it does not spool, what is written prints
  stage,    \* where submit_inner is
  devmode,  \* the driver settings in force
  plan,     \* the pages of one copy
  finished, \* pages finished so far, over all copies
  current,  \* pieces written to the page that is open
  spool,    \* the spool job: its pages
  paper,    \* the pages that reached the paper
  answer    \* what submit_inner returned: [ok, recoverable]

submitVars == <<doc, printer, stage, devmode, plan, finished, current, spool, paper, answer>>

NoAnswer == [ok |-> FALSE, recoverable |-> FALSE]
Defaults == [paper |-> [how |-> "default"], duplex |-> "default",
             color |-> "default", tray |-> "default"]

\* A failed call: only RPC failures are recoverable, and none is once RAW data
\* may have been written (map_error, raw.rs partial).
Error(rpc) == [ok |-> FALSE, recoverable |-> rpc /\ (doc.kind # "Raw" \/ stage = "opening")]

SetupOf(d) == IF d.kind \in {"Pdf", "Image"} THEN d.setup ELSE Defaults
\* RAW data bypasses the driver.
DevmodeOf(d, caps) == IF d.kind = "Raw" THEN build(Defaults, caps)
                      ELSE build(SetupOf(d), caps)

Dest(d, device) ==
  place(d.natural, AreaOf(device, d.margin, d.placement), d.placement, d.align)

\* The text area: margins count from the paper's edge, coordinates from that
\* of the printable area, and no side leaves it.
PageGeometry(device, margin) ==
  LET Clamp(v, limit) == Max({0, Min({v, limit})})
      w == device.printable.width
      h == device.printable.height
  IN  [left |-> Clamp(margin + device.paper.x, w),
       top |-> Clamp(margin + device.paper.y, h),
       right |-> Clamp(device.paper.width - margin + device.paper.x, w),
       bottom |-> Clamp(device.paper.height - margin + device.paper.y, h)]
TextWidth(d, device) ==
  LET g == PageGeometry(device, d.margin) IN Max({1, g.right - g.left})
LinesPerPage(d, device) ==
  LET g == PageGeometry(device, d.margin)
  IN  Max({1, (g.bottom - g.top) \div d.lineHeight})

TextPages(d, device) ==
  LET Broken(line) == IF d.wrap THEN wrap_line(line, TextWidth(d, device)) ELSE <<line>>
  IN  paginate([p \in DOMAIN d.pages |->
                  FlattenSeq([l \in DOMAIN d.pages[p] |-> Broken(d.pages[p][l])])],
               LinesPerPage(d, device))

\* None for a page range outside the document.
PdfPages(d) ==
  LET at == indices(d.ranges, d.count) IN [i \in DOMAIN at |-> <<at[i]>>]

\* The pages of one copy.
PagesOf(d, device) ==
  CASE d.kind = "Raw" -> << [i \in 1..d.bytes |-> i] >>
    [] d.kind = "Text" -> TextPages(d, device)
    [] d.kind = "Pdf" -> PdfPages(d)
    [] d.kind = "Image" -> << Bands(d.rows, d.bandRows, Dest(d, device)) >>

\* A layout is a sequence of pages, and a page one of pieces.
ASSUME LayoutAssumption ==
  \A d \in Documents, v \in Devices :
    LET pages == PagesOf(d, v) IN
    /\ Len(pages) \in Nat /\ pages = [i \in 1..Len(pages) |-> pages[i]]
    /\ \A i \in 1..Len(pages) :
         Len(pages[i]) \in Nat /\ pages[i] = [k \in 1..Len(pages[i]) |-> pages[i][k]]

SubmitInit ==
  /\ doc \in Documents /\ printer \in Devices
  /\ stage = "opening" /\ devmode = Refused /\ plan = <<>>
  /\ finished = 0 /\ current = <<>> /\ spool = <<>> /\ paper = <<>>
  /\ answer = NoAnswer

Returns(result) == stage' = "returned" /\ answer' = result

\* The document does not open, selects no page or asks for what the printer
\* does not have: an error before there is a spool job.
Rejects ==
  /\ stage = "opening"
  /\ ~DevmodeOf(doc, printer.caps).ok \/ PagesOf(doc, printer) = <<>>
  /\ Returns(NoAnswer)
  /\ UNCHANGED <<doc, printer, devmode, plan, finished, current, spool, paper>>

\* The device context or the spool job cannot be made.
OpenFails(rpc) ==
  /\ stage = "opening"
  /\ Returns(Error(rpc))
  /\ UNCHANGED <<doc, printer, devmode, plan, finished, current, spool, paper>>

\* devmode::build, CreateDC and StartDoc; then the pages are laid out.
StartDoc ==
  /\ stage = "opening"
  /\ DevmodeOf(doc, printer.caps).ok /\ PagesOf(doc, printer) # <<>>
  /\ devmode' = DevmodeOf(doc, printer.caps)
  /\ plan' = PagesOf(doc, printer)
  /\ stage' = "between"
  /\ UNCHANGED <<doc, printer, finished, current, spool, paper, answer>>

AllPages == doc.copies * Len(plan)
NextPage == plan[(finished % Len(plan)) + 1]

StartPage ==
  /\ stage = "between" /\ finished < AllPages
  /\ stage' = "writing" /\ current' = <<>>
  /\ UNCHANGED <<doc, printer, devmode, plan, finished, spool, paper, answer>>

\* WritePrinter takes n bytes of a chunk; TextOut and StretchDIBits draw one
\* line or band.
Writes(n) ==
  /\ stage = "writing" /\ n \in 1..(Len(NextPage) - Len(current))
  /\ n <= IF doc.kind = "Raw" THEN Chunk ELSE 1
  /\ current' = current \o SubSeq(NextPage, Len(current) + 1, Len(current) + n)
  /\ UNCHANGED <<doc, printer, stage, devmode, plan, finished, spool, paper, answer>>

EndPage ==
  /\ stage = "writing" /\ Len(current) = Len(NextPage)
  /\ stage' = "between" /\ finished' = finished + 1
  /\ spool' = Append(spool, current)
  /\ paper' = IF printer.direct THEN Append(paper, current) ELSE paper
  /\ UNCHANGED <<doc, printer, devmode, plan, current, answer>>

\* EndDoc marks the job finished; the spooler prints it.
EndDoc ==
  /\ stage = "between" /\ finished = AllPages
  /\ Returns([ok |-> TRUE, recoverable |-> FALSE])
  /\ paper' = spool
  /\ UNCHANGED <<doc, printer, devmode, plan, finished, current, spool>>

\* Mutant: a job that failed is ended where it is, not aborted
FailsEnds(rpc) ==
  /\ stage \in {"between", "writing"}
  /\ Returns(Error(rpc))
  /\ paper' = spool
  /\ UNCHANGED <<doc, printer, devmode, plan, finished, current, spool>>

\* Any call of the loop fails, or writes nothing: the error is returned and
\* dropping the guard aborts the job.  A direct printer has what it was sent.
Fails(rpc) ==
  /\ stage \in {"between", "writing"}
  /\ Returns(Error(rpc))
  /\ spool' = <<>>
  /\ paper' = IF printer.direct /\ stage = "writing" /\ doc.kind = "Raw"
              THEN Append(paper, current) ELSE paper
  /\ UNCHANGED <<doc, printer, devmode, plan, finished, current>>

SubmitNext ==
  \/ Rejects \/ StartDoc \/ StartPage \/ EndPage \/ EndDoc
  \/ \E n \in 1..Chunk : Writes(n)
  \/ \E rpc \in BOOLEAN : OpenFails(rpc) \/ Fails(rpc)

SubmitSpec == SubmitInit /\ [][SubmitNext]_submitVars
-----------------------------------------------------------------------------
Ink(s) == SelectSeq(s, LAMBDA c : c # Space)
Copy(k) == SubSeq(paper, (k - 1) * Len(plan) + 1, k * Len(plan))

\* Stages and counters have their types.
SubmitTypeOK ==
  /\ stage \in {"opening", "between", "writing", "returned"}
  /\ finished \in 0..AllPages
  /\ Len(spool) \in {0, finished}
  /\ answer \in [ok : BOOLEAN, recoverable : BOOLEAN]

\* A job that was accepted is on paper in all its copies and with nothing else:
\* every page of every copy, with each of its pieces once and in order, however
\* the writes were cut (raw.rs, gdi.rs, raster.rs).
CopiesAreComplete ==
  stage = "returned" /\ answer.ok =>
    /\ Len(paper) = doc.copies * Len(PagesOf(doc, printer))
    /\ \A k \in 1..doc.copies : Copy(k) = PagesOf(doc, printer)

\* What a job that was accepted puts on paper is the document, in every copy:
\* all bytes once and in order; all of the text, no line wider than the paper
\* and no page longer; the pages asked for in the order given; bands that meet
\* without gap or overlap and, when fitted, stay inside the area (layout.rs,
\* page.rs, raster.rs).
PaperIsTheDocument ==
  stage = "returned" /\ answer.ok => \A k \in 1..doc.copies :
    CASE doc.kind = "Raw" -> Copy(k) = << [i \in 1..doc.bytes |-> i] >>
      [] doc.kind = "Text" ->
           /\ Ink(FlattenSeq(FlattenSeq(Copy(k))))
                = Ink(FlattenSeq(FlattenSeq(doc.pages)))
           /\ \A sheet \in ToSet(Copy(k)) :
                /\ Len(sheet) <= LinesPerPage(doc, printer)
                /\ doc.wrap => \A l \in ToSet(sheet) : Len(l) <= TextWidth(doc, printer)
      [] doc.kind = "Pdf" ->
           FlattenSeq(Copy(k)) =
             FlattenSeq([r \in DOMAIN doc.ranges |->
               SelectSeq([i \in 1..doc.count |-> i - 1], LAMBDA i :
                 /\ i + 1 >= doc.ranges[r][1]
                 /\ doc.ranges[r][2] = 0 \/ i + 1 <= doc.ranges[r][2])])
      [] doc.kind = "Image" ->
           LET drawn == Copy(k)[1]
               area  == AreaOf(printer, doc.margin, doc.placement)
           IN  /\ drawn # <<>>
               /\ \A b \in 1..(Len(drawn) - 1) : drawn[b][2] = drawn[b + 1][1]
               /\ Last(drawn)[2] - drawn[1][1] = Dest(doc, printer).height
               /\ doc.placement \in {"Fit", "ShrinkToFit"} =>
                    /\ drawn[1][1] >= area.y
                    /\ Last(drawn)[2] <= area.y + area.height
               /\ doc.placement = "Fill" =>
                    Last(drawn)[2] - drawn[1][1] >= area.height

\* An error at any point leaves nothing to print on a printer that spools
\* (raw.rs:23, raster.rs:4).
WholeOrNothing ==
  ~printer.direct /\ ~answer.ok => paper = <<>>

\* A job prints with the settings its client asked for, or is refused: a
\* setting is never replaced by the printer's own (page.rs:3-6).
SetupIsHonoured ==
  paper # <<>> =>
    LET s == SetupOf(doc)
        chosen == {p \in ToSet(printer.caps.papers) : <<p.id>> = devmode.paper}
    IN  /\ s.paper.how = "named" =>
             \E p \in chosen : s.paper.name \in {p.id, p.name, p.first}
        /\ s.paper.how = "custom" =>
             \/ devmode.paper = <<s.paper.w, s.paper.h>>
             \/ \E p \in chosen : p.w - s.paper.w \in -1..1 /\ p.h - s.paper.h \in -1..1
        /\ s.duplex \in {"LongEdge", "ShortEdge"} => printer.caps.duplex # "no"
        /\ s.color = "Color" => printer.caps.color # "no"
        /\ <<s.duplex, s.color, s.tray>> = <<devmode.duplex, devmode.color, devmode.tray>>

\* A job is printed as it was asked for, or not at all (raw.rs, gdi.rs,
\* raster.rs, page.rs).
PrintsAsAskedOrNot == SubmitTypeOK /\ CopiesAreComplete /\ WholeOrNothing /\ SetupIsHonoured

\* Not true of the code: an error is recoverable only if no page reached the
\* paper (worker.rs:83).  gdi.rs and raster.rs keep map_error's verdict.
RecoverableIsUnprinted == stage = "returned" /\ answer.recoverable => paper = <<>>
=============================================================================
