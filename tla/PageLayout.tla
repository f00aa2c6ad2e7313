------------------------------ MODULE PageLayout ------------------------------
(***************************************************************************)
(* Page ranges, placement, text wrapping and bands: what goes where on the *)
(* paper (print-core/src/model/page.rs, providers/windows/src/layout.rs,   *)
(* raster.rs, devmode.rs).                                                 *)
(*                                                                         *)
(* Text is a sequence of characters of one width, and sizes are in device  *)
(* pixels; a scale is a pair <<numerator, denominator>>.                   *)
(*                                                                         *)
(* A definition marked "Mutant" is a plausible mistake in the definition   *)
(* that follows it and is not part of the specification.                   *)
(***************************************************************************)
EXTENDS Integers, Sequences, FiniteSets, SequencesExt

Space == " "

(***************************************************************************)
(* PageRanges: a range is <<first, last>>, 1-based, last 0 when open.      *)
(***************************************************************************)
RangesValid(ranges) ==
  ranges # <<>> /\ \A r \in ToSet(ranges) : r[1] # 0 /\ (r[2] = 0 \/ r[2] >= r[1])

indices(ranges, count) ==
  LET Of(r) == LET end == IF r[2] = 0 \/ r[2] > count THEN count ELSE r[2]
               IN  [i \in 1..Max({0, end - r[1] + 1}) |-> r[1] + i - 2]
  IN  FlattenSeq([k \in DOMAIN ranges |-> Of(ranges[k])])

(***************************************************************************)
(* place: the rectangle content of a natural size takes in an area.        *)
(***************************************************************************)
Less(a, b) == a[1] * b[2] < b[1] * a[2]
Rounded(n, s) == Max({1, (2 * n * s[1] + s[2]) \div (2 * s[2])})
Half(n) == IF n >= 0 THEN n \div 2 ELSE -((-n) \div 2)

Scale(natural, area, placement) ==
  LET across == <<area.width, natural[1]>>
      down   == <<area.height, natural[2]>>
      fit    == IF Less(across, down) THEN across ELSE down
  IN  CASE placement = "Fit" -> fit
        [] placement = "ShrinkToFit" -> IF Less(fit, <<1, 1>>) THEN fit ELSE <<1, 1>>
        [] placement = "Fill" -> IF Less(across, down) THEN down ELSE across
        [] placement = "ActualSize" -> <<1, 1>>

place(natural, area, placement, align) ==
  LET scale  == Scale(natural, area, placement)
      width  == Rounded(natural[1], scale)
      height == Rounded(natural[2], scale)
      center == align = "Center"
  IN  [x |-> area.x + (IF center THEN Half(area.width - width) ELSE 0),
       y |-> area.y + (IF center THEN Half(area.height - height) ELSE 0),
       width |-> width, height |-> height]

\* Geometry::area: the paper less the margins; without margins the printable
\* area for fitting modes, the whole paper for the others
AreaOf(device, margin, placement) ==
  IF margin > 0
  THEN [x |-> device.paper.x + margin, y |-> device.paper.y + margin,
        width |-> Max({1, device.paper.width - 2 * margin}),
        height |-> Max({1, device.paper.height - 2 * margin})]
  ELSE IF placement = "ActualSize" THEN device.paper ELSE device.printable

\* draw: bands of at most bandRows rows of an image, each <<top, bottom>> on
\* the paper; a band that is less than a pixel high is not drawn
Bands(rows, bandRows, dest) ==
  LET edge(r) == dest.y + (r * dest.height) \div rows
      top(b)  == (b - 1) * bandRows
      bottom(b) == IF b * bandRows > rows THEN rows ELSE b * bandRows
      count   == (rows + bandRows - 1) \div bandRows
  IN  SelectSeq([b \in 1..count |-> <<edge(top(b)), edge(bottom(b))>>],
                LAMBDA band : band[2] > band[1])

(***************************************************************************)
(* wrap_line and paginate.                                                 *)
(***************************************************************************)
trim_end(s) == SubSeq(s, 1, SelectLastInSeq(s, LAMBDA c : c # Space))

split_inclusive(line) ==
  FoldLeft(LAMBDA words, c :
             IF words # <<>> /\ Last(Last(words)) # Space
             THEN Append(Front(words), Append(Last(words), c))
             ELSE Append(words, <<c>>),
           <<>>, line)

break_word(word, width) ==
  FoldLeft(LAMBDA pieces, c :
             LET current == Append(Last(pieces), c)
             IN  IF Len(trim_end(current)) > width /\ Len(current) > 1
                 THEN Append(pieces, <<c>>)
                 ELSE Append(Front(pieces), current),
           << <<>> >>, word)

wrap_line(line, width) ==
  LET fits(s) == Len(trim_end(s)) <= width
      Step(acc, word) ==
        LET pushed == IF acc.current = <<>> THEN acc.out
                      ELSE Append(acc.out, trim_end(acc.current))
            pieces == break_word(word, width)
        IN  IF fits(acc.current \o word)
            THEN [acc EXCEPT !.current = @ \o word]
            ELSE IF fits(word) THEN [out |-> pushed, current |-> word]
            ELSE [out |-> pushed \o Front(pieces), current |-> Last(pieces)]
      end == FoldLeft(Step, [out |-> <<>>, current |-> <<>>], split_inclusive(line))
  IN  IF Len(line) <= width THEN <<line>>
      ELSE IF trim_end(end.current) # <<>> \/ end.out = <<>>
      THEN Append(end.out, trim_end(end.current))
      ELSE end.out

\* Mutant: the rest of a page that does not fill a sheet is lost
PaginateWhole(pages, perPage) ==
  LET Chunks(page) == [k \in 1..(Len(page) \div perPage) |->
                         SubSeq(page, (k - 1) * perPage + 1, k * perPage)]
  IN  FlattenSeq([p \in DOMAIN pages |->
                    IF pages[p] = <<>> THEN << <<>> >> ELSE Chunks(pages[p])])

paginate(pages, perPage) ==
  LET Chunks(page) == [k \in 1..((Len(page) + perPage - 1) \div perPage) |->
                         SubSeq(page, (k - 1) * perPage + 1,
                                Min({k * perPage, Len(page)}))]
  IN  FlattenSeq([p \in DOMAIN pages |->
                    IF pages[p] = <<>> THEN << <<>> >> ELSE Chunks(pages[p])])

(***************************************************************************)
(* devmode::build: the settings a print job asks its driver for.  A paper  *)
(* is [id, name, first, w, h], first the first word of the driver's name;  *)
(* capabilities that the driver does not tell are "unknown".  A chosen     *)
(* paper is <<id>>, <<w, h>> or <<>> for the default.                      *)
(***************************************************************************)
Refused == [ok |-> FALSE]

resolve_paper(request, papers) ==
  LET Find(Test(_)) == SelectInSeq(papers, Test)
      exact == Find(LAMBDA p : request.name \in {p.id, p.name})
      word  == Find(LAMBDA p : request.name = p.first)
      near  == Find(LAMBDA p : /\ p.w - request.w \in -1..1
                               /\ p.h - request.h \in -1..1)
      native(k) == [ok |-> TRUE, paper |-> <<papers[k].id>>]
  IN  CASE request.how = "default" -> [ok |-> TRUE, paper |-> <<>>]
        [] request.how = "named" ->
             IF exact # 0 THEN native(exact) ELSE IF word # 0 THEN native(word)
             ELSE Refused
        [] request.how = "custom" ->
             IF near # 0 THEN native(near)
             ELSE [ok |-> TRUE, paper |-> <<request.w, request.h>>]

build(setup, caps) ==
  LET paper == resolve_paper(setup.paper, caps.papers)
  IN  IF \/ ~paper.ok
         \/ setup.duplex \notin {"default", "Simplex"} /\ caps.duplex = "no"
         \/ setup.color = "Color" /\ caps.color = "no"
         \/ setup.tray \notin caps.trays \cup {"default"}
      THEN Refused
      ELSE [ok |-> TRUE, paper |-> paper.paper, duplex |-> setup.duplex,
            color |-> setup.color, tray |-> setup.tray]
=============================================================================
