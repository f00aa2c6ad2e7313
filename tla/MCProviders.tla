----------------------------- MODULE MCProviders -----------------------------
(* Instances of the providers for TLC.  They share no state, so a behaviour *)
(* is one of a single provider, chosen at the start.                        *)
EXTENDS SpoolWatch, TcpProvider, SpoolSubmit

VARIABLE active

x == "x"
Lines == {<<x, x, x, x>>, <<x, " ", x, x>>, <<" ", x, x, x, " ", x>>, <<x, " ", " ", " ">>}
Setups == {Defaults} \cup
  {[Defaults EXCEPT !.paper = p] :
     p \in {[how |-> "named", name |-> "A4"], [how |-> "named", name |-> "Legal"],
            [how |-> "custom", w |-> 211, h |-> 297],
            [how |-> "custom", w |-> 100, h |-> 150]}} \cup
  {[Defaults EXCEPT !.duplex = "LongEdge", !.tray = t] : t \in {"1", "7"}} \cup
  {[Defaults EXCEPT !.color = "Color"]}

MCDocuments ==
  [kind : {"Raw"}, copies : 1..2, bytes : {0, 3}]
  \cup [kind : {"Text"}, copies : 1..2, wrap : {TRUE}, margin : {4, 5}, lineHeight : {3},
        pages : {<< <<l>>, <<>>, <<m>> >> : l \in Lines, m \in {<<>>, <<x, x, x>>}}]
  \cup [kind : {"Pdf"}, copies : 1..2, count : {3}, setup : {Defaults},
        ranges : {r \in {<< <<3, 0>>, <<1, 2>> >>, << <<2, 9>>, <<2, 2>> >>,
                         << <<4, 5>> >>, << <<2, 1>> >>} : RangesValid(r)}]
  \cup [kind : {"Image"}, copies : {1}, setup : Setups, margin : {0}, rows : {5},
        bandRows : {2}, natural : {<<4, 3>>}, placement : {"Fit"}, align : {"Center"}]
  \cup [kind : {"Image"}, copies : {1}, setup : {Defaults}, margin : {0, 2}, rows : {1, 5},
        bandRows : 1..2, natural : {<<3, 1>>, <<7, 20>>},
        placement : {"Fit", "ShrinkToFit", "Fill", "ActualSize"},
        align : {"Center", "TopLeft"}]

MCDevices ==
  {[caps |-> [papers |-> << [id |-> "1", name |-> "Letter 8.5x11in", first |-> "Letter",
                             w |-> 216, h |-> 279],
                            [id |-> "9", name |-> "A4 210 x 297 mm", first |-> "A4",
                             w |-> 210, h |-> 297] >>,
              duplex |-> d, color |-> "no", trays |-> {"1"}],
    printable |-> [x |-> 0, y |-> 0, width |-> 9, height |-> 12],
    paper |-> [x |-> -1, y |-> -1, width |-> 11, height |-> 14],
    direct |-> b] : d \in {"no", "unknown"}, b \in BOOLEAN}

Parts == {"watch", "tcp", "submit"}
DocumentAtRest == CHOOSE d \in MCDocuments : d.kind = "Raw"
SubmitAtRest ==
  /\ doc = DocumentAtRest /\ printer = CHOOSE d \in MCDevices : TRUE
  /\ stage = "opening" /\ devmode = Refused /\ plan = <<>>
  /\ finished = 0 /\ current = <<>> /\ spool = <<>> /\ paper = <<>> /\ answer = NoAnswer

ProvidersInit ==
  /\ active \in Parts
  /\ Init
  /\ IF active = "tcp" THEN TcpInit ELSE TcpInit /\ protocol = "None" /\ device.conds = {}
  /\ IF active = "submit" THEN SubmitInit ELSE SubmitAtRest

ProvidersNext ==
  /\ UNCHANGED active
  /\ \/ active = "watch" /\ Next /\ UNCHANGED <<tcpVars, submitVars>>
     \/ active = "tcp" /\ TcpNext /\ UNCHANGED <<vars, submitVars>>
     \/ active = "submit" /\ SubmitNext /\ UNCHANGED <<vars, tcpVars>>

ProvidersSpec ==
  /\ ProvidersInit /\ [][ProvidersNext]_<<active, vars, tcpVars, submitVars>>
  /\ TcpFairness
=============================================================================
