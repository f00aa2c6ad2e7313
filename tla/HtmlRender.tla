------------------------------ MODULE HtmlRender ------------------------------
(***************************************************************************)
(* Printing HTML through a headless browser (renderers/src/html/mod.rs,    *)
(* cdp.rs).                                                                *)
(*                                                                         *)
(* render starts a browser with a throw-away profile, drives it with a     *)
(* fixed sequence of DevTools commands, each answered before the next is   *)
(* sent, and kills it at the end.  Answers, events and the requests of the *)
(* page that interception has paused arrive in one stream.  The browser is *)
(* external: it may hang, crash, answer with an error, and its page loads  *)
(* on its own time.                                                        *)
(*                                                                         *)
(* A definition marked "Mutant" is a plausible mistake in the definition   *)
(* that follows it and is not part of the specification.                   *)
(***************************************************************************)
EXTENDS Naturals, Sequences, FiniteSets

CONSTANTS
  Timeout,        \* HtmlConfig.timeout in ticks
  StartupLimit,   \* STARTUP_LIMIT in ticks
  Resources,      \* network resources the document refers to
  ConnectHangs    \* the browser accepts the connection and says nothing

ASSUME HtmlAssumption ==
  Timeout \in Nat /\ StartupLimit \in Nat /\ ConnectHangs \in BOOLEAN

VARIABLES
  javascript,  \* HtmlConfig.javascript
  now,         \* the clock, stopped one tick after the deadline
  client,      \* render: [pc, attempt, startBy, cmd, waits, result]
  profile,     \* the profile directory exists
  browser,     \* none, starting, up or dead
  page,        \* in the browser: [enabled, noScripts, fetch, content, blank, loaded]
  open,        \* resources of the page still loading, and those paused
  commands,    \* to the browser: <<id, method, argument>>
  stream,      \* from the browser: [kind, id, value]
  seen,        \* Cdp.events: kinds of events read by a call
  next_id      \* Cdp.next_id

htmlVars == <<javascript, now, client, profile, browser, page, open, commands,
              stream, seen, next_id>>

NoPage == [enabled |-> FALSE, noScripts |-> FALSE, fetch |-> FALSE,
           content |-> FALSE, blank |-> FALSE, loaded |-> FALSE]
Nothing == [loading |-> {}, paused |-> {}, leaked |-> {}]

\* Mutant: interception is switched on once the document is there
ScriptLate ==
  <<"createTarget", "attach", "Page.enable">>
  \o (IF javascript THEN <<>> ELSE <<"noScripts">>)
  \o <<"frameTree", "setContent", "Fetch.enable", "load", "fonts", "printToPDF">>

\* The commands of print_to_pdf; "load" is the wait for Page.loadEventFired.
Script ==
  <<"createTarget", "attach", "Page.enable">>
  \o (IF javascript THEN <<>> ELSE <<"noScripts">>)
  \o <<"Fetch.enable", "frameTree", "setContent", "load", "fonts", "printToPDF">>

HtmlInit ==
  /\ javascript \in BOOLEAN
  /\ now = 0 /\ profile = FALSE /\ browser = "none" /\ page = NoPage
  /\ client = [pc |-> "launching", attempt |-> 1, startBy |-> 0, cmd |-> 0,
               waits |-> 0, result |-> "none"]
  /\ open = Nothing /\ commands = <<>> /\ stream = <<>> /\ seen = {} /\ next_id = 0

(***************************************************************************)
(* The renderer.                                                           *)
(***************************************************************************)
\* A profile and a process; one that cannot be started is not replaced.
Launch(ok) ==
  /\ client.pc = "launching"
  /\ profile' = TRUE
  /\ browser' = IF ok THEN "starting" ELSE "none"
  /\ client' = IF ok
       THEN [client EXCEPT !.pc = "endpoint", !.cmd = 0, !.waits = 0,
              !.startBy = IF now + StartupLimit < Timeout THEN now + StartupLimit
                          ELSE Timeout]
       ELSE [client EXCEPT !.pc = "dropping", !.result = "unsupported", !.waits = 0]
  /\ page' = NoPage /\ open' = Nothing
  /\ commands' = <<>> /\ stream' = <<>> /\ seen' = {} /\ next_id' = 0
  /\ UNCHANGED <<javascript, now>>

\* print_to_pdf returns an error; its locals are dropped.
FailsWith(result) ==
  /\ client' = [client EXCEPT !.pc = "dropping", !.result = result]
  /\ UNCHANGED <<javascript, now, profile, browser, page, open, commands, stream,
                 seen, next_id>>

EndpointLate ==
  client.pc = "endpoint" /\ now >= client.startBy /\ FailsWith("startup")

FindsEndpoint ==
  /\ client.pc = "endpoint" /\ browser = "up"
  /\ client' = [client EXCEPT !.pc = "connecting"]
  /\ UNCHANGED <<javascript, now, profile, browser, page, open, commands, stream,
                 seen, next_id>>

\* Sends the k-th command of the script and waits for its answer.
Calls(k) ==
  /\ next_id' = next_id + 1
  /\ commands' = Append(commands, <<next_id + 1, Script[k], "">>)
  /\ client' = [client EXCEPT !.pc = "calling", !.cmd = k, !.waits = next_id + 1]

CdpConnects(ok) ==
  /\ client.pc = "connecting"
  /\ IF ok THEN /\ browser = "up" /\ ~ConnectHangs
                /\ Calls(1)
                /\ UNCHANGED <<javascript, now, profile, browser, page, open, stream, seen>>
     ELSE (browser = "dead" \/ ~ConnectHangs) /\ FailsWith("startup")

\* The call returned: the next command, the wait, or the finished PDF.
Proceeds ==
  LET k == client.cmd + 1
  IN  IF k > Len(Script)
      THEN /\ commands' = Append(commands, <<next_id + 1, "Browser.close", "">>)
           /\ next_id' = next_id + 1
           /\ client' = [client EXCEPT !.pc = "dropping", !.result = "pdf"]
      ELSE IF Script[k] = "load" /\ "load" \notin seen
      THEN /\ client' = [client EXCEPT !.pc = "waiting", !.cmd = k]
           /\ UNCHANGED <<commands, next_id>>
      ELSE Calls(IF Script[k] = "load" THEN k + 1 ELSE k)

Answers(m) == m.kind = "answer" /\ m.id = client.waits

\* read: a paused request is failed at once, whoever reads it.
Intercepts(m) ==
  /\ m.kind = "paused"
  /\ commands' = Append(commands, <<next_id + 1, "failRequest", m.value>>)
  /\ next_id' = next_id + 1
  /\ seen' = IF client.pc = "calling" THEN seen \cup {"paused"} ELSE seen
  /\ UNCHANGED client

\* call and wait_event take the next message.
Reads ==
  /\ client.pc \in {"calling", "waiting"} /\ stream # <<>>
  /\ LET m == Head(stream)
     IN  \/ Intercepts(m)
         \/ /\ client.pc = "calling" /\ Answers(m) /\ m.value = "ok"
            /\ Proceeds /\ UNCHANGED seen
         \/ /\ client.pc = "calling" /\ Answers(m) /\ m.value = "error"
            /\ IF Script[client.cmd] = "fonts" THEN Proceeds
               ELSE /\ client' = [client EXCEPT !.pc = "dropping", !.result = "render"]
                    /\ UNCHANGED <<commands, next_id>>
            /\ UNCHANGED seen
         \/ /\ client.pc = "calling" /\ m.kind # "paused" /\ ~Answers(m)
            /\ seen' = IF m.kind = "load" THEN seen \cup {"load"} ELSE seen
            /\ UNCHANGED <<client, commands, next_id>>
         \/ /\ client.pc = "waiting" /\ m.kind = "load"
            /\ Calls(client.cmd + 1) /\ UNCHANGED seen
         \/ /\ client.pc = "waiting" /\ m.kind = "answer"
            /\ UNCHANGED <<client, commands, next_id, seen>>
  /\ stream' = Tail(stream)
  /\ UNCHANGED <<javascript, now, profile, browser, page, open>>

\* wait_event gives up after three seconds, at the deadline, or on an error.
WaitEnds ==
  /\ client.pc = "waiting"
  /\ Calls(client.cmd + 1)
  /\ UNCHANGED <<javascript, now, profile, browser, page, open, stream, seen>>


CallTimesOut ==
  client.pc = "calling" /\ now >= Timeout /\ FailsWith("timeout")

ConnectionLost ==
  client.pc = "calling" /\ browser = "dead" /\ stream = <<>> /\ FailsWith("render")

\* Mutant: whatever failed is tried again
RetriesAny == client.result # "pdf" /\ client.attempt = 1 /\ now < Timeout
\* A browser that did not start is replaced, once.
Retries == client.result = "startup" /\ client.attempt = 1 /\ now < Timeout

\* Drop for Browser: a moment to close, then it is killed
Kill == IF browser = "none" THEN "none" ELSE "dead"

\* The browser, then the profile are dropped; render goes on.
Drops ==
  /\ client.pc = "dropping"
  /\ browser' = Kill
  /\ profile' = FALSE
  /\ client' = IF Retries
               THEN [client EXCEPT !.pc = "launching", !.attempt = @ + 1, !.result = "none"]
               ELSE [client EXCEPT !.pc = "returned"]
  /\ UNCHANGED <<javascript, now, page, open, commands, stream, seen, next_id>>

(***************************************************************************)
(* The browser and its page.                                               *)
(***************************************************************************)
Message(kind, id, value) == [kind |-> kind, id |-> id, value |-> value]

BrowserStarts ==
  /\ browser = "starting" /\ browser' = "up"
  /\ UNCHANGED <<javascript, now, client, profile, page, open, commands, stream, seen, next_id>>

BrowserDies ==
  /\ browser \in {"starting", "up"} /\ browser' = "dead"
  /\ UNCHANGED <<javascript, now, client, profile, page, open, commands, stream, seen, next_id>>

BrowserHandles(value) ==
  /\ browser = "up" /\ commands # <<>>
  /\ LET c == Head(commands)
         ok == value = "ok"
     IN  /\ stream' = Append(stream, Message("answer", c[1], value))
         /\ page' = [page EXCEPT
              !.enabled   = @ \/ (ok /\ c[2] = "Page.enable"),
              !.noScripts = @ \/ (ok /\ c[2] = "noScripts"),
              !.fetch     = @ \/ (ok /\ c[2] = "Fetch.enable"),
              !.content   = @ \/ (ok /\ c[2] = "setContent")]
         /\ open' = CASE ok /\ c[2] = "setContent" -> [open EXCEPT !.loading = Resources]
                      [] c[2] = "failRequest" -> [open EXCEPT !.paused = @ \ {c[3]}]
                      [] OTHER -> open
  /\ commands' = Tail(commands)
  /\ UNCHANGED <<javascript, now, client, profile, browser, seen, next_id>>

\* The page asks for a resource: paused by interception, or gone.
PageRequests(r) ==
  /\ browser = "up" /\ r \in open.loading
  /\ IF page.fetch
     THEN /\ open' = [open EXCEPT !.loading = @ \ {r}, !.paused = @ \cup {r}]
          /\ stream' = Append(stream, Message("paused", 0, r))
     ELSE /\ open' = [open EXCEPT !.loading = @ \ {r}, !.leaked = @ \cup {r}]
          /\ UNCHANGED stream
  /\ UNCHANGED <<javascript, now, client, profile, browser, page, commands, seen, next_id>>

\* The load event of about:blank, once, and that of the document when all its
\* requests are settled; a page that is not enabled sends none.
PageLoads ==
  /\ browser = "up" /\ page.enabled
  /\ \/ ~page.blank /\ ~page.content /\ page' = [page EXCEPT !.blank = TRUE]
     \/ /\ page.content /\ ~page.loaded /\ open.loading = {} /\ open.paused = {}
        /\ page' = [page EXCEPT !.loaded = TRUE]
  /\ stream' = Append(stream, Message("load", 0, ""))
  /\ UNCHANGED <<javascript, now, client, profile, browser, open, commands, seen, next_id>>

Tick ==
  /\ now <= Timeout /\ client.pc # "returned"
  /\ now' = now + 1
  /\ UNCHANGED <<javascript, client, profile, browser, page, open, commands, stream,
                 seen, next_id>>

RenderSteps ==
  \/ \E ok \in BOOLEAN : Launch(ok) \/ CdpConnects(ok)
  \/ EndpointLate \/ FindsEndpoint \/ Reads \/ WaitEnds \/ CallTimesOut
  \/ ConnectionLost \/ Drops

HtmlNext ==
  \/ RenderSteps \/ Tick \/ BrowserStarts \/ BrowserDies \/ PageLoads
  \/ \E v \in {"ok", "error"} : BrowserHandles(v)
  \/ \E r \in Resources : PageRequests(r)

\* render runs, and time passes; nothing is assumed of the browser.
HtmlFairness == WF_htmlVars(RenderSteps) /\ WF_htmlVars(Tick)
HtmlSpec == HtmlInit /\ [][HtmlNext]_htmlVars /\ HtmlFairness
-----------------------------------------------------------------------------
\* The renderer, the clock and the browser have their types.
HtmlTypeOK ==
  /\ now \in 0..(Timeout + 1)
  /\ client.pc \in {"launching", "endpoint", "connecting", "calling", "waiting",
                    "dropping", "returned"}
  /\ client.attempt \in 1..2 /\ client.cmd \in 0..Len(Script)
  /\ client.waits \in 0..next_id
  /\ browser \in {"none", "starting", "up", "dead"} /\ profile \in BOOLEAN

\* The document reaches the page only once scripts are off (unless the
\* administrator allows them) and requests are intercepted, and no request of
\* it gets out (cdp.rs:7-13).
DocumentIsIsolated ==
  /\ page.content => page.fetch /\ (page.noScripts \/ javascript)
  /\ open.leaked = {}

\* A PDF is returned only if the browser answered printToPDF, after it had the
\* document: answers to failed requests, events and late answers are never
\* taken for it.
PdfIsTheDocument ==
  client.result = "pdf" =>
    page.content /\ \A i \in DOMAIN commands : commands[i][2] # "printToPDF"

\* When render returns, no browser runs and no profile is left; and there is
\* never a profile without render at work on it.
NothingLeft == client.pc \in {"launching", "returned"} => browser \in {"none", "dead"} /\ ~profile

\* Whatever the browser sends, and in whichever order, the document is kept
\* apart, its own PDF is returned and nothing stays behind (cdp.rs, html/mod.rs).
HtmlIsContained == HtmlTypeOK /\ DocumentIsIsolated /\ PdfIsTheDocument /\ NothingLeft

\* A second browser is started only if the first never had the document, and
\* not after the deadline.
RetryIsSafe ==
  [][client'.attempt # client.attempt => ~page.content /\ now < Timeout]_htmlVars


\* Not true of the code: a PDF is made after the document has loaded unless
\* the three seconds pass (cdp.rs:179).  The load event of about:blank counts.
PrintedIsLoaded ==
  [][Reads /\ client.cmd # client'.cmd /\ Script[client'.cmd] = "fonts"
       => page.loaded]_htmlVars
=============================================================================
