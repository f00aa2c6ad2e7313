------------------------------ MODULE ApiService ------------------------------
(***************************************************************************)
(* Who may do what: the request pipeline of the agent's API                *)
(* (agent/src/api/service.rs, rest.rs, wire.rs, sources.rs and             *)
(* agent/src/security).                                                    *)
(*                                                                         *)
(* WebSocket methods and REST routes call the same functions with the      *)
(* authenticated principal.  Those that only read are operators on what    *)
(* the agent knows (jobs and printers), so that their answers can be       *)
(* compared in different states; those that change something are actions.  *)
(*                                                                         *)
(* A definition marked "Mutant" is a plausible mistake in the definition   *)
(* that follows it and is not part of the specification.                   *)
(***************************************************************************)
EXTENDS Naturals, Sequences, FiniteSets

CONSTANTS
  Entries,       \* sequence of principals: the administrator, then the clients
  Admin,         \* ADMIN_CLIENT_ID
  Tokens,        \* what a caller may present; each principal's is its own name
  Origins,       \* [principal -> the origins registered for it]
  Remote,        \* server.allow_non_loopback
  Printers,      \* printer ids
  NameOf,        \* [printer -> its name]
  Fold,          \* [spelling of a name -> the name in lower case]
  DefaultPrinter,
  Scopes,        \* [principal -> the printers it may use]
  Grants,        \* configurations: functions from principals to permissions
  JobIds,
  MaxDocument,   \* limits.max_document_bytes
  Documents,     \* sources a client may name, see Resolve
  Texts          \* inline documents, to compare decode with its reference

Principals == {Entries[i] : i \in DOMAIN Entries}
Permission == {"printers.read", "print", "jobs.read", "jobs.read.all", "jobs.cancel",
               "jobs.cancel.all", "queue.read", "clients.read"}

ASSUME ApiAssumption ==
  /\ Entries \in Seq(Principals)
  /\ Admin \in Principals /\ MaxDocument \in Nat /\ Remote \in BOOLEAN
  /\ Scopes[Admin] = Printers
  /\ \A p \in Printers : NameOf[p] \in DOMAIN Fold
  /\ \A g \in Grants : g \in [Principals -> SUBSET Permission] /\ g[Admin] = Permission

VARIABLES
  perms,   \* the permissions each principal was configured with
  known,   \* the jobs: a function from their ids to [client, printer, stage]
  audit,   \* there is an auth.failure record
  latest   \* history: the last step, if it was a submission

apiVars == <<perms, known, audit, latest>>

Ok(v) == [ok |-> TRUE, value |-> v]
Err(code) == [ok |-> FALSE, value |-> <<code>>]
Has(c, p) == p \in perms[c]
Missing(what) == [ok |-> FALSE, value |-> <<"NotFound", what>>]
Denied == Err("AccessDenied")

-----------------------------------------------------------------------------
\* Authentication.  A connection is [loopback, host, origin, token]: whether
\* the peer is on this machine, whether Host names it, the origin after
\* normalise_origin ("none" without the header, "bad" for one that is refused),
\* and the bearer token or "none".

\* RequestGuard::check
GuardPasses(conn) ==
  (Remote \/ (conn.loopback /\ conn.host)) /\ conn.origin # "bad"

\* Mutant: a token is good from every origin
AuthenticateAnywhere(conn) ==
  LET at == {i \in DOMAIN Entries : Entries[i] = conn.token} IN
  IF at = {} THEN Err("ClientNotTrusted")
  ELSE Ok(Entries[CHOOSE i \in at : \A k \in at : k <= i])

\* TokenAuthenticator::authenticate: the last entry that matches, and its
\* origins
Authenticate(conn) ==
  LET at == {i \in DOMAIN Entries : Entries[i] = conn.token}
      c == Entries[CHOOSE i \in at : \A k \in at : k <= i]
  IN CASE at = {} -> Err("ClientNotTrusted")
       [] at # {} /\ conn.origin # "none" /\ conn.origin \notin Origins[c] -> Denied
       [] OTHER -> Ok(c)

\* Authed: the guard, the bearer token, authentication, the rate limiter
Authed(conn, limited) ==
  CASE ~GuardPasses(conn)    -> Err("Forbidden")
    [] GuardPasses(conn) /\ conn.token = "none" -> Err("AuthenticationRequired")
    [] OTHER -> IF Authenticate(conn).ok /\ limited THEN Err("RateLimited")
                ELSE Authenticate(conn)

Connections ==
  [loopback : BOOLEAN, host : BOOLEAN, token : Tokens \cup {"none"},
   origin : UNION {Origins[c] : c \in Principals} \cup {"none", "bad"}]

-----------------------------------------------------------------------------
\* What a client may see.  jobs and printers are the arguments: the ones the
\* agent knows, or the ones a client may see.

\* find_printer: by id, by exactly this name, or by this name in another case
Chosen(sel, printers) ==
  LET exact == {p \in printers : NameOf[p] = sel.what}
      alike == {p \in printers : Fold[NameOf[p]] = Fold[sel.what]}
  IN IF sel.by = "id" THEN {p \in printers : p = sel.what}
     ELSE IF exact # {} THEN exact ELSE alike

\* resolve_printer: the error for an id says it once more as its printerId
Unknown(sel) ==
  IF sel.by = "id" THEN [ok |-> FALSE, value |-> <<"NotFound", sel.what>>, printerId |-> sel.what]
                   ELSE Missing(sel.what)

\* visible_printer: a printer outside the scope is not found, without printerId
Visible(c, sel, printers) ==
  LET p == CHOOSE p \in Chosen(sel, printers) : TRUE IN
  IF Chosen(sel, printers) = {} THEN Unknown(sel)
  ELSE IF p \in Scopes[c] THEN Ok(p) ELSE Missing(sel.what)

\* Mutant: reading one's own jobs is enough to read any
CanSeeAny(c, job) == Has(c, "jobs.read.all") \/ Has(c, "jobs.read")

CanSee(c, job) == Has(c, "jobs.read.all") \/ (Has(c, "jobs.read") /\ job.client = c)

GetJob(c, j, jobs) ==
  IF j \in DOMAIN jobs /\ CanSee(c, jobs[j]) THEN Ok(jobs[j]) ELSE Missing(j)

\* list_jobs: whose names the client asked for, "any" if it did not
ListJobs(c, whose, jobs) ==
  LET asked == IF Has(c, "jobs.read.all") THEN whose ELSE c IN
  IF ~Has(c, "jobs.read") /\ ~Has(c, "jobs.read.all") THEN Denied
  ELSE Ok({<<j, jobs[j]>> : j \in {j \in DOMAIN jobs : asked = "any" \/ jobs[j].client = asked}})

\* cancel_job, up to the engine's answer
MayCancel(c, j, jobs) ==
  LET found == GetJob(c, j, jobs) IN
  CASE ~found.ok -> found
    [] found.ok /\ found.value.client = c ->
         IF Has(c, "jobs.cancel") \/ Has(c, "jobs.cancel.all") THEN Ok("cancelled") ELSE Denied
    [] OTHER -> IF Has(c, "jobs.cancel.all") THEN Ok("cancelled") ELSE Denied

\* queue: other clients' entries stay as places in the queue.  spooler_job_id
\* stands for all that stays of an entry: status, position, pages, size and time.
Nobody == [client |-> "none"]
Redact(c, entries) ==
  IF Has(c, "jobs.read.all") THEN entries
  ELSE {IF e.kiln_job.client = c THEN e
        ELSE [e EXCEPT !.document_name = "none", !.status_text = "none", !.kiln_job = Nobody] :
          e \in entries}

\* The OS queue of a printer: the agent's spooled jobs and one document of
\* another application.  A place in it is known whoever it belongs to.
Entry(id, job) ==
  [spooler_job_id |-> id, document_name |-> <<"name", id>>, status_text |-> <<"text", id>>,
   kiln_job |-> job]
SpoolerQueue(p) ==
  {Entry(j, known[j]) : j \in {j \in DOMAIN known : known[j].printer = p /\ known[j].stage = "spooled"}}
  \cup {Entry("other", Nobody)}

Queue(c, sel, jobs, printers) ==
  LET seen == Visible(c, sel, printers)
      at(p, s) == {<<j, jobs[j]>> : j \in {j \in DOMAIN jobs : jobs[j].printer = p /\ jobs[j].stage = s}}
      agent(p) == {e \in at(p, "accepted") : Has(c, "jobs.read.all") \/ e[2].client = c}
  IN IF ~Has(c, "queue.read") THEN Denied
     ELSE IF ~seen.ok THEN seen
     ELSE Ok([agent |-> agent(seen.value), spooler |-> Redact(c, SpoolerQueue(seen.value))])

\* queue_summary: how many wait in the agent and in the spooler, of all clients
Summaries(printers) ==
  LET count(p, s) == Cardinality({j \in DOMAIN known : known[j].printer = p /\ known[j].stage = s})
  IN {<<p, count(p, "accepted"), count(p, "spooled")>> : p \in printers}

\* The requests that only read, and cancel's decision
Answer(c, q, jobs, printers) ==
  LET needs(p, answer) == IF Has(c, p) THEN answer ELSE Denied IN
  CASE q.op = "printers.list" -> needs("printers.read", Ok(printers \cap Scopes[c]))
    [] q.op = "printers.default" -> needs("printers.read", Ok({DefaultPrinter} \cap printers \cap Scopes[c]))
    [] q.op \in {"printers.get", "printers.capabilities"} ->
         needs("printers.read", Visible(c, q.sel, printers))
    [] q.op = "jobs.list" -> ListJobs(c, q.whose, jobs)
    [] q.op = "jobs.get" -> GetJob(c, q.job, jobs)
    [] q.op = "jobs.cancel" -> MayCancel(c, q.job, jobs)
    [] q.op = "queue.list" -> needs("queue.read", Ok(Summaries(printers \cap Scopes[c])))
    [] q.op = "queue.get" -> Queue(c, q.sel, jobs, printers)
    [] q.op = "clients.list" -> needs("clients.read", Ok(Principals))
    [] q.op = "audit" -> IF c = Admin THEN Ok(audit) ELSE Denied

Selectors == [by : {"id"}, what : Printers \cup {"absent"}] \cup [by : {"name"}, what : DOMAIN Fold]
Queries ==
  [op : {"printers.list", "printers.default", "queue.list", "clients.list", "audit"}]
  \cup [op : {"printers.get", "printers.capabilities", "queue.get"}, sel : Selectors]
  \cup [op : {"jobs.list"}, whose : Principals \cup {"any"}]
  \cup [op : {"jobs.get", "jobs.cancel"}, job : JobIds]

-----------------------------------------------------------------------------
\* Sources.  A document is
\*   [from |-> "inline", encoding, low, high, size, valid]  characters below
\*      and from U+0080 on, for base64 the bytes they stand for, and whether
\*      the text is of the encoding,
\*   [from |-> "path", absolute, exists, inside, isFile, size] or
\*   [from |-> "url", prefix, status, size].

\* bytes of the text as JSON carries it
TextBytes(d) == d.low + 2 * d.high

DecodedBytes(d) ==
  CASE d.encoding = "base64" -> d.size
    [] d.encoding = "hex"    -> (d.low + d.high) \div 2
    [] d.encoding = "utf8"   -> TextBytes(d)
    [] d.encoding = "latin1" -> d.low + d.high

\* DataEncoding::decode: the check before the buffer is allocated
EstimateFits(d) ==
  LET estimate == CASE d.encoding = "base64" -> (TextBytes(d) \div 4) * 3
                    [] d.encoding = "hex"    -> TextBytes(d) \div 2
                    [] OTHER                 -> TextBytes(d)
  IN estimate <= MaxDocument + 3

Decode(d) ==
  CASE ~EstimateFits(d) -> Err("PayloadTooLarge")
    [] EstimateFits(d) /\ ~d.valid -> Err("InvalidPayload")
    [] OTHER -> IF DecodedBytes(d) > MaxDocument THEN Err("PayloadTooLarge") ELSE Ok(DecodedBytes(d))

\* read_path and fetch_url: what is opened at all
Opens(d) ==
  \/ d.from = "path" /\ d.absolute /\ d.exists /\ d.inside /\ d.isFile
  \/ d.from = "url" /\ d.prefix

\* sources::resolve; fetch_url stops reading after one byte too many
Resolve(d) ==
  CASE d.from = "inline" -> Decode(d)
    [] d.from = "path" /\ ~Opens(d) -> IF d.absolute THEN Denied ELSE Err("InvalidPayload")
    [] d.from = "url" /\ ~Opens(d) -> Denied
    [] d.from = "url" /\ Opens(d) /\ d.status # 200 -> Err("ConnectionError")
    [] d.from = "url" /\ Opens(d) /\ d.status = 200 /\ d.size > MaxDocument + 1 ->
         Err("ConnectionError")
    [] OTHER -> IF d.size > MaxDocument THEN Err("PayloadTooLarge") ELSE Ok(d.size)

-----------------------------------------------------------------------------

NoSubmission == [by |-> "nobody"]
NoJobYet == [j \in {} |-> 0]

ApiInit ==
  /\ perms \in Grants
  /\ known = NoJobYet /\ audit = FALSE /\ latest = NoSubmission

\* A request that is not let in; only a failed authentication is recorded.
Refused(conn) ==
  /\ ~Authed(conn, FALSE).ok
  /\ audit' = (audit \/ (GuardPasses(conn) /\ conn.token # "none"))
  /\ latest' = NoSubmission
  /\ UNCHANGED <<perms, known>>

\* The record of a submission: waiting on its printer, or failed without one
Created(c, p, j) ==
  LET record == IF p \in Scopes[c] THEN [client |-> c, printer |-> p, stage |-> "accepted"]
                ELSE [client |-> c, printer |-> "none", stage |-> "done"]
  IN [i \in DOMAIN known \cup {j} |-> IF i = j THEN record ELSE known[i]]

\* submit_pending: the permission, then the source, then the engine, which
\* records the job and then checks the printer: a request for a printer out of
\* scope leaves a failed job.  The methods that end in submit decode their inline
\* document before the permission is asked for, which changes nothing.
Submit(conn, d, p, j) ==
  /\ Authed(conn, FALSE).ok /\ j \notin DOMAIN known
  /\ LET c == Authed(conn, FALSE).value IN
     /\ Has(c, "print")
     /\ latest' = [by |-> c, over |-> conn, reads |-> Opens(d), what |-> d,
                   job |-> IF Resolve(d).ok THEN {j} ELSE {}]
     /\ known' = IF Resolve(d).ok THEN Created(c, p, j) ELSE known
  /\ UNCHANGED <<perms, audit>>

\* cancel_job
CancelJob(conn, j) ==
  /\ Authed(conn, FALSE).ok /\ j \in DOMAIN known /\ known[j].stage # "done"
  /\ MayCancel(Authed(conn, FALSE).value, j, known).ok
  /\ known' = [known EXCEPT ![j].stage = "done"]
  /\ latest' = NoSubmission
  /\ UNCHANGED <<perms, audit>>

\* The engine moves a job on (external here; see PrintEngine).
EngineMoves(j) ==
  /\ j \in DOMAIN known /\ known[j].stage # "done"
  /\ known' = [known EXCEPT ![j].stage = IF @ = "accepted" THEN "spooled" ELSE "done"]
  /\ latest' = NoSubmission
  /\ UNCHANGED <<perms, audit>>

ApiNext ==
  \/ \E conn \in Connections :
       \/ Refused(conn)
       \/ \E j \in JobIds : CancelJob(conn, j)
       \/ \E d \in Documents, p \in Printers, j \in JobIds : Submit(conn, d, p, j)
  \/ \E j \in JobIds : EngineMoves(j)

ApiSpec == ApiInit /\ [][ApiNext]_apiVars

-----------------------------------------------------------------------------

\* The state is well formed.
ApiTypeOK ==
  /\ perms \in [Principals -> SUBSET Permission] /\ audit \in BOOLEAN
  /\ DOMAIN known \subseteq JobIds
  /\ \A j \in DOMAIN known :
       known[j] \in [client : Principals, printer : Printers \cup {"none"}, stage : {"accepted", "spooled", "done"}]

\* The jobs and printers a client may know of
JobsFor(c) ==
  [j \in {j \in DOMAIN known : Has(c, "jobs.read.all") \/ known[j].client = c} |-> known[j]]
PrintersFor(c) == Printers \cap Scopes[c]

\* Every answer is the one a client would get if other clients' jobs and the
\* printers outside its scope did not exist: a foreign job is a missing job, a
\* hidden printer a missing printer, in lists, lookups, cancellations and
\* queues; only the places in a visible printer's queue count everyone, and a
\* missing printer's error may have a printerId (service.rs;
\* docs/protocol.md: "Other clients always see only their own jobs").
AnswersFromOwnView ==
  \A c \in Principals, q \in Queries :
    LET given == Answer(c, q, known, Printers)
        own == Answer(c, q, JobsFor(c), PrintersFor(c))
    IN given.ok = own.ok /\ given.value = own.value

\* visible_printer: "reported as not found so their existence is not disclosed":
\* the two answers are the same to the last field.
HiddenIsMissing ==
  \A c \in Principals, q \in Queries :
    Answer(c, q, known, Printers) = Answer(c, q, JobsFor(c), PrintersFor(c))

\* A client that may not read all jobs finds every place of the queue, and what
\* is in it only for its own jobs: no name, text or job of another client or
\* application (queue: "but not what they are").
QueueIsRedacted ==
  \A c \in Principals, sel \in Selectors :
    LET a == Queue(c, sel, known, Printers)
        shown == a.value.spooler
        all == SpoolerQueue(Visible(c, sel, Printers).value)
    IN a.ok /\ ~Has(c, "jobs.read.all") =>
         /\ {e.spooler_job_id : e \in shown} = {e.spooler_job_id : e \in all}
         /\ \A e \in shown : \/ e.kiln_job.client = c
                            \/ /\ e.kiln_job = Nobody
                               /\ e.document_name = "none" /\ e.status_text = "none"

\* A job is accepted only over a connection that the guard let through, with
\* the token of the client it is recorded for, from no origin or one registered
\* for that client, and waits only on a printer in its scope (Authed, authenticate, submit;
\* docs/security-model.md: "No unauthenticated request can print").  A file or
\* URL is opened only for a client that may print, and only inside the
\* allow-lists (submit_pending, sources.rs).
PrintsAreTrusted ==
  latest # NoSubmission =>
    LET c == latest.by
        conn == latest.over
    IN /\ conn.token = c /\ "print" \in perms[c]
       /\ conn.origin = "none" \/ conn.origin \in Origins[c]
       /\ Remote \/ (conn.loopback /\ conn.host)
       /\ \A j \in latest.job : known[j].client = c
                                 /\ known[j].stage # "done" => known[j].printer \in Scopes[c]
       /\ latest.reads => CASE latest.what.from = "path" -> latest.what.inside
                            [] latest.what.from = "url"  -> latest.what.prefix

\* An inline document is accepted exactly if its bytes are within the limit
\* (decode; wire.rs: "Reject before allocating the decoded buffer").
AcceptsUpToTheLimit ==
  \A d \in Texts : d.valid => (Decode(d).ok <=> DecodedBytes(d) <= MaxDocument)

\* A client learns of its own jobs and printers only, from answers and from
\* queues (service.rs).
ClientsSeeTheirOwn == AnswersFromOwnView /\ QueueIsRedacted

\* What is printed was let in by every check, and no document within the limit
\* is turned away (rest.rs, wire.rs, sources.rs).
PrintsAsAdmitted == ApiTypeOK /\ PrintsAreTrusted /\ AcceptsUpToTheLimit
=============================================================================
