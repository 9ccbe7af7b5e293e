# Verification of repair-mail-agent

The program receives repair mails over IMAP, has language models classify and
read them, turns them into tickets, exports a return authorisation (RMA) to SAP,
and answers the customer by SMTP with the RMA document attached. Ticket,
message, job and every external effect are rows of one MySQL database; several
processes work on them at the same time: the API (which also runs the scheduler
and the jobs that are not about mail), a mail worker, operators' requests, and
tools that are started by hand.

What is hard in it is not computation but the order of things: a job is claimed
in one transaction and finished in another, a call of SMTP, SAP, an object store
or a model lies between two commits, any process may die in between, and most
handlers decide from rows they have read without a lock. The project models
those parts, and the decisions where several records compete.

## 1. Inventory

| Component | State it keeps | Operations | Talks to |
|---|---|---|---|
| Job queue (`services/jobs.py`, loops in `main.py`, `mail_worker.py`) | `job_run_logs`: status, attempts, lease (`locked_at`, `locked_by`), `next_run_at` | enqueue by idempotency key, claim, recover stale rows, execute, end of an attempt | every component below is a job type |
| Mailbox synchronisation and ingress (`imap_fetcher.py`, `mailbox_sync.py`, `mail_precheck.py`, `mail_ingress.py`, `mail_processing.py`) | cursor per mailbox, a record per (UIDVALIDITY, UID), spool objects | fetch, precheck, spool, classify, ingest | IMAP, object storage, job queue |
| Mail parsing and AI extraction (`emails.py`, `ai.py`, `attachment_parser.py`, `llm_gateway.py`) | mails, threads, parse results, links of mails and tickets | classify, keep by level, join a thread, parse, ask a person, promote, parse again | models, workflow |
| Ticket workflow (`workflow.py`, `tickets.py`, `ticket_safety.py`, transition table in `seed.py`) | `tickets.status`, safety evidence, transition logs | `transition_ticket`, edits, validation, safety gate | all services |
| Manual review (`manual_review.py`, `notifications.py`, `users.py`) | tasks, owners, notifications, operators | open, claim, assign, release, resolve, route, repair | workflow, replies, SAP |
| Decision rules (`sn_master_resolution.py`, `business_resolution.py`, `customer_policies.py`) | what was chosen for each item | choice of record, policy and return route, manual choice, override | master data, safety gate |
| SAP SN synchronisation, master data (`sap_sn_sync.py`, `master_data.py`, tools) | `sn_assets`, batches, checkpoint; policies, cards | scheduled synchronisation, offline tool, imports | SAP middleware |
| SAP RMA export (`sap_rma.py`, `external_relay.py`) | exports, lines, RMA numbers | submit, reconcile, poll, late results | SAP middleware, job queue, replies |
| Reply delivery (`replies.py`, `email_outbox.py`, `external_operations.py`) | replies, outbox, ledger of external operations, follow-up count | draft, approve, reject, send, reconcile, archive, close | SMTP, storage, workflow |
| SMTP pool (`smtp_pool.py`) | slots, waiting threads, rate window | lease a connection, keep the rate, replace a worn-out one | SMTP |
| Object storage and deletions (`storage.py`, `deletions.py`, `email_archival.py`, `gold_replay.py`) | object rows, deletion orders | store, share, release, delete, reset of test mails | job queue |
| Users, notifications, statistics | accounts, notifications | see manual review; the rest single reads or writes | |
| RMA documents, schema, front end, deployment | none of the protocols | | |

What makes each component correct, and what endangers it:

* **Job queue.** Two workers and a recovery sweep share the rows; the result of
  an attempt is written without checking `locked_by`, so only the lease keeps
  attempts apart; the retry limit is compared in three places. No job runs twice
  at a time, none is begun too often, none is reopened, every job ends.
* **Mailbox.** UIDs are discovered, skipped, retried and spooled in different
  transactions; UIDVALIDITY may change; one message may arrive several times. No
  mail is missed, none is ingested twice, no original is orphaned.
* **Parsing.** A mail is classified by a model, perhaps differently at each
  copy; a parse runs outside transactions while people ask for others. Nothing
  automatic happens on a mail that is not clearly a repair request, and no mail
  is left half-way.
* **Ticket workflow.** Some forty handlers move a ticket. It leaves manual review
  only when nothing holds it there, becomes exportable only on evidence about
  the data it has, and is closed only after a delivery.
* **Manual review.** Nobody locks a task. Somebody can always be given one, and
  its owner is told.
* **Decision rules.** Several records, policies or cards may match. Nothing
  ambiguous is decided by the program, and a quote fits the records of the items.
* **SAP synchronisation.** Synchronisations overlap, die and race a tool. In the
  end the local copy is what SAP says.
* **SAP export.** The answer of a submission may be lost. No item is requested
  twice, and only a complete answer orders the mail.
* **Reply delivery.** A send is four transactions around a call that may be
  answered, refused, partly accepted or lost, while operators act on the same
  reply. What the server may have taken is never handed over again, the ledger
  is true, a ticket closes on evidence.
* **SMTP pool.** Threads share slots and a rate. The rate is kept, a result that
  allows another send is true, no thread waits for ever.
* **Deletions.** Objects are shared and the store takes no part in transactions.
  The object of a mail that stays is not deleted, every ordered deletion ends.

## 2. The modules

| Module | Models | Read with |
|---|---|---|
| `JobLifecycle` | what the queue promises its callers (abstract) | `JobQueue` |
| `DeliveryPromise` | what a send promises about the message and the ledger (abstract) | `ReplyDelivery` |
| `JobQueue` | queue rows, claims, leases, the ends of an attempt | `jobs.py`, `main.py`, `mail_worker.py` |
| `MailboxSync` | which UIDs of a folder are discovered and fetched | `imap_fetcher.py`, `mailbox_sync.py` |
| `MailSpool` | the copies of one message from fetch to ingestion | `imap_fetcher.py`, `mail_processing.py`, `mail_precheck.py`, `mail_ingress.py` |
| `MailReading` | routes of the models, attachments, extraction (operators only) | `llm_gateway.py`, `attachment_parser.py`, `ai.py`, `emails.py` 757-788 |
| `MailIntake` | the mails of a conversation from arrival to ticket | `mail_ingress.py`, `emails.py`, `tickets.py`, `api/v1/emails.py`; extends `MailReading` |
| `TicketFlow` | one ticket: status, evidence, tasks | `workflow.py`, `tickets.py`, `ticket_safety.py`, `manual_review.py`, `seed.py` |
| `ReviewBoard` | one task: owner, claimer, notifications, operators | `manual_review.py`, `workflow.py`, `notifications.py`, `users.py`, `notification_task_repair.py` |
| `RepairRules` | record, policy and route of each item | `sn_master_resolution.py`, `business_resolution.py`, `customer_policies.py`, `master_data.py`, two import tools |
| `MasterData` | the copy of SAP's serial-number records | `sap_sn_sync.py`, `sync_sn_assets_offline.py` |
| `SapExport` | the exports of a ticket and the remote tables | `sap_rma.py`, `sqlserver.py`, `manual_review.py` |
| `ReplyDelivery` | replies of one ticket, outbox, ledger, worker, operators | `replies.py`, `email_outbox.py`, `external_operations.py`, `api/v1/tickets.py`, `dsn_parser.py` |
| `SmtpPool` | threads, slots, rate, the answers of the server | `smtp_pool.py`, `replies.py` 643-727 |
| `ObjectDeletion` | mails that share an object, deletion orders | `deletions.py`, `email_archival.py`, `storage.py`, `gold_replay.py` |
| `MC...` | a small instance, where the constants need definitions | the `.cfg` of the name |
| `...Proofs` | the theorems | section 4 |

The modules meet at rows. `ReplyDelivery` and `MailboxSync` use the queue as
`JobLifecycle` promises it, and `JobQueueProofs` shows that `JobQueue` keeps
the promise; that `ReplyDelivery` assumes no more than that is a theorem too
(`JobsAsOffered`). `MailboxSync` and `MailSpool` meet at `mail_fetch_records`, `MailSpool`
and `MailIntake` at the ledger of a copy; `MailIntake` takes what is read of a mail
from `MailReading` and leaves the status of the ticket to `TicketFlow`, which
takes the SAP export and the delivery as events that `SapExport` and
`ReplyDelivery` have in detail, the tasks' people from `ReviewBoard`, and the verdict of the safety
gate as one that `RepairRules` computes. `SmtpPool` yields the results that
`ReplyDelivery` acts on.

An operator whose name begins with `Bug` is a plausible defect of the definition
that follows it. No specification uses it; with it in the place of that definition
TLC refutes the property that it endangers.

### JobQueue

A step of the model is a transaction of the code. `job[j]` is a row: its status,
its lease (`none`, `held`, `expired`, for the age of `locked_at`), the worker in
`locked_by`, `attempt_count`, and whether `next_run_at` has come. `worker[w]` is
what a process has in its session: `Claim` commits the lease, `Start` loads the
row in a second session, `Finish` writes the result. Between `Start` and
`Finish` the command runs, which is why `worker[w].attempts` is kept: a
*returned* failure is compared with the number loaded then, while an exception
rolls the session back and compares the stored one. `Crash` covers the death of
a process and a commit that does not go through. A row found `running` without
a lock (left by an older version, constant `Legacy`) is failed, not replayed.

`LeaseOutlivesAttempt` separates two worlds. `TRUE` is the intended
configuration: every transport has a time-out and `ASYNC_JOB_STALE_SECONDS` is
longer than their sum. `FALSE` lets a lease expire under a working attempt.

A job of `Tracking` (`imap_fetch`) gets its own row as `tracking_job`: when it fails it
commits `failed` there and then raises (`FailEarly`, pc `raising`; `imap_fetcher.py`
872-880), and `Raise` turns that row into `retry_wait` while attempts remain. Such a
row is over and begins again, so `FinishedIsFinal` and `EveryJobEnds` speak of `Settled`
jobs: those that ended and whose last attempt nobody is still ending (`Failing`). That
every recorded end is final is `RecordedIsFinal`, which is false
(`JobQueueReopened.cfg`).

`JobLifecycle` has only the phase of a job and its runner. `Dispatch` begins jobs and
gives abandoned ones up in one step, as one claim with its recovery does; `Report` ends
an attempt that somebody runs; `Falter` puts a failure on record before the attempt ends
(phase `failing`), from which `Report` still goes anywhere. `Take` begins a job and enters it at once: `ReplyDelivery`
tells the claim and the start of a send as one step, since between the two the worker
has read nothing.

### MailboxSync

`box` is the folder on the server, `epoch` its UIDVALIDITY, `sync` the row of
`mailbox_sync_states` and `record` the rows of `mail_fetch_records` that belong to
the current UIDVALIDITY (those of an earlier one are never selected again and are
dropped at `Renumber`). `Discover` is the first transaction of
`fetch_imap_emails`: pending discoveries, due retries and new UIDs share one
batch, and the cursor moves over what was looked at. `Take` and `TakeFails` are
the transactions of one UID; `fetch` is the work list of the process that holds
the folder's named lock, and a crash drops both. `DiscoverFails` is the handler
that commits a half-done discovery. `FetchByMessage` is an operator's fetch,
which makes records without the cursor. `Processed` and `AttemptFails` stand for
the job of a spooled mail. The server answers `n:*` with its highest UID when `n`
is above it, and `Listed` does the same. `imap_uid` is a text column, and its
order is that of numbers while UIDs have one digit, as in the instances.

### MailSpool

Some copies of one message, each with a record, an object key and a job. The
tables `oss_objects` and the object store are two variables, since the store is
not part of a transaction: `Read` uploads and `Spool` commits, `DeleteObject`
deletes and `Release` commits, `Archive` uploads and `Ingest` commits, and a
process may die between any two. A row that a transaction has changed stays
locked until it ends (`RowLocked`, `RecordLocked`), and a foreign key blocks the
deletion of a row somebody refers to. An object is named after UID and content,
so copies share one (`Key`) when a folder was renumbered and the mail kept its
UID. `Duplicate` is the precheck, which the poll and the job both apply;
`fetch.duplicate` and `fetch.reused` keep what the poll saw until it commits.
Delivery notices and mails skipped for what they contain are left out: their
verdict depends on the content alone.

### MailReading

Operators without state. `Answered` is a request to the gateway: which calls
`invoke_structured` makes of the two endpoints of a route, and whether one
answers, for every assignment of keys and of what each call says. `Status` is
what `parse_attachment` makes of a file: archives and unsupported types,
decorative images, text that is found locally, what needs a model. `Kept`,
`Missing`, `Conflicts`, `Recovered`, `Explicit` and `Confidence` are
`create_ai_parse_candidate` and `_enrich_ai_quality` on the groups of fields that
a ticket asks for; `RequiresManual` is `_parse_requires_manual`. `Threads` is what the
ticket of the conversation contributes, if one is linked: a supplement to a ticket is
measured by what that lacks and keeps its items, one to no ticket may lack the serial
number only.

### MailIntake

`ledger[c]` is the row of a copy in `mail_fetch_records` with the model's verdict on it
(`clear`: confident and not contradictory), `email[m]` the row of the mail once
one of its copies is kept, `current` the ticket of a thread. The level decides
what is kept: a repair request or a supplement whole, others minimally. A parse
(`run`) reads the thread's ticket before the call of the model and uses it after
(`ParseBegins`, `Outcome`), by a job with attempts or by a person's request, so two
parses overlap. `Outcome` covers the branches of `reparse_email`: nobody answers,
a supplement to no ticket, doubts, a clear result that is adopted. What the
model may say enters as the constant sets `MayAnswer` and `Judgements`, computed
from `MailReading`; they keep the module tied to that code, and a change there that
makes a verdict impossible removes the branch here.

### TicketFlow

`stored` is the ticket. A handler is an operator from it to the *set* of states it
may commit, empty when the request is refused; handlers call each other as the
code does, and `Next` has one disjunct per entry point (parse of a mail, edits,
policy and route endpoints, validation, the resolutions of a task, SAP results,
the sending of the RMA mail and its finalisation, transitions by hand, closing).
`Transition` looks up the table of `seed.py` and refuses to leave manual review
while `Blockers` are open. Tasks are identified by groups of types that the code
treats alike. `evidence` is what `safety_check_hash` covers: nothing, the data as
they are, or the data before a change.

### ReviewBoard

A transaction reads the rows, decides and writes only the columns it changed. One
(`slow`: a request on the task, the repair or the dismissal of an operator) may read
early and commit late, with others in between, which is what happens since nothing
locks a task or counts the operators under a lock. `db` has the task, the ticket's
`keeper` and the staff; `told` is who has an unresolved notification. `Repair` is
`repair_notification_and_task_data`, which the scheduler runs every five minutes beside
the requests (`main.py` 88-99) and a tool runs by hand; a slow one can open a task again
that was resolved meanwhile. `raced` tells how the slow transaction was overtaken, so
that the properties can say what holds without such a race and what the repair restores
after one: `crossed` is the case of two dismissals, one of each of the pair, that both
counted the other. `SomebodyIsThere` excepts it and `RepairRestores` asks for one of the
pair, since then the program has nobody to give a task to.

### RepairRules

`rows`, `policies` and `cards` are small tables that change under a ticket, by
the synchronisation (`ChangeRow`), by edits (`SavePolicy`, `DeletePolicy`,
`UpdateCard`, `DeleteCard`) and by imports (`ImportCard`, and the tools `AlignCards`
and `ImportPolicies`). `Decide` is
`resolve_assets` (the latest records, finished boards before semi-finished
ones, one A board before others, several left to a person), `Candidates` and
`Charge` the choice of the policy (a warranty that has begun and not ended makes the
repair free), `Routes` that of the card by code, name, scope
and location. `SelectRecords`, `SelectRoute` and `Override` are manual choices. `Validate` is `validate_and_mark_ready_for_export` with the report `Safe`.

### MasterData

`source` is SAP; a synchronisation is `Begin` (its first SELECT fixes what it
reads), `Fetch` (the answer is newer) and `ApplyBatch` (it writes only the columns that
differ from what it read). A row that is incomplete in the answer (`uncoded`: without a
customer or material code; `nameless`: without a serial number) is protected, one that is
gone is made invalid. Every row of the answer is touched, if only in `imported_at`, so
the tool's locks stop a batch that changes nothing else (`Updates`, `Blocked`). Two processes may overlap. The tool streams
the source into one transaction of its own, in the opposite order of locks;
with `--limit` it invalidates nothing. It skips records without a serial number only
and writes uncoded ones as valid (`Streamed`). `StaysMirrored` is about the copy while no
answer is older than SAP (`UpToDate`), `SourceWins` about what repairs it otherwise.

### SapExport

`export[e]` has the lines of a version of the ticket; `run[w]` the three
transactions of `submit_export_batch` (marker, insertion, outcome); `insert` the
remote transaction, which commits or not when the connection is lost, and later
(`late`) too. An error of the commit itself is reported as a refusal unless its text
names the connection (`sqlserver.py` 227-233), so `Refuse` may follow a transaction that
did commit. `rma1` and `rma2` are the remote tables, whose UNIQUE RequestID
refuses a second insertion. Polls run by a job, by the poller (which reads all
tickets in one transaction) and by hand. Reconciliation by an operator, the
confirmation of a late result and the edit of a ticket are actions. The mapping
of the fields is the outcome that the data are unusable.

### ReplyDelivery

The queue is used through what `JobLifecycle` promises: `Phase` and `Runner` are its
variables here. `Fate` and the ledger are those of `DeliveryPromise`, in which a
message is held, lost or taken: an intention is recorded before it is handed over,
it is handed over once, and only an attempt that cannot have delivered is followed
by another. `Freeze`, `BeginSmtp`,
`RecordFollowup`/`RecordRma`/`RecordFailure` and `Finalize` are the commits of
`_send_reply_record`; `worker[w]` keeps the outbox status, ticket status and
follow-up count as its session read them, because sessions are created with
`expire_on_commit=False` and later transactions decide from those copies.
`Transmit` is the outside world: its answers, and whether the server has in fact
taken the message. `mail` is history: what happened, not what is recorded.
Operator requests are actions of their own; a request that reads and writes in
two steps without a lock (`RejectRead`, `RejectWrite`) is two actions, and so is
an approval (`Approve`, `EnqueueSend`), which commits the outbox before the job.
`DraftForReview` and `DraftAndSend` are the two ways a reply is made,
`IssueRefused` the way an RMA reply is not (special policy, missing number,
template, thread or PDF; the limit of follow-ups is in `TicketFlow`), `ReleasePolicy` and `RetrySend` the two endpoints that
let an RMA mail go after all, `Bounce` a delivery notice, `Recount` the tool that
recomputes the follow-ups. `TicketMoves` and `ResolveTask` stand for the other
services.

Merged or left out: `auto_sending` (treated everywhere as `sending`), a refused Cc
(recorded as accepted), the task types `reply_send_blocked` and
`reply_render_failed` (one type, `reply_send_failed`), the text, addresses and
attachments of a mail. Whether the stored RMA number, PDF, EML and attachment
agree is the input `intact`: the code compares them, and no step of this component
changes them.

### SmtpPool

A thread takes a slot or joins the line of the condition variable, waits for the
rate with the slot in its hands, connects again when the connection is worn
out, sends, and gives the slot back on every path. A thread that just arrives
may be faster than one that was notified, as with `threading.Condition`. Time is
ticks; for each mail `granted` and `sent` are the ages of its being let through
by the rate and put to the server. `Answers` is what an SMTP server says of each
recipient and of the data, `Result` what `_send_reply_via_smtp` makes of it,
`Reached` who may have the mail. The pool is one per process, so the limits are
per process too; settings do not change at run time; `_smtp_semaphore`
(`replies.py` 76) makes waiting rare but not impossible. Only tests reset the
pool (`close` ignores slots in use), which is left out.

### ObjectDeletion

Mails with the same content refer to one row and one object. `Archiving`, `Store` and
`Upload` find or make the row, `Preview` and `Confirm` are an administrator's deletion, `order` the
deletion of the object in the same transaction, `proc` a process that carries it
out: the request itself, a job or a retry. A foreign key refuses the removal of a
row that is referred to again. `ConfirmReset` is `apply_gold_test_reset`, which
deletes the conversations of test mails with the same order and stops when
something outside them (`SharedOutside`) or evidence (`ResetBlocked`) is in the way.
`exposed` is history: mails archived while their object was about to be deleted.
They are excepted in `KeptIsThere`; `ObjectReuploaded.cfg` shows why they must be.

## 3. The runs

| Run | Question | Bounds |
|---|---|---|
| `queue` | one runner per job, retry limit, finality once the last attempt is over, refinement of `JobLifecycle`, every job ends | three workers, three jobs (one of which commits its failure early), one or two attempts, one `waiting_rma`, one legacy row |
| `mailbox` | no wanted mail is passed by the cursor, none is selected again, every one is taken or uses up its attempts | two UIDs, batches of one, two UIDVALIDITYs, two tries |
| `spool` | one e-mail per message, rows and references agree, no copy skipped for itself | three copies, two on one object, two tries |
| `mail_intake` | a ticket changes only for a mail that is clearly a repair request or taken for one by a person; no mail stays half-way | two mails, one answering the other and one in two copies, two attempts, two tickets, one request |
| `ticket_flow` | alert while in error; manual review left only without tasks that hold the ticket; ready on evidence; closed after delivery and for good | one ticket, at most three open tasks, relay configured or not |
| `review_board` | somebody is there unless two dismissals crossed; the owner is told; the repair restores both after a race | four users, one task, one overtaken request, repair or dismissal |
| `repair_rules` | what may be exported was priced for its items; nothing ambiguous is decided | two items, three records, two policies, two cards, two changes |
| `master_data` | a copy that agrees with SAP is spoiled by no synchronisation that has SAP's present answer; once SAP answers, the copy becomes and stays what it says | two processes, two records, the tool, three events |
| `sap_export` | one request per item; what counts as accepted is there; only a complete answer orders the mail | two items, one export, a worker that may die, two submissions, operators and another ticket |
| `reply` | refinement of `DeliveryPromise`: intention first, sent at most once, truthful ledger; follow-ups counted, special policy holds the mail back, closing on evidence and for good, sends settle | one reply, RMA or follow-up, one worker, two attempts |
| `smtp_pool` | rate, truth of results, every send ends | three threads, two connections, four mails, a limit of one in a minute of two ticks |
| `deletions` | the object of a mail that stays is there; every order is carried out or left to an administrator | two mails, two processes, two faults |

All hold. The types (`TypeOK` and its like) are theorems for every module, and the runs
do not check them again. Why the bounds are enough: a race in `jobs.py` needs two workers and one
row, the third job is there for the partition by type. `mailbox`: the folder
holds more than a batch, a batch ends between candidates, a cursor may be below,
between or at the UIDs; only the current UIDVALIDITY and its predecessor meet;
two tries make a first and a last one. `spool`: the third copy makes a reference
outlive the release of another. `mail_intake`: the copies make two verdicts on one
mail, the second mail a thread with a ticket, two tickets the race of two
parses; a person's request is what overlaps an automatic parse. `ticket_flow` is
bounded in tasks only: three are one that blocks, one that may stay and one that
is being resolved. `review_board`: two operators are named in the code, the third
and the administrator are the users who are neither. `repair_rules`: two matching
records, policies and cards are what ambiguity needs; two changes let a table
change before and after a validation. `master_data`: three events are a change, a
failure and a run of the tool. `sap_export`: two items make an answer
incomplete. `reply`: the races are between the worker and operators, whose
requests are unbounded; a second reply exceeds minutes. `smtp_pool`: with two
connections one of three threads waits, and with four mails a slot comes back to
a line. `deletions`: the sharing of an object by two mails, the crash of one
process and the retry of another. The theorems of section 4 have no bounds.

Fairness. Weak fairness throughout, on what the schedulers and loops call at
fixed intervals (claiming, recovery, polls, synchronisation, parse jobs) and on
what ends because it has a time-out (commands, sends, calls). In `MailboxSync`
processes do not for ever die before they handle the first UID of their list
(strong fairness of `Take` or `TakeFails`: each death disables them for a moment).
In `ObjectDeletion` an order that is pending is taken up again, by its job. In
`SmtpPool` time passes; with unbounded traffic a notified thread could be overtaken
for ever, so `EverySendEnds` speaks of a burst of `MaxMails` mails. In `MasterData` a
scheduler synchronises again and again, and a run of the tool ends. Enqueueing,
crashes, operators, customers and the answers of outside systems have no
fairness. `SourceWins` assumes that SAP answers from some time on. The safety runs
`spool`, `sap_export`, `ticket_flow`, `review_board`, `repair_rules` have none.
`CHECK_DEADLOCK FALSE` is set where everything asked for may be done and the
bounds reached.

### Where code, documents and checks disagree

These were met while modelling. Each has a property that fails under the
configuration named, to be run by hand (`tlc -config X.cfg M.tla`, with the module in brackets); the regular
runs check what does hold.

| Configuration (module) | Property | What happens |
|---|---|---|
| `JobQueueReopened` (`MCJobQueue`) | `RecordedIsFinal` | A failing fetch commits `failed` to its own row and raises (`imap_fetcher.py` 872-880); the queue then makes the row `retry_wait` (`jobs.py` 498-505). Who reads the row in between sees a job that is over and begins again; no second execution follows. |
| `JobQueueStalled` (`MCJobQueue`) | `AttemptBudget` | An attempt that outlives its lease and then returns a failure compares the number it loaded: a row on its last attempt is reopened. |
| `ReviewBoardCrossed` (`ReviewBoard`) | `PairIsThere` | Two administrators dismiss miya and demi at the same time, each request counts the other one (`users.py` 84-105): no task can be created any more. |
| `ReplyStranded` (`MCReplyDelivery`) | `NothingStranded` | The server accepts, the commit is lost, the last attempt raises before it finds `sending`: the job is over, the reply stays `sending`, no task says so. |
| `ReplyReconcile` | `Reconcilable` | An uncertain RMA reply of a ticket still `ready_for_export` cannot be reconciled as sent: the message id is missing. |
| `ReplyImmutable` | `SentIsImmutable` | A rejection that read the reply before it was sent overwrites `sent` (`replies.py:2202`). |
| `ReplyLegalPath` | `LegalPath` | The ticket copy read before the SMTP call moves a ticket to `rma_sent` that was in `manual_review` by then. |
| `ReplyCountedTwice` | `CountedOnce` | An operator settles an uncertain follow-up as sent (`replies.py:2249`); the worker, still in the SMTP call, then writes `send_uncertain` from its old copy, and settling that counts the follow-up again. `reconcile_followup_counts.py` takes the counter for the number of follow-ups that were sent. |
| `MailboxInitial` (`MailboxSync`) | `InitialSyncCompletes` | The first synchronisation is over when all wanted mails of the folder fit into a batch: a larger folder stays `initializing`. |
| `MailboxBoundary` | `BoundaryRespected` | A first synchronisation that finds nothing completes with an empty cursor, and the next takes up mail from before the boundary. |
| `MailSpoolLost` (`MCMailSpool`) | `MessageKept` | A copy skipped for one that is only spooled makes that one be skipped in turn: no e-mail, no task (`mail_precheck.py:176`). |
| `MailAfterClosure` (`MCMailIntake`) | `NewTicketAfterClosure` | A new repair in the conversation of a closed ticket is linked to that ticket: the parse result keeps the ticket that the thread had (`emails.py:1168`, `tickets.py:1171`; `docs/00-开发指导文档.md:111` promises a new one). |
| `SapPoller` (`MCSapExport`) | `OthersAreRead` | One export of a poll raises, and the results of all tickets are rolled back, every time (`sap_rma.py:1054`). |
| `SapUnknown` | `UncertainIsReconciled` | Nothing reconciles an uncertain submission unless an operator asks. |
| `TicketSentData` (`TicketFlow`) | `SentDataFixed` | `RMA_SENT_TICKET_DATA_IMMUTABLE` tests `rma_status = "sent"`; finalisation sets `issued`, and the data can be edited again (`tickets.py:910`, `replies.py:1050`). |
| `ObjectReuploaded` (`ObjectDeletion`) | `ReuploadedStays` | The object is removed before references are counted again: a mail archived in between loses its object (`deletions.py:613`). |
| `RepairConfirmed` (`MCRepairRules`) | `ConfirmedStands` | A manual policy override is wiped by the next validation (`ticket_safety.py:613`). |

Others, seen in the models or shown by a theorem, without a configuration:

* A supplement never brings the serial number that the ticket lacks (theorem
  `SupplementBringsNoSn`): `ai.py` 1289-1329 replaces its items by the ticket's and
  looks for what was asked for in `RepairFields` only, which has no serial
  number; `docs/04` asks the customer for it. He is asked until the limit.
* A first endpoint without a key ends a request although the fallback has one and
  `llm_task_configured` says yes (theorem `NoKeyNoFallback`).
* A second mail that needs a review of the same type opens no task of its own, and
  the resolution of the first one's leaves it `needs_manual`.
* Two parses of one thread both read that it has no ticket: two tickets, and the
  thread keeps the second.
* An upload whose persistence failed can never be uploaded again
  (`uk_mail_fetch_records`).
* The scheduled synchronisation protects a record whose source row is incomplete. The
  offline tool invalidates it when the row has no serial number, and makes it valid
  when only a code is missing; the tool writes the checkpoint last and
  the API first, so they may deadlock.
* `create_reply_draft` raises after it has opened a task or moved the ticket; only
  the parse commits that, the API route and the job roll it back.
* A released task keeps its owner; a second failure of a kind
  is not notified; the repair tool takes mail-level notifications out of the
  notification centre.
* References are counted before an original is deleted (`mail_processing.py:41`): a
  copy with the same UID and content may take one in between. `MailSpool` has the
  steps; no property is claimed.
* A conflict that the model reports on the items of a supplement calls a person although
  those items are dropped: `ai.py:1312` takes the key `sn` off, the paths of the schema
  are of the kind `items[0].sn` (`ai.py:1485`, `schemas.py` 376-379).
* A commit of a SAP submission that fails with a text that names no connection is taken
  for a refusal although the rows may be there (`sqlserver.py` 227-233).
* Each poll of a job that waits for its RMA number counts as an attempt, so a failure
  after some polls is retried less often or not at all (`jobs.py:409`).

## 4. The proofs

`JobQueueProofs` holds for every set of jobs and workers, every assignment of types
to workers and every retry limit.

* `TypeCorrect`: `Spec => []TypeOK`. The inductive invariant `Typed` adds that a
  worker that is not idle holds a job of `Jobs`.
* `LeaseProtects`: under `LeaseOutlivesAttempt`, `HolderOwnsRow` is inductive
  together with `Typed`: a worker's row is running, leased to it and unexpired,
  and counts the attempt it is on. Two holders of one row would both be its
  owner, and a recovery only touches rows whose lease is not held.
  `OneRunner` follows.
* `RetryLimit`: the same assumption. It rests on one lemma per action (`NextMoves`)
  that says how a single row can move; `Budgeted` (attempts within
  `max_attempts` plus polls, and strictly below while waiting) is preserved by
  each of these moves. It needs `HolderOwnsRow`, since the loaded attempt number
  must be the stored one; `JobQueueStalled.cfg` shows what happens otherwise.
* `EndedForGood`: `FinishedIsFinal`, again from the moves of a row; that a settled job
  has no worker that is raising is what tells its end from an early `failed`.
* `Refines`: `Spec => ImplementsLifecycle`. Status maps to a phase (`failing` for a row
  that is `failed` while its worker is still raising), the executing
  worker to the runner; a failure put on record early is one `Falter`, a claim (with the recovery in it) is one `Dispatch`, the
  end of an attempt one `Report`, a crash a `Vanish` or a stutter.

`MailboxSyncProofs` holds for every number of mails, batch size, number of
retries and of values of UIDVALIDITY.

* `TypeCorrect`: that `attempts` stays within `IMAP_MAX_RETRIES` needs
  `WithinLimit` (whatever the current fetch still has to do may be tried once
  more), which needs `Untouched` (a record nobody tried has no attempts) and
  `PastEpochs` (a fetch of an older UIDVALIDITY is never taken for a current one).
* `NothingPassed`: `NoGap` with `Ascending` (the cursor is on a UID that exists, so
  a mail that arrives lies above it). The one hard step is a poll, and the lemma
  `DiscoverDoes` says what it does: the batch is a prefix of the candidates
  (`InspectedIsPrefix`), so what lies below the new cursor was either below the
  old one or has been looked at; and a synchronisation becomes incremental only
  when all candidates fit. `HighestIsTop` (a finite set of UIDs has a highest) is
  proved from the well-foundedness of inclusion on finite sets.
* `TakenOnce`: `NotSelectedAgain`, from `DiscoverDoes`.

The proofs use of the pending UIDs only that they are some of the discovered
ones, so the order of `imap_uid` as a text does not matter to them.

`ObjectProofs` has two parts. The first, about `MailSpool`, holds for every set of
copies, every sharing of objects and every limit.

* `TypeCorrect`: as above; in addition an attempt that deletes its original has a
  verdict to record (`Attempt`).
* `OnceIngested`: `IngestedOnce`. The inductive form `OneEmail` ties the count to
  the e-mail's existence.
* `RowsAccounted`: `RowsReferredTo` with `WorksOnOriginal` (a job at work has its
  record's reference), which is why `Archive` inserts no row of its own.
* `NotSkippedForItself`: `SkippedForAnother` with `ForAnother`, for the verdicts that are
  found before they are written; it is stable since message ids stay stored
  (`NamesStay`) and the e-mail stays.

The second part is about `ObjectDeletion`, for every finite set of mails that share an
object and any processes. Its state is apart from that of `MailSpool`; the module
extends both, so the assumptions are those that the two modules name.

* `KeepsObjects`: `KeptIsThere`. The object may be removed long after somebody counted its
  references, so the invariant speaks of who has the object *while it may be removed*:
  when a mail is the last reference (`OthersExposed`) or an order to delete is not
  carried out (`AllExposed`), every other mail that has the object or is getting it
  is one of those that the model lists as exposed. `WorkFits` is needed because a
  removal must belong to such an order, and because two processes on one order would
  remove the object again after it was carried out.

`MailIntakeProofs` holds for every conversation, every number of copies of its mails
and all limits, whatever the models say. `TicketsOnlyFromSureMails`:
`OnlyWhenSure`. The links of tickets come from parses, which look at what is
stored and not at the ledger, so the inductive invariant adds that a mail stored
for a repair request or a supplement is surely one (`KeptForGoodReason`). What is
sure stays so (`SureStays`): a copy with a result is never taken up again. Each kind of step has a
lemma: rows of the ledger only (`LedgerOnly`), a parse (`ParseStep`), and the two
that store a mail (`ClassifyKeeps`, `PromoteKeeps`). `ThreadOfAMail` needs that a
finite set of numbers has a greatest (`Greatest`).

`IntakeTyped` (`Spec => []TypeOK`) includes that a copy and a job are tried no more often
than their limits say. It needs that one that waits has an attempt left (`CopiesFit`,
`JobsFit`), that the latest of the links of a mail exists (`Greatest` again), and that a
thread is one of a mail, from the first part.

The second part of `MailIntakeProofs` is about the operators of `MailReading`, for every number of
retries, with and without a fallback, and every answer of the models: which calls
a request makes and what ends it (`OneCallEnds`, `FallbackAnswers`,
`NoKeyNoFallback`), that local text needs no model (`TextNeedsNoModel`), and what a
result that nobody looks at must be like (`ReadOrNotNeeded`: only archives,
decorative images and a prc file when nothing is missing stay unread;
`LowConfidenceIsComplete`, `SignatureIsNoAddress`, `SupplementBringsNoSn`).

`ReplyDeliveryProofs` holds for every number of replies, workers, attempts and
follow-ups, so also for the second reply that the run leaves out. `Step` says table
by table what any step may do (what was taken stays taken, a filed reply stays filed,
a ticket gets closed only with a filed reply that the server took, a session is left
alone or fits the rows it was loaded from); each action has a lemma that it is such a step, and
`StepKeepsBase` shows once that such a step keeps the invariant `Base`.

* `DeliveryTyped`: with `JobsFit` (a job that waits has an attempt left) and
  `SessionsFit`: what a worker has in memory is true of the rows it came from. It
  says nothing of who else has the same row, so these results hold when leases
  expire under a working attempt as well.
* `ClosesOnEvidence`: needs `RecordsTrue` (`succeeded`, `sent` or `accepted` in any
  of the three tables only for a mail that the server took), since closing may be
  the work of the worker, of a reconciliation or of an archive retry.
* `CountsFollowups`: needs `DraftsAllowed`, because a reconciliation counts
  with `min(max_followup_count, ...)` and would not count below a limit of zero:
  there is no draft then.
* `HoldsSpecialBack`: again `DraftsAllowed`: before the release there is not even a
  draft that a retry, an approval or a job could send.
* `DeliversOnce`, `LedgerTellsTheTruth`: under `LeaseOutlivesAttempt`, as for
  `OneRunner` of the queue. `Leased` adds `OneHolder` (a reply's job has one worker)
  and `SendableIsUnsent` (whatever may still be sent was not risked, and nor was what a
  worker is about to send, `NotYetSent`). Without the assumption a second holder has
  an outbox row in memory that is sendable.
* `ClosedForGood`: `ClosedIsFinal` when there is one mail worker, `Workers = {w}`.
  That is what the program runs: one container `repair-mail-worker` in
  `docker-compose`, whose scheduler starts a job with `max_instances=1`. `CopyIsEarly`
  says that a ticket copy from before the RMA mail is of a ticket that is not
  beyond it. With two workers and two RMA replies it is false: the second worker's
  copy reopens the ticket that the first one closed.
* `PromiseIsKept`: `Spec => KeepsPromise`, a step-by-step refinement of
  `DeliveryPromise` under `LeaseOutlivesAttempt`. What a step may record depends on what
  the ledger said before, and several actions decide from the outbox, not the ledger,
  or from a session's copy of it. `InOrder` ties them: a row that may still be sent,
  stored or in memory, has no intention on record, and a session that has the
  server's answer finds the ledger still `running`, or already `succeeded` when the
  answer was yes (an operator was faster). `OneHolder` and `NotYetSent` do the rest:
  only the one holder hands over, and only what was not handed over.
* `JobsAsOffered`: `Spec => UsesQueue`. With `Refines` of `JobQueueProofs` this closes
  the composition: `JobQueue` gives what `JobLifecycle` says, and what `ReplyDelivery`
  does to its jobs is no more than that, so its environment is one that exists.

`SmtpPoolProofs` holds for every number of threads, connections and mails, any rate
and any age and wear at which connections are replaced.

* `PoolTyped`, `OneUserEach`: a slot is with one thread or available, once (`Owned`: in
  addition the line holds those who wait, and every thread has a mail of its own).
* `KeepsTheRate`: `WithinRate`. The rate limits when mails are let *through*, the
  server sees when they are *sent*. `SlotsBound` bridges the two for every moment of
  the last minute: the mails that had been let through by then and not sent each had
  a slot, so there are at most `Size` of them. `RateKept` bounds the rest.
* `TellsTheTruth`: `ResultsAreTrue`, over every combination of the server's answers.

`TicketFlowProofs` holds for every configuration of the relay, with any number of open
tasks and follow-ups. Handlers call each other, and a proof by cases on whole handlers
would repeat the same arguments many times. Two relations between the state a
handler gets and one it may leave compose instead: `Stays` (it neither leaves manual
review nor gets ready for the export) and `Proceeds` (it does so with nothing open
that blocks it, and with evidence). Every operator has a lemma that says which
relation it has; `StepFits` adds for each entry point who may close a ticket.

* `TicketTyped`, `AlertsWhileError`: invariants.
* `LeavesReviewOnlyClear`, `ReadyOnlyOnEvidence`, `ClosesAfterDelivery`: the three action
  properties, from `StepFits`.

The second part of `TicketFlowProofs` is about `ReviewBoard`, for any
operators and administrators (`UsersAssumption`). A handler
is a set of outcomes, and one lemma for each shows that its outcomes are `Handled`:
it leaves the operators alone, and whoever becomes the owner is told.

* `BoardTyped`: the types, and that only users are owners, are told or are operators.
* `SomebodyAlways`: `SomebodyIsThere`, from `OneOfPair`: whoever a slow dismissal will
  take, one of the pair is there without him, unless another dismissal has crossed it.
* `OwnersAreTold`: a slow transaction writes columns it read earlier. `AsIfNow` says that,
  while nobody has overtaken it, its outcome is one of those the stored rows
  still have; `WrittenIsChanged` that writing the changed columns gives exactly that
  outcome.
* `RepairsRestore`: for every state, not only those where `OwnerIsTold` holds, as long as
  there is an operator of the pair to give the task to; for a slow repair from
  `AsIfNow`, since nobody overtook it.

Its third part is about `RepairRules`, for any finite tables, items and changes.

* `QuotesFit`: `QuoteFitsItems`. With the types it is inductive: every decision ends either
  in a validation (`Validated`) or leaves the ticket locked (`Decided`), and the tables may
  change under a quote, which keeps the data it was made from.
* `GuessesNever`: `NeverGuesses`, from three lemmas on the choices themselves:
  `ChosenIsUnrivalled` (a record that is the only favourite has no rival),
  `PricingFits` (the only policy of the only customer) and `OfferedServes` (cards that
  match all send the board to one address). "The only one" is a count of one, which
  says something of finite sets only, hence the finiteness that `RepairRules` assumes.

Its last part is about `MasterData`, for any processes, records and number of events.

* `MasterTyped`: the typing of what is written needs `StillThere`: a row that a
  synchronisation has read is there when it writes, since no row is ever removed.
* `MirrorStays`: `StaysMirrored`. Two lemmas say that an answer or a stream that agrees
  with SAP leaves a copy that agrees with SAP as it is, *whatever* was read before
  (`MergedMirrors`, `StreamedMirrors`): a column is left out only when the value read
  equals the new one, and then the stored value, which by hypothesis is right, stays.
  This is the safety part of `SourceWins`; that the copy gets there is liveness.

No theorem about a specification has hypotheses on constants but `LeaseOutlivesAttempt` and the
one worker of `ClosedForGood`; the rest are the named assumptions of the modules,
which TLC evaluates in the runs.

`SapExportProofs` holds for every number of items, exports, workers, submissions and
versions, so also for the two workers on one export that the run leaves out.

* `ExportTyped`: `AllPolled` folds the poll over the exports by a recursive function;
  `AllPolledFits` shows that the function exists and stays within the type, by the
  least export that would not (`Upward`), as all induction over a bounded range here.
* `RequestsOnce`: the RequestIDs of an export are made once and stay (`OneId`), and
  RMA1 refuses a RequestID it has, so a retry adds no row.
* `AcceptedOnlyIfThere`: `RowFits` ties each status of an export to what RMA1 has,
  `SessionsFit` each remote transaction to the rows it committed, whoever still
  thinks of it; `LateWasAsked` covers transactions that commit after their
  connection was lost, `JobsAreOfExports` the jobs that were ordered before.
* `MailsCompleteAnswers`: the mail is ordered where the poll has one number for all
  items (`OneNumber`), and SAP's answers stay.

The invariants were model-checked on the instances of section 3 before they were
proved. Only model-checked:

* everything under fairness (`EveryJobEnds`, `SendingSettles`, `WantedMailTaken`,
  `MailSettles`, `SourceWins`, `EverySendEnds`, `OrderIsCarriedOut`): liveness is out
  of the prover's reach;
* what a recursive definition computes for every input. The proofs use only that it
  stays within bounds.

## 5. Not modelled

* Recognition of fields, quotations and signatures by patterns (`parser.py`, most of
  `ai.py`): text; what it yields is an input of `MailReading`.
  Prompts and schemas of the models.
* RMA documents, HTML and PDF (`rma_pdf.py`, templates): layout.
* In the runs: two replies of one ticket at a time, and so a second RMA reply after a
  failed one (`replies.py:2494`), and two workers on one SAP export (`sap_rma.py:412`):
  more states than a run of minutes can explore. The models have them and the
  safety theorems of section 4 cover them; `SendingSettles` does not.
* The splitting of threads by hand (merging answers 410), mails without Message-ID, mails skipped for what they contain.
* Spreadsheet imports beyond what they write: validation and previews. Routes of
  master data that answer 405.
* Passwords, tokens, profiles, lists, exports and statistics: single reads or writes.
* Presigned downloads.
* Schema and seeds (the transition table is `Allowed` in `TicketFlow`), dry runs of
  tools, the regression and end-to-end tools, which test the program.
* The front end, which keeps no state of its own, and the deployment.
