------------------------------ MODULE SapExport ------------------------------
(***************************************************************************)
(* The export of a ticket to SAP and the RMA number that comes back        *)
(* (services/sap_rma.py, integrations/sap_middleware/sqlserver.py).  A     *)
(* ticket that passed the safety gate has an export: one line per item,    *)
(* with a RequestID.  Workers insert the lines of an export into the table *)
(* RMA1 in one transaction of the remote database; SAP answers in RMA2;    *)
(* a poll reads the answers and orders the mail that carries the number.   *)
(*                                                                         *)
(* A step is a local transaction.  The objects a session has read are not  *)
(* read again after a commit (expire_on_commit is off, and get FOR UPDATE  *)
(* locks the row without refreshing what the session holds).  The snapshot *)
(* of a ticket is a function of its version.                               *)
(***************************************************************************)
EXTENDS Integers, FiniteSets

CONSTANTS
    NItems,
    Workers,
    RmaNos,
    NoRma,
    BadRma,        \* a number or a call id that does not have the form
    MaxExports,    \* bounds: exports of the ticket, its version,
    MaxVersion,
    MaxAttempts,   \* submissions of an export,
    Crashes,       \* and whether workers die,
    Others,        \* other tickets wait for the poll as well,
    Attended       \* operators look after the export

ASSUME SapAssumption ==
    /\ NItems \in Nat \ {0} /\ NoRma \notin RmaNos /\ BadRma \notin RmaNos \cup {NoRma}
    /\ MaxExports \in Nat \ {0} /\ MaxVersion \in Nat \ {0} /\ MaxAttempts \in Nat
    /\ Crashes \in BOOLEAN /\ Others \in BOOLEAN /\ Attended \in BOOLEAN

VARIABLES
    ticket,      \* [status, version, checked, rma, task]; checked: the version whose snapshot
                 \* passed the gate, 0 if it was invalidated; task: an open sap_rma_timeout
    export,      \* ticket_relay_exports: [status, error, version, attempts, due, overdue, line, id]
    numbers,     \* ticket_rmas of the ticket
    mails,       \* rma_authorization jobs: [export, version, rma]
    jobs,        \* relay_ticket_export jobs that are to run: [export, key]
    keys,        \* idempotency keys ever used, of those jobs
    checks,      \* exports a sap_rma_poll job will look at when they are due
    run,         \* a worker's submit_export_batch: [phase, job, status, attempts]
    insert,      \* the remote transaction of a worker's call
    late,        \* remote transactions of nobody: sets of rows
    rma1, rma2,  \* the remote tables: rows, and the answer to each item of an export
    other        \* another ticket's export, answered and not yet read

vars == <<ticket, export, numbers, mails, jobs, keys, checks, run, insert, late,
          rma1, rma2, other>>
remote == <<rma1, rma2>>

Items == 1..NItems
Exports == 1..MaxExports
Lines == Exports \X Items
Accepted == {"waiting_sap_result", "waiting_rma", "rma_received"}
LineStatus == {"none", "pending", "submitting", "submit_unknown", "submit_failed",
               "manual_review", "timed_out"} \cup Accepted
ExportStatus == {"none", "pending", "submitting", "submit_unknown", "submit_failed",
                 "manual_review", "superseded"} \cup Accepted
Keys == Exports \X {"first", "unknown", "retry"} \X (0..MaxAttempts + 1)
NoJob == <<1, "none", 0>>

AllLines(status) == [i \in Items |-> status]
NoExport == [status |-> "none", error |-> "none", version |-> 0, attempts |-> 0,
             due |-> FALSE, overdue |-> FALSE, line |-> AllLines("none"), id |-> 0]
Idle == [phase |-> "idle", job |-> NoJob, status |-> "none", attempts |-> 0]

TicketRow == [status : {"ready_for_export", "manual_review", "rma_sent", "closed"},
              version : Nat, checked : Nat,
              rma : {"pending", "waiting_sap", "received", "manual_review", "sent", "issued"},
              task : BOOLEAN]
ExportRow == [status : ExportStatus, error : {"none", "timeout", "partial"}, version : Nat,
              attempts : 0..MaxAttempts, due : BOOLEAN, overdue : BOOLEAN,
              line : [Items -> LineStatus], id : Nat]
MailJob == [export : Exports, version : Nat, rma : RmaNos]
Session == [phase : {"idle", "prepared", "calling"}, job : Keys \cup {NoJob},
            status : ExportStatus, attempts : 0..MaxAttempts]

TypeOK ==
    /\ ticket \in TicketRow
    /\ export \in [Exports -> ExportRow]
    /\ numbers \subseteq RmaNos
    /\ mails \subseteq MailJob
    /\ jobs \subseteq Keys /\ keys \subseteq Keys /\ checks \subseteq Exports
    /\ run \in [Workers -> Session]
    /\ insert \in [Workers -> {"none", "open", "committed", "refused"}]
    /\ late \subseteq Exports
    /\ rma1 \subseteq Lines \X Nat
    /\ rma2 \in [Lines -> RmaNos \cup {NoRma, BadRma}]
    /\ other \in BOOLEAN
-----------------------------------------------------------------------------
Latest == CHOOSE e \in Exports :
             /\ export[e].status # "none"
             /\ \A d \in Exports : d > e => export[d].status = "none"
Current(e) == ticket.version = export[e].version /\ ticket.checked = export[e].version

(* The rows of an export: RMA1 holds a RequestID once (UNIQUE).              *)
RowsOf(e) == {<<<<e, i>>, export[e].id>> : i \in Items}
Found(e) == {i \in Items : <<<<e, i>>, export[e].id>> \in rma1}

(* _move_to_manual: a closed ticket refuses the transition, and the          *)
(* exception takes the whole transaction with it.                            *)
Movable(t) == t.status # "closed"
MovedToManual(t) ==
    [t EXCEPT !.rma = "manual_review", !.status = "manual_review",
              !.version = IF t.status = "manual_review" THEN t.version ELSE t.version + 1]

\* Fault: the lines get new RequestIDs whenever they are submitted.
BugEnsureLines(x) ==
    [x EXCEPT !.line = AllLines("pending"), !.id = @ + 1]

(* ensure_export_lines: the lines the export has are used again.             *)
EnsureLines(x) ==
    IF x.line # AllLines("none") THEN x
    ELSE [x EXCEPT !.line = AllLines("pending"), !.id = 1]

Unknown(x) == [x EXCEPT !.status = "submit_unknown", !.error = "none", !.due = FALSE,
                        !.line = AllLines("submit_unknown")]
Waiting(x) == [x EXCEPT !.status = "waiting_sap_result", !.error = "none", !.due = FALSE,
                        !.line = AllLines("waiting_sap_result")]

(* enqueue_job: a key that was used returns the job there is.                *)
Enqueue(key, new) ==
    /\ keys' = keys \cup {key}
    /\ jobs' = IF key \in keys THEN new ELSE new \cup {key}
-----------------------------------------------------------------------------
(* The ticket has just passed the gate for the first time.                   *)
Init ==
    /\ ticket = [status |-> "ready_for_export", version |-> 1, checked |-> 1,
                 rma |-> "waiting_sap", task |-> FALSE]
    /\ export = [e \in Exports |->
                    IF e = 1 THEN [NoExport EXCEPT !.status = "pending", !.version = 1]
                             ELSE NoExport]
    /\ numbers = {} /\ mails = {}
    /\ jobs = {<<1, "first", 0>>} /\ keys = {<<1, "first", 0>>} /\ checks = {}
    /\ run = [w \in Workers |-> Idle]
    /\ insert = [w \in Workers |-> "none"] /\ late = {}
    /\ rma1 = {} /\ rma2 = [l \in Lines |-> NoRma]
    /\ other = Others

(* The job ends, for good or until it is retried.                            *)
EndRun(w, again) ==
    /\ run' = [run EXCEPT ![w] = Idle]
    /\ jobs' = IF again THEN jobs ELSE jobs \ {run[w].job}

Claim(w, j) ==
    /\ run[w].phase = "idle" /\ j \in jobs /\ \A v \in Workers : run[v].job # j

(* submit_export_batch up to its first commit.                               *)
Supersede(w, j) ==
    /\ Claim(w, j) /\ ~Current(j[1])
    /\ export' = [export EXCEPT ![j[1]].status = "superseded"]
    /\ jobs' = jobs \ {j}
    /\ UNCHANGED <<ticket, numbers, mails, keys, checks, run, insert, late, remote, other>>

\* Lines that cannot be made, customers that differ, fields that do not map.
Unusable(w, j) ==
    /\ Claim(w, j) /\ Current(j[1]) /\ Movable(ticket)
    /\ export[j[1]].line = AllLines("none")
    /\ export' = [export EXCEPT ![j[1]].status = "manual_review"]
    /\ ticket' = MovedToManual(ticket)
    /\ jobs' = jobs \ {j}
    /\ UNCHANGED <<numbers, mails, keys, checks, run, insert, late, remote, other>>

AlreadyAccepted(w, j) ==
    /\ Claim(w, j) /\ Current(j[1])
    /\ \E i \in Items : export[j[1]].line[i] \in Accepted
    /\ jobs' = jobs \ {j}
    /\ UNCHANGED <<ticket, export, numbers, mails, keys, checks, run, insert, late,
                   remote, other>>

Submittable(x) == \A i \in Items : x.line[i] \notin Accepted

Prepare(w, j) ==
    LET x == EnsureLines(export[j[1]]) IN
    /\ Claim(w, j) /\ Current(j[1]) /\ Submittable(x)
    /\ x.status = "submitting" \/ x.attempts < MaxAttempts
    /\ export' = [export EXCEPT ![j[1]] = x]
    /\ run' = [run EXCEPT ![w] = [phase |-> "prepared", job |-> j, status |-> x.status,
                                  attempts |-> x.attempts]]
    /\ UNCHANGED <<ticket, numbers, mails, jobs, keys, checks, insert, late, remote, other>>

(* From the first commit to the second: what the session read counts.        *)
Mark(w) ==
    LET e == run[w].job[1] IN
    /\ run[w].phase = "prepared" /\ run[w].status # "submitting"
    /\ run[w].attempts < MaxAttempts
    /\ export' = [export EXCEPT ![e].status = "submitting",
                                ![e].attempts = run[w].attempts + 1,
                                ![e].line = AllLines("submitting")]
    /\ run' = [run EXCEPT ![w].phase = "calling",
                         ![w].attempts = run[w].attempts + 1]
    /\ insert' = [insert EXCEPT ![w] = "open"]
    /\ UNCHANGED <<ticket, numbers, mails, jobs, keys, checks, late, remote, other>>

\* Fault: the rows that are there are compared by inclusion.
BugReconciled(x, t, found) == [export |-> Waiting(x), ticket |-> t, retry |-> FALSE]

(* reconcile_uncertain_submission, given which rows RMA1 has.                *)
Reconciled(x, t, found) ==
    IF found = Items THEN [export |-> Waiting(x), ticket |-> t, retry |-> FALSE]
    ELSE IF found # {}
    THEN [export |-> [x EXCEPT !.status = "manual_review", !.error = "partial",
                               !.line = AllLines("manual_review")],
          ticket |-> MovedToManual(t), retry |-> FALSE]
    ELSE IF x.status = "submit_unknown" /\ ~x.due
    THEN [export |-> x, ticket |-> t, retry |-> FALSE]
    ELSE [export |-> [x EXCEPT !.status = "pending", !.error = "none", !.due = FALSE,
                               !.line = AllLines("pending")],
          ticket |-> t, retry |-> TRUE]

(* What the query returns: the rows there are, or some of those that a       *)
(* transaction commits while it reads.                                       *)
Query(e, found, late0) ==
    \/ found = Found(e) /\ late' = late0 /\ UNCHANGED rma1
    \/ /\ e \in late0 /\ Found(e) = {} /\ found # {}
       /\ rma1' = rma1 \cup RowsOf(e) /\ late' = late0 \ {e}

(* jobs0 and late0 are what the run this is part of has made of them.        *)
Reconcile(e, x, found, jobs0, late0) ==
    LET r == Reconciled(x, ticket, found) IN
    /\ Query(e, found, late0)
    /\ r.ticket # ticket => Movable(ticket)
    /\ export' = [export EXCEPT ![e] = r.export] /\ ticket' = r.ticket
    /\ IF r.retry THEN Enqueue(<<e, "unknown", x.attempts>>, jobs0)
                  ELSE jobs' = jobs0 /\ UNCHANGED keys

(* The marker was there: an earlier attempt did not end.                     *)
Recover(w, found) ==
    LET e == run[w].job[1] IN
    /\ run[w].phase = "prepared" /\ run[w].status = "submitting"
    /\ Reconcile(e, Unknown(export[e]), found, jobs \ {run[w].job}, late)
    /\ run' = [run EXCEPT ![w] = Idle]
    /\ UNCHANGED <<numbers, mails, checks, insert, rma2, other>>

(* The call comes back.  The session writes what it changed since it last    *)
(* read the rows, over whatever others have written meanwhile; rma_status    *)
(* was waiting_sap when it was read, and is left.                            *)
Accept(w) ==
    LET e == run[w].job[1] IN
    /\ run[w].phase = "calling" /\ insert[w] = "committed"
    /\ export' = [export EXCEPT ![e].status = "waiting_sap_result",
                                ![e].line = AllLines("waiting_sap_result")]
    /\ insert' = [insert EXCEPT ![w] = "none"]
    /\ EndRun(w, FALSE)
    /\ UNCHANGED <<ticket, numbers, mails, keys, checks, late, remote, other>>

\* SapTransactionError.  What commit() raises counts as a rollback unless its text speaks of the
\* connection or a time-out, so the rows may be there.  The job is retried, or its attempts are
\* used up.
Refuse(w) ==
    LET e == run[w].job[1] IN
    /\ run[w].phase = "calling" /\ insert[w] \in {"refused", "committed"}
    /\ export' = [export EXCEPT ![e].status = "submit_failed", ![e].error = "none",
                                ![e].line = AllLines("submit_failed")]
    /\ insert' = [insert EXCEPT ![w] = "none"]
    /\ \E again \in BOOLEAN : EndRun(w, again)
    /\ UNCHANGED <<ticket, numbers, mails, keys, checks, late, remote, other>>

\* SapUnknownCommitStateError: the connection is gone, the transaction may not be.
Orphaned(w) == IF insert[w] = "open" THEN late \cup {run[w].job[1]} ELSE late

LoseConnection(w, found) ==
    LET e == run[w].job[1] IN
    /\ run[w].phase = "calling"
    /\ Reconcile(e, Unknown(export[e]), found, jobs \ {run[w].job}, Orphaned(w))
    /\ checks' = IF export'[e].status = "submit_unknown" THEN checks \cup {e} ELSE checks
    /\ run' = [run EXCEPT ![w] = Idle] /\ insert' = [insert EXCEPT ![w] = "none"]
    /\ UNCHANGED <<numbers, mails, rma2, other>>

\* A worker dies; its job is taken back when the lease is over.
Crash(w) ==
    /\ Crashes /\ run[w].phase # "idle"
    /\ late' = Orphaned(w)
    /\ insert' = [insert EXCEPT ![w] = "none"]
    /\ run' = [run EXCEPT ![w] = Idle]
    /\ UNCHANGED <<ticket, export, numbers, mails, jobs, keys, checks, remote, other>>
-----------------------------------------------------------------------------
(* The remote database and SAP.                                              *)
Decide(w) ==
    LET e == run[w].job[1] IN
    /\ insert[w] = "open"
    /\ \/ /\ Found(e) = {} /\ e \notin late
          /\ rma1' = rma1 \cup RowsOf(e) /\ insert' = [insert EXCEPT ![w] = "committed"]
       \/ insert' = [insert EXCEPT ![w] = "refused"] /\ UNCHANGED rma1
    /\ UNCHANGED <<ticket, export, numbers, mails, jobs, keys, checks, run, late, rma2, other>>

DecideLate(e) ==
    /\ e \in late /\ late' = late \ {e}
    /\ rma1' \in {rma1, rma1 \cup RowsOf(e)}
    /\ UNCHANGED <<ticket, export, numbers, mails, jobs, keys, checks, run, insert, rma2,
                   other>>

Answer(e, i, no) ==
    /\ i \in Found(e) /\ rma2[<<e, i>>] = NoRma
    /\ rma2' = [rma2 EXCEPT ![<<e, i>>] = no]
    /\ UNCHANGED <<ticket, export, numbers, mails, jobs, keys, checks, run, insert, late,
                   rma1, other>>

OtherAnswered ==
    /\ Others /\ ~other /\ other' = TRUE
    /\ UNCHANGED <<ticket, export, numbers, mails, jobs, keys, checks, run, insert, late, remote>>

\* RELAY_SUBMIT_UNKNOWN_CONFIRM_SECONDS are over: nothing is still open by then.
ConfirmTime(e) ==
    /\ export[e].status = "submit_unknown" /\ ~export[e].due /\ e \notin late
    /\ export' = [export EXCEPT ![e].due = TRUE]
    /\ UNCHANGED <<ticket, numbers, mails, jobs, keys, checks, run, insert, late, remote, other>>

\* The working hours SAP has for an answer are over.
Overdue(e) ==
    /\ export[e].status \in {"waiting_sap_result", "waiting_rma"} /\ ~export[e].overdue
    /\ export' = [export EXCEPT ![e].overdue = TRUE]
    /\ UNCHANGED <<ticket, numbers, mails, jobs, keys, checks, run, insert, late, remote, other>>
-----------------------------------------------------------------------------
(* poll_export_batch, on what a transaction has made of the local rows.      *)
Rows == [ticket |-> ticket, x |-> export, numbers |-> numbers, mails |-> mails, ok |-> TRUE]

ToManual(s, e, x) ==
    [s EXCEPT !.x[e] = x, !.ticket = MovedToManual(s.ticket),
              !.ok = s.ok /\ Movable(s.ticket)]

Answered(e, i) == rma2[<<e, i>>] \notin {NoRma, BadRma}

\* Fault: one number is enough.
BugMissing(e) == IF \E i \in Items : Answered(e, i) THEN {} ELSE Items

Missing(e) == {i \in Items : rma2[<<e, i>>] = NoRma}

LinesRead(e, x) ==
    [i \in Items |-> IF i \in Missing(e) THEN "waiting_rma" ELSE "rma_received"]

Waits(s, e, x, confirmed) ==
    IF x.overdue /\ ~confirmed
    THEN [ToManual(s, e, [x EXCEPT
             !.status = "manual_review", !.error = "timeout",
             !.line = [i \in Items |-> IF x.line[i] = "waiting_rma" THEN "timed_out"
                                        ELSE x.line[i]]])
          EXCEPT !.ticket.task = TRUE]
    ELSE [s EXCEPT !.x[e] = [x EXCEPT !.status = "waiting_rma"]]

(* All lines are answered; other tickets may have the number, a call id may  *)
(* come twice, the return route of a line may be open.                       *)
Completes(s, e, x, problem, confirmed) ==
    LET nos == {rma2[<<e, i>>] : i \in Items} \ {NoRma}
        late0 == confirmed /\ s.ticket.status = "manual_review"
        t == IF late0
             THEN [s.ticket EXCEPT !.task = FALSE, !.status = "ready_for_export",
                                   !.version = s.ticket.version + 1, !.rma = "received"]
             ELSE [s.ticket EXCEPT !.rma = "received"]
    IN IF problem = "identity"
       THEN ToManual(s, e, [x EXCEPT !.status = "manual_review",
                                     !.line = AllLines("manual_review")])
       ELSE IF Cardinality(nos) # 1 \/ problem = "route"
       THEN ToManual(s, e, [x EXCEPT !.status = "manual_review"])
       ELSE [s EXCEPT
               !.x[e] = [x EXCEPT !.status = "rma_received", !.error = "none"],
               !.ticket = t, !.numbers = s.numbers \cup nos,
               !.mails = s.mails \cup
                            {[export |-> e, version |-> t.version, rma |-> no] : no \in nos},
               !.ok = s.ok /\ (late0 => s.ticket.task)]

(* Lines are read in their order; the first bad answer ends it.              *)
Bad(e) == {i \in Items : rma2[<<e, i>>] = BadRma}

ReadsBad(s, e, x) ==
    LET b == CHOOSE i \in Bad(e) : \A k \in Bad(e) : i <= k
        line == [i \in Items |-> IF i < b THEN LinesRead(e, x)[i]
                                 ELSE IF i = b THEN "manual_review" ELSE x.line[i]]
    IN ToManual(s, e, [x EXCEPT !.status = "manual_review", !.line = line])

Polled(s, e, problem, confirmed) ==
    LET x == s.x[e]
        y == [x EXCEPT !.line = LinesRead(e, x)]
    IN IF x.line = AllLines("none") THEN [s EXCEPT !.x[e] = [x EXCEPT !.status = "submit_failed"]]
       ELSE IF Bad(e) # {} THEN ReadsBad(s, e, x)
       ELSE IF Missing(e) # {} THEN Waits(s, e, y, confirmed)
       ELSE Completes(s, e, y, problem, confirmed)

Problems == {"none", "identity", "route"}

Commit(s) ==
    /\ s.ok
    /\ ticket' = s.ticket /\ export' = s.x /\ numbers' = s.numbers /\ mails' = s.mails

(* poll_waiting_rma_results: every export that waits, in one transaction.    *)
AllPolled(due, problem) ==
    LET after[n \in 0..MaxExports] ==
            IF n = 0 THEN Rows
            ELSE IF n \in due THEN Polled(after[n - 1], n, problem, FALSE)
            ELSE after[n - 1]
    IN after[MaxExports]

PollAll(problem) ==
    LET due == {e \in Exports : export[e].status \in {"waiting_sap_result", "waiting_rma"}}
    IN /\ due # {} \/ other
       /\ Commit(AllPolled(due, problem))
       /\ other' = FALSE
       /\ UNCHANGED <<jobs, keys, checks, run, insert, late, remote>>

\* The sap_rma_poll job of a submission whose outcome was unknown.
CheckJob(e, problem, found) ==
    /\ e \in checks
    /\ IF export[e].status = "submit_unknown"
       THEN /\ export[e].due
            /\ Reconcile(e, export[e], found, jobs, late) /\ checks' = checks \ {e}
            /\ UNCHANGED <<numbers, mails, rma2>>
       ELSE /\ found = {}
            /\ Commit(Polled(Rows, e, problem, FALSE))
            /\ checks' = IF export'[e].status = "waiting_rma" THEN checks ELSE checks \ {e}
            /\ UNCHANGED <<jobs, keys, late, remote>>
    /\ UNCHANGED <<run, insert, other>>
-----------------------------------------------------------------------------
(* What people do: api/v1/tickets.py acts on the export created last.        *)
PollLatest(problem, confirmed, found) ==
    /\ confirmed => export[Latest].error = "timeout"
    /\ IF export[Latest].status = "submit_unknown"
       THEN /\ Reconcile(Latest, export[Latest], found, jobs, late)
            /\ UNCHANGED <<numbers, mails, rma2>>
       ELSE /\ found = {}
            /\ Commit(Polled(Rows, Latest, problem, confirmed))
            /\ UNCHANGED <<jobs, keys, late, remote>>
    /\ UNCHANGED <<checks, run, insert, other>>

ReconcileLatest(found) ==
    /\ \/ export[Latest].status = "submit_unknown"
       \/ export[Latest].status = "manual_review" /\ export[Latest].error = "partial"
    /\ Reconcile(Latest, export[Latest], found, jobs, late)
    /\ UNCHANGED <<numbers, mails, checks, run, insert, rma2, other>>

Retryable(x) == x.status \in {"pending", "submit_failed"}

RetryLatest ==
    /\ Retryable(export[Latest]) /\ export[Latest].attempts < MaxAttempts
    /\ Enqueue(<<Latest, "retry", export[Latest].attempts + 1>>, jobs)
    /\ UNCHANGED <<ticket, export, numbers, mails, checks, run, insert, late, remote, other>>

(* patch_ticket_fields: refused for a ticket whose number is sent.           *)
Edit ==
    LET leaves == ticket.status = "ready_for_export" IN
    /\ ticket.rma # "sent" /\ ticket.version < MaxVersion
    /\ ticket' = [ticket EXCEPT !.version = ticket.version + (IF leaves THEN 2 ELSE 1),
                                !.checked = 0, !.rma = "pending",
                                !.status = IF leaves THEN "manual_review"
                                           ELSE ticket.status]
    /\ UNCHANGED <<export, numbers, mails, jobs, keys, checks, run, insert, late, remote, other>>

(* validate_and_mark_ready_for_export, when the report passes.               *)
Revalidate ==
    LET v == ticket.version + (IF ticket.status = "manual_review" THEN 1 ELSE 0)
        known == \E e \in Exports : export[e].status # "none" /\ export[e].version = v
    IN /\ ticket.status \in {"ready_for_export", "manual_review"} /\ ticket.version < MaxVersion
       /\ ticket' = [ticket EXCEPT !.status = "ready_for_export", !.version = v, !.checked = v,
                                   !.rma = "waiting_sap", !.task = FALSE]
       /\ IF known THEN UNCHANGED <<export, jobs, keys>>
          ELSE /\ Latest < MaxExports
               /\ export' = [export EXCEPT ![Latest + 1] =
                                [NoExport EXCEPT !.status = "pending", !.version = v]]
               /\ Enqueue(<<Latest + 1, "first", 0>>, jobs)
       /\ UNCHANGED <<numbers, mails, checks, run, insert, late, remote, other>>

(* create_and_send_rma_authorization: the mail goes out; it was sent before; *)
(* the job is of another version; someone has to look at the ticket.         *)
MailOutcomes(m) ==
    LET ready == ticket.status = "ready_for_export"
        current == ready /\ ticket.version = m.version
        again == ticket.status = "rma_sent" /\ numbers = {m.rma}
    IN \/ /\ current /\ numbers = {m.rma} /\ ticket.version < MaxVersion
          /\ ticket' = [ticket EXCEPT !.status = "rma_sent", !.version = @ + 1, !.rma = "sent"]
       \/ again /\ ticket' = [ticket EXCEPT !.rma = "sent"]
       \/ (ticket.status = "closed" \/ (ready /\ ~current)) /\ UNCHANGED ticket
       \/ /\ ticket.status = "manual_review" \/ (current /\ numbers # {m.rma})
             \/ (ticket.status = "rma_sent" /\ ~again)
          /\ Movable(ticket) /\ ticket' = MovedToManual(ticket)

Mail(m) ==
    /\ m \in mails /\ mails' = mails \ {m}
    /\ MailOutcomes(m)
    /\ UNCHANGED <<export, numbers, jobs, keys, checks, run, insert, late, remote, other>>

Close ==
    /\ ticket.status = "rma_sent" /\ ticket.version < MaxVersion
    /\ ticket' = [ticket EXCEPT !.status = "closed", !.version = @ + 1, !.rma = "issued"]
    /\ UNCHANGED <<export, numbers, mails, jobs, keys, checks, run, insert, late, remote, other>>
-----------------------------------------------------------------------------
Submit(w) ==
    \/ \E j \in jobs : Supersede(w, j) \/ Unusable(w, j) \/ AlreadyAccepted(w, j) \/ Prepare(w, j)
    \/ Mark(w)
    \/ \E found \in SUBSET Items : Recover(w, found) \/ LoseConnection(w, found)
    \/ Accept(w) \/ Refuse(w)

Sap ==
    \/ OtherAnswered
    \/ \E w \in Workers : Decide(w)
    \/ \E e \in Exports :
          \/ DecideLate(e) \/ ConfirmTime(e) \/ Overdue(e)
          \/ \E i \in Items, no \in RmaNos \cup {BadRma} : Answer(e, i, no)

Poll ==
    \/ \E problem \in Problems : PollAll(problem)
    \/ \E e \in checks, problem \in Problems, found \in SUBSET Items :
          CheckJob(e, problem, found)

People ==
    \/ /\ Attended
       /\ \/ \E problem \in Problems, confirmed \in BOOLEAN, found \in SUBSET Items :
                PollLatest(problem, confirmed, found)
          \/ \E found \in SUBSET Items : ReconcileLatest(found)
          \/ RetryLatest
    \/ Edit \/ Revalidate \/ Close
    \/ \E m \in mails : Mail(m)

Next ==
    \/ \E w \in Workers : Submit(w) \/ Crash(w)
    \/ Sap \/ Poll \/ People

Spec == Init /\ [][Next]_vars

(* Workers and pollers go on; the remote database decides, and time passes.  *)
FairSpec ==
    /\ Spec
    /\ \A w \in Workers : WF_vars(Submit(w)) /\ WF_vars(Decide(w))
    /\ \A e \in Exports :
          /\ WF_vars(DecideLate(e)) /\ WF_vars(ConfirmTime(e))
          /\ WF_vars(\E problem \in Problems, found \in SUBSET Items :
                        CheckJob(e, problem, found))
    /\ WF_vars(PollAll("none"))
-----------------------------------------------------------------------------
(* An item of an export is one row in RMA1, however often the export is      *)
(* submitted: a technical retry uses the RequestIDs again.                   *)
OneRequestPerItem == \A l \in Lines : Cardinality({r \in rma1 : r[1] = l}) <= 1

(* An export that waits for the answer of SAP has every row in RMA1: neither *)
(* an error nor an uncertain or a partial outcome is taken for success.      *)
AcceptedIsThere ==
    \A e \in Exports : export[e].status = "waiting_sap_result" => Found(e) = Items

(* The mail with the number is ordered when every item of one export has     *)
(* been answered with it; a partial answer does not complete an export.      *)
CompleteBeforeMail ==
    \A m \in mails : \A i \in Items : rma2[<<m.export, i>>] = m.rma

(* A submission in doubt is settled: found, partly found, or repeated.       *)
UncertainIsReconciled ==
    \A e \in Exports :
        export[e].status = "submit_unknown" ~> export[e].status # "submit_unknown"

(* The poll reads what SAP has answered to the other tickets.                *)
OthersAreRead == other ~> ~other
=============================================================================
