---------------------------- MODULE ReplyDelivery ----------------------------
(***************************************************************************)
(* Sending the replies of one ticket: services/replies.py with the outbox  *)
(* (email_outbox.py), the ledger of external operations and the smtp_send  *)
(* job.  A send is three transactions with an SMTP call between them; the  *)
(* session that runs it keeps the reply, ticket and outbox it loaded in    *)
(* the first one (expire_on_commit=False) while operators approve, reject, *)
(* reconcile and archive through transactions of their own.                *)
(*                                                                         *)
(* The queue is taken at the interface JobLifecycle promises: a waiting    *)
(* job is begun by one worker, and one whose worker vanished waits again.  *)
(***************************************************************************)
EXTENDS Naturals, FiniteSets

CONSTANTS
    Replies,        \* reply records of the ticket
    Workers,        \* processes that run smtp_send jobs
    NoReply,
    MaxAttempts,    \* SMTP_RETRY_LIMIT
    MaxFollowups,   \* ticket.max_followup_count
    LeaseOutlivesAttempt \* TRUE: no attempt outlives ASYNC_JOB_STALE_SECONDS

ASSUME DeliveryAssumption ==
    /\ IsFiniteSet(Replies)
    /\ NoReply \notin Replies
    /\ MaxAttempts \in Nat \ {0}
    /\ MaxFollowups \in Nat
    /\ LeaseOutlivesAttempt \in BOOLEAN

SendStatus == {"absent", "pending_review", "approved_pending_send", "sending", "sent",
               "send_failed", "send_uncertain", "rejected"}
OutboxStatus == {"none", "ready", "sending", "accepted", "uncertain", "partial_accepted",
                 "failed_retryable", "failed_terminal"}
Sendable == {"ready", "failed_retryable"}
LedgerStatus == {"none", "running", "succeeded", "uncertain", "failed_retryable",
                 "failed_terminal"}
TicketStatus == {"need_customer_info", "auto_replied", "ready_for_export", "rma_sent",
                 "closed", "manual_review"}
\* rma: the types that sending the RMA reply resolves (RMA_TASK_TYPES_RESOLVED_ON_SEND);
\* reply: every other one, of a draft, a send, an archive, a bounce or the limit.  Nothing tells
\* two tasks of one kind apart but that both must be resolved.
TaskType == {"rma", "reply"}
\* policy_snapshot of the RMA record: nothing special, a salutation, an anonymous sender or a
\* forced review, or released by an operator (manual_approved, manual_send_only).
Policy == {"plain", "special", "released"}
Ended == {"success", "failed", "needs_manual_review"}
Answers == {"accepted", "uncertain", "partial", "rejected", "terminal"}

VARIABLES
    reply,     \* [rma, review, send, archive, filed, intact]: rma is the reply_type
               \* rma_authorization (the others are follow-ups), filed outgoing_email_id,
               \* intact that the stored RMA number, PDF, EML and attachment agree
    outbox,    \* email_outbox.status, one row per reply
    ledger,    \* external_operation_records "reply:<id>:smtp"
    ticket,    \* [status, followups, policy]
    tasks,     \* kinds of the ticket's open manual-review tasks
    job,       \* the smtp_send job: [phase, attempts]
    worker,    \* [pc, reply] and what the session read: [outbox, status, followups], answer
    approving, \* <<reply, by>>: an approval that committed the outbox but no job yet
    rejecting, \* replies a reject request has read and not yet written
    mail       \* history: [risky: calls the server may have accepted, taken: calls it did]

vars == <<reply, outbox, ledger, ticket, tasks, job, worker, approving, rejecting, mail>>

Idle == [pc |-> "idle", reply |-> NoReply, outbox |-> "none",
         status |-> "manual_review", followups |-> 0, answer |-> "rejected"]

ReplyRow == [rma : BOOLEAN, review : {"pending", "approved", "auto_approved", "rejected"},
             send : SendStatus, filed : BOOLEAN, intact : BOOLEAN,
             archive : {"not_started", "archive_pending", "archived", "archive_failed"}]
TicketRow == [status : TicketStatus, followups : 0..MaxFollowups, policy : Policy]
JobRow == [phase : {"absent", "waiting", "begun"} \cup Ended, attempts : 0..MaxAttempts]
Session == [pc : {"idle", "claimed", "frozen", "calling", "answered", "recorded"},
            reply : Replies \cup {NoReply}, outbox : OutboxStatus, status : TicketStatus,
            followups : 0..MaxFollowups, answer : Answers]

TypeOK ==
    /\ reply \in [Replies -> ReplyRow]
    /\ outbox \in [Replies -> OutboxStatus]
    /\ ledger \in [Replies -> LedgerStatus]
    /\ ticket \in TicketRow
    /\ tasks \subseteq TaskType
    /\ job \in [Replies -> JobRow]
    /\ worker \in [Workers -> Session]
    /\ approving \subseteq Replies \X {"approved", "auto_approved"}
    /\ rejecting \subseteq Replies
    /\ mail \in [Replies -> [risky : Nat, taken : Nat]]
-----------------------------------------------------------------------------
Rma == {r \in Replies : reply[r].rma}

Holders(r) == {w \in Workers : worker[w].pc # "idle" /\ worker[w].reply = r}

(* rma_authorization jobs are mail jobs: one of the workers must be free.    *)
MailWorkerFree == \E w \in Workers : worker[w].pc = "idle"

\* Fault: the limit is compared with the wrong number.
BugOneMore(n) == IF n + 1 < MaxFollowups THEN n + 1 ELSE n

OneMore(n) == IF n < MaxFollowups THEN n + 1 ELSE MaxFollowups

(* _ensure_reply_manual_task, from the status the caller's copy shows: a     *)
(* ticket the export still needs keeps its status, another live one goes to  *)
(* manual_review, and a closed one makes the caller raise and roll back.     *)
\* Fault: the terminal status is not looked at.
BugOpenTask(open, seen) ==
    /\ tasks' = open \cup {"reply"}
    /\ ticket' = IF seen \in {"ready_for_export", "rma_sent", "manual_review"}
                 THEN ticket ELSE [ticket EXCEPT !.status = "manual_review"]

OpenTask(open, seen) ==
    /\ seen # "closed"
    /\ tasks' = open \cup {"reply"}
    /\ ticket' = IF seen \in {"ready_for_export", "rma_sent", "manual_review"}
                 THEN ticket ELSE [ticket EXCEPT !.status = "manual_review"]

SetReply(r, review, send) ==
    reply' = [reply EXCEPT ![r] = [@ EXCEPT !.review = review, !.send = send]]
SetSend(r, send) == SetReply(r, reply[r].review, send)

(* The job row is written in the transaction of the command's last part.     *)
EndJob(w, phase) ==
    /\ job' = [job EXCEPT ![worker[w].reply].phase = phase]
    /\ worker' = [worker EXCEPT ![w] = Idle]

RetryOr(r, phase) == IF job[r].attempts < MaxAttempts THEN "waiting" ELSE phase

(* _finalize_rma_issue on an RMA reply that is sent: what becomes of its     *)
(* archive_status, and of a ticket the caller's copy shows as rma_sent.      *)
\* Fault: only the filing is looked at before the ticket is closed.
BugVerified(r, filed) == filed

Verified(r, filed) == filed /\ reply[r].intact

ArchiveResult(r, filed) == IF ~filed THEN "archive_pending"
                           ELSE IF Verified(r, filed) THEN "archived" ELSE "archive_failed"

ClosedIf(sent) == IF sent THEN [ticket EXCEPT !.status = "closed"] ELSE ticket

FinalizeIssue(r, filed, seen) ==
    /\ reply' = [reply EXCEPT ![r].archive = ArchiveResult(r, filed)]
    /\ IF filed /\ ~Verified(r, filed)
       THEN OpenTask(tasks, seen)
       ELSE ticket' = ClosedIf(Verified(r, filed) /\ seen = "rma_sent") /\ UNCHANGED tasks

(* mark_outbox_sending                                                       *)
\* Fault: the status of the outbox row is not checked.
BugMayTransmit(status) == TRUE

MayTransmit(status) == status \in Sendable

(* prepare_outbox: an outbox row that exists keeps its status, whatever it   *)
(* is, and the message that was frozen with it.                              *)
\* Fault: the row is made ready again.
BugFrozen(r) == [outbox EXCEPT ![r] = "ready"]

Frozen(r) == [outbox EXCEPT ![r] = IF @ = "none" THEN "ready" ELSE @]

(* start_external_operation: what succeeded is not started again.            *)
Started(r) == [ledger EXCEPT ![r] = IF @ = "succeeded" THEN @ ELSE "running"]

(* _archive_outbound_email: the mail that went out, of the ticket's thread.  *)
SentAndFiled(r) == [reply EXCEPT ![r] = [@ EXCEPT !.send = "sent", !.filed = TRUE]]
-----------------------------------------------------------------------------
Init ==
    /\ \E rma \in SUBSET Replies : \E agree \in SUBSET rma :
          reply = [r \in Replies |-> [rma |-> r \in rma, review |-> "pending", send |-> "absent",
                      archive |-> "not_started", filed |-> FALSE, intact |-> r \in agree]]
    /\ outbox = [r \in Replies |-> "none"]
    /\ ledger = [r \in Replies |-> "none"]
    /\ \E s \in {"need_customer_info", "ready_for_export"}, p \in {"plain", "special"} :
          /\ p = "special" => Rma # {}
          /\ ticket = [status |-> s, followups |-> 0, policy |-> p]
    /\ tasks = {}
    /\ job = [r \in Replies |-> [phase |-> "absent", attempts |-> 0]]
    /\ worker = [w \in Workers |-> Idle]
    /\ approving = {} /\ rejecting = {}
    /\ mail = [r \in Replies |-> [risky |-> 0, taken |-> 0]]

\* Fault: a forced review in the policy snapshot is not looked at.
BugIssuable(r) ==
    /\ r \in Rma
    /\ MailWorkerFree
    /\ ticket.status = "ready_for_export"
    /\ \A q \in Rma : reply[q].send \in {"absent", "send_failed", "rejected"}

(* An rma_authorization job, queued when the RMA number arrives, when an     *)
(* operator retries (retry_rma_send) or releases a special policy: it looks  *)
(* at the ticket and at the RMA replies there are.                           *)
Issuable(r) ==
    /\ r \in Rma
    /\ MailWorkerFree
    /\ ticket.status = "ready_for_export" /\ ticket.policy # "special"
    /\ \A q \in Rma : reply[q].send \in {"absent", "send_failed", "rejected"}

(* create_reply_draft: a follow-up for a ticket that waits for the customer. *)
(* What it does at the limit is in TicketFlow.                               *)
Askable(r) ==
    /\ r \notin Rma
    /\ ticket.status = "need_customer_info"
    /\ ticket.followups < MaxFollowups

Drafted(r) == reply[r].send = "absent" /\ (Issuable(r) \/ Askable(r))

(* Without automatic sending, or under a released policy, the draft waits    *)
(* for a person.                                                             *)
DraftForReview(r) ==
    /\ Drafted(r)
    /\ SetSend(r, "pending_review")
    /\ tasks' = tasks \cup {IF r \in Rma THEN "rma" ELSE "reply"}
    /\ UNCHANGED <<outbox, ledger, ticket, job, worker, approving, rejecting, mail>>

(* With it the outbox is committed at once; only the RMA reply is            *)
(* approved_pending_send already in that transaction.  Or a guard, the       *)
(* envelope, the whitelist or the upload says no.                            *)
DraftAndSend(r) ==
    /\ Drafted(r)
    /\ r \in Rma => ticket.policy = "plain"
    /\ \/ /\ SetReply(r, "auto_approved",
                       IF r \in Rma THEN "approved_pending_send" ELSE "pending_review")
          /\ outbox' = Frozen(r)
          /\ approving' = approving \cup {<<r, "auto_approved">>}
          /\ UNCHANGED <<ticket, tasks>>
       \/ /\ SetReply(r, "auto_approved", "send_failed")
          /\ OpenTask(tasks, ticket.status)
          /\ UNCHANGED <<outbox, approving>>
    /\ UNCHANGED <<ledger, job, worker, rejecting, mail>>

(* _rma_manual_review: the job finds the ticket not ready, its policy        *)
(* special, its number, template, thread or PDF unusable; the ticket's       *)
(* status is left alone.                                                     *)
IssueRefused ==
    /\ Rma # {} /\ MailWorkerFree
    /\ ticket.status # "closed"
    /\ tasks' = tasks \cup {"rma"}
    /\ UNCHANGED <<reply, outbox, ledger, ticket, job, worker, approving, rejecting, mail>>

(* approve_rma_manual_policy                                                 *)
ReleasePolicy ==
    /\ Rma # {} /\ ticket.status = "ready_for_export"
    /\ ticket' = [ticket EXCEPT !.policy = "released"]
    /\ UNCHANGED <<reply, outbox, ledger, tasks, job, worker, approving, rejecting, mail>>

(* create_reply_draft on a follow-up that exists: it may still go out.       *)
AutoApprove(r) ==
    /\ r \notin Rma
    /\ reply[r].review = "pending" /\ reply[r].send = "pending_review"
    /\ ticket.status = "need_customer_info"
    /\ SetReply(r, "auto_approved", "pending_review")
    /\ outbox' = Frozen(r)
    /\ approving' = approving \cup {<<r, "auto_approved">>}
    /\ UNCHANGED <<ledger, ticket, tasks, job, worker, rejecting, mail>>

Approvable(r) == reply[r].send \in {"pending_review", "approved_pending_send",
                                    "send_failed", "rejected"}

(* approve_reply, up to the commit in _send_reply_record.                    *)
Approve(r) ==
    /\ Approvable(r)
    /\ SetReply(r, "approved", "approved_pending_send")
    /\ outbox' = Frozen(r)
    /\ approving' = approving \cup {<<r, "approved">>}
    /\ UNCHANGED <<ledger, ticket, tasks, job, worker, rejecting, mail>>

(* ... or a guard, the envelope, the whitelist or the upload says no.        *)
ApproveBlocked(r) ==
    /\ Approvable(r)
    /\ SetReply(r, "approved", "send_failed")
    /\ OpenTask(tasks, ticket.status)
    /\ UNCHANGED <<outbox, ledger, job, worker, approving, rejecting, mail>>

(* ... or the reply is being sent: its result now counts as uncertain.       *)
ApproveUncertain(r) ==
    /\ reply[r].send \in {"sending", "send_uncertain"}
    /\ SetSend(r, "send_uncertain")
    /\ OpenTask(tasks, ticket.status)
    /\ UNCHANGED <<outbox, ledger, job, worker, approving, rejecting, mail>>

(* The second half: the job, one per outbox row for ever.                    *)
EnqueueSend(r, by) ==
    /\ <<r, by>> \in approving
    /\ approving' = approving \ {<<r, by>>}
    /\ job' = [job EXCEPT ![r].phase = IF @ = "absent" THEN "waiting" ELSE @]
    /\ IF by = "auto_approved" /\ r \notin Rma
       THEN SetSend(r, "approved_pending_send") ELSE UNCHANGED reply
    /\ UNCHANGED <<outbox, ledger, ticket, tasks, worker, rejecting, mail>>

(* The request dies between its two transactions.                            *)
ApprovalLost(r, by) ==
    /\ <<r, by>> \in approving
    /\ approving' = approving \ {<<r, by>>}
    /\ UNCHANGED <<reply, outbox, ledger, ticket, tasks, job, worker, rejecting, mail>>

(* reject_reply reads without a lock, checks, and writes later.              *)
RejectRead(r) ==
    /\ reply[r].send \notin {"absent", "sent"}
    /\ rejecting' = rejecting \cup {r}
    /\ UNCHANGED <<reply, outbox, ledger, ticket, tasks, job, worker, approving, mail>>

RejectWrite(r) ==
    /\ r \in rejecting
    /\ rejecting' = rejecting \ {r}
    /\ SetReply(r, "rejected", "rejected")
    /\ UNCHANGED <<outbox, ledger, ticket, tasks, job, worker, approving, mail>>

(* retry_rma_archive, called by the operator and by the rma_archive job: it  *)
(* never calls SMTP.  Filing the outbound mail may fail (OSS).               *)
Archive(r, seen, files, open) ==
    LET filed == reply[r].filed \/ files IN
    IF seen = "closed" THEN SetSend(r, "sent") /\ tasks' = open /\ UNCHANGED ticket
    ELSE /\ reply' = [reply EXCEPT ![r] = [@ EXCEPT !.send = "sent", !.filed = filed,
                !.archive = IF Verified(r, filed) THEN "archived" ELSE "archive_failed"]]
         /\ IF Verified(r, filed)
            THEN ticket' = ClosedIf(seen = "rma_sent") /\ tasks' = open
            ELSE OpenTask(open, seen)

RetryArchive(r) ==
    /\ r \in Rma /\ reply[r].send = "sent"
    /\ \E files \in BOOLEAN : Archive(r, ticket.status, files, tasks)
    /\ UNCHANGED <<outbox, ledger, job, worker, approving, rejecting, mail>>

(* retry_rma_send of an RMA reply that went out: its tasks are over.         *)
RetrySend(r) ==
    /\ r \in Rma /\ reply[r].send = "sent" /\ ticket.status \in {"rma_sent", "closed"}
    /\ \E files \in BOOLEAN : Archive(r, ticket.status, files, tasks \ {"rma"})
    /\ UNCHANGED <<outbox, ledger, job, worker, approving, rejecting, mail>>

(* create_and_send_rma_authorization finds the RMA reply sent already.       *)
ReuseSent(r) ==
    /\ MailWorkerFree
    /\ r \in Rma /\ reply[r].send = "sent"
    /\ ticket.status = "ready_for_export"
    /\ \E files \in BOOLEAN :
          LET filed == reply[r].filed \/ files IN
          IF Verified(r, filed)
          THEN Archive(r, "rma_sent", files, tasks)
          ELSE /\ reply' = [reply EXCEPT ![r] = [@ EXCEPT !.filed = filed,
                                                          !.archive = "archive_failed"]]
               /\ tasks' = tasks \cup {"reply"}
               /\ ticket' = [ticket EXCEPT !.status = "rma_sent"]
    /\ UNCHANGED <<outbox, ledger, job, worker, approving, rejecting, mail>>

(* reconcile_uncertain_reply.  For an RMA reply of a ticket that is still    *)
(* ready_for_export the transition to rma_sent is asked for without the      *)
(* message id, raises, and nothing is written.  Operators answer truthfully: *)
(* they have looked whether the server took the message.                     *)
ReconcileSent(r) ==
    /\ reply[r].send = "send_uncertain"
    /\ mail[r].taken > 0
    /\ outbox' = [outbox EXCEPT ![r] = IF @ = "none" THEN @ ELSE "accepted"]
    /\ IF r \in Rma
       THEN /\ ticket.status # "ready_for_export"
            /\ \E files \in BOOLEAN : Archive(r, ticket.status, files, tasks)
       ELSE /\ SetSend(r, "sent")
            /\ ticket' = [ticket EXCEPT !.followups = OneMore(@),
                             !.status = IF @ = "need_customer_info" THEN "auto_replied" ELSE @]
            /\ UNCHANGED tasks
    /\ UNCHANGED <<ledger, job, worker, approving, rejecting, mail>>

ReconcileFailed(r) ==
    /\ reply[r].send = "send_uncertain"
    /\ mail[r].taken = 0
    /\ SetSend(r, "send_failed")
    /\ outbox' = [outbox EXCEPT ![r] = IF @ = "none" THEN @ ELSE "failed_terminal"]
    /\ UNCHANGED <<ledger, ticket, tasks, job, worker, approving, rejecting, mail>>

(* Other services: parsing, export and manual review move the ticket and     *)
(* close tasks (the transitions of seed.py that avoid the reply statuses).   *)
TicketMoves ==
    /\ \E move \in {<<"need_customer_info", "manual_review">>,
                    <<"need_customer_info", "ready_for_export">>,
                    <<"auto_replied", "need_customer_info">>,
                    <<"auto_replied", "ready_for_export">>,
                    <<"ready_for_export", "manual_review">>,
                    <<"manual_review", "need_customer_info">>,
                    <<"manual_review", "ready_for_export">>} :
          /\ ticket.status = move[1]
          /\ move[1] = "manual_review" => tasks = {}
          /\ ticket' = [ticket EXCEPT !.status = move[2]]
    /\ UNCHANGED <<reply, outbox, ledger, tasks, job, worker, approving, rejecting, mail>>

(* persist_dsn_event: a delivery report comes back, matched by the message   *)
(* id of the outbox.  A permanent failure is a task and leaves the ticket    *)
(* alone.                                                                    *)
Bounce(r) ==
    /\ mail[r].taken > 0
    /\ tasks' = tasks \cup {"reply"}
    /\ UNCHANGED <<reply, outbox, ledger, ticket, job, worker, approving, rejecting, mail>>

(* tools/reconcile_followup_counts --apply, beside whatever is being sent.   *)
(* It would raise the maximum too; the model does not reach it.              *)
Recount ==
    LET sent == Cardinality({r \in Replies \ Rma : reply[r].send = "sent"}) IN
    /\ sent <= MaxFollowups
    /\ ticket' = [ticket EXCEPT !.followups = sent]
    /\ UNCHANGED <<reply, outbox, ledger, tasks, job, worker, approving, rejecting, mail>>

ResolveTask(type) ==
    /\ type \in tasks
    /\ tasks' = tasks \ {type}
    /\ UNCHANGED <<reply, outbox, ledger, ticket, job, worker, approving, rejecting, mail>>
-----------------------------------------------------------------------------
(* The worker: claim, and load of the job.                                   *)
Claim(w, r) ==
    /\ worker[w].pc = "idle"
    /\ job[r].phase = "waiting"
    /\ job' = [job EXCEPT ![r] = [job[r] EXCEPT !.phase = "begun", !.attempts = @ + 1]]
    /\ worker' = [worker EXCEPT ![w] = [@ EXCEPT !.pc = "claimed", !.reply = r]]
    /\ UNCHANGED <<reply, outbox, ledger, ticket, tasks, approving, rejecting, mail>>

(* _send_reply_record, first transaction.  A reply on record as sent is not  *)
(* sent again; an RMA reply has its archive completed.                       *)
FindSent(w) ==
    LET r == worker[w].reply IN
    /\ worker[w].pc = "claimed"
    /\ reply[r].send = "sent"
    /\ IF r \in Rma THEN FinalizeIssue(r, reply[r].filed, ticket.status)
                    ELSE UNCHANGED <<reply, ticket, tasks>>
    /\ EndJob(w, "success")
    /\ UNCHANGED <<outbox, ledger, approving, rejecting, mail>>

(* One found being sent may have been delivered: nobody sends it again.      *)
FindUncertain(w) ==
    LET r == worker[w].reply IN
    /\ worker[w].pc = "claimed"
    /\ reply[r].send \in {"sending", "send_uncertain"}
    /\ SetSend(r, "send_uncertain")
    /\ OpenTask(tasks, ticket.status)
    /\ EndJob(w, "needs_manual_review")
    /\ UNCHANGED <<outbox, ledger, approving, rejecting, mail>>

Loadable(w) == /\ worker[w].pc = "claimed"
               /\ Approvable(worker[w].reply)

(* A guard, envelope or whitelist error, a broken frozen message (then the   *)
(* outbox is finished too) or a failed upload.                               *)
Block(w, broken, retryable) ==
    LET r == worker[w].reply IN
    /\ Loadable(w)
    /\ SetSend(r, "send_failed")
    /\ OpenTask(tasks, ticket.status)
    /\ broken => outbox[r] \in Sendable
    /\ outbox' = IF broken THEN [outbox EXCEPT ![r] = "failed_terminal"] ELSE outbox
    /\ EndJob(w, IF retryable THEN RetryOr(r, "failed") ELSE "failed")
    /\ UNCHANGED <<ledger, approving, rejecting, mail>>

(* Otherwise the transaction commits and the session keeps what it read.     *)
(* The review status is not looked at.                                       *)
Freeze(w) ==
    LET r == worker[w].reply IN
    /\ Loadable(w)
    /\ worker' = [worker EXCEPT ![w] = [@ EXCEPT !.pc = "frozen", !.outbox = outbox[r],
                                   !.status = ticket.status, !.followups = ticket.followups]]
    /\ UNCHANGED <<reply, outbox, ledger, ticket, tasks, job, approving, rejecting, mail>>

(* Second transaction: the ledger row is read for update, the outbox status  *)
(* is the one in memory.  Acceptance on record means no second message.      *)
SkipSmtp(w) ==
    /\ worker[w].pc = "frozen"
    /\ ledger[worker[w].reply] = "succeeded"
    /\ worker' = [worker EXCEPT ![w] = [@ EXCEPT !.pc = "answered", !.answer = "accepted"]]
    /\ UNCHANGED <<reply, outbox, ledger, ticket, tasks, job, approving, rejecting, mail>>

BeginSmtp(w) ==
    LET r == worker[w].reply IN
    /\ worker[w].pc = "frozen"
    /\ ledger[r] # "succeeded"
    /\ MayTransmit(worker[w].outbox)
    /\ reply' = [reply EXCEPT ![r] = [reply[r] EXCEPT !.send = "sending",
                                     !.archive = IF r \in Rma THEN "archive_pending" ELSE @]]
    /\ outbox' = [outbox EXCEPT ![r] = "sending"]
    /\ ledger' = Started(r)
    /\ worker' = [worker EXCEPT ![w].pc = "calling"]
    /\ UNCHANGED <<ticket, tasks, job, approving, rejecting, mail>>

(* The SMTP call and the look into the Sent folder.  "accepted" includes a   *)
(* refused Cc; "rejected" is 4xx or a check before the network; after a lost *)
(* connection the server may have taken the message or not.                  *)
Transmit(w, answer, taken) ==
    LET r == worker[w].reply IN
    /\ worker[w].pc = "calling"
    /\ answer \in {"accepted", "partial"} => taken
    /\ answer \in {"rejected", "terminal"} => ~taken
    /\ worker' = [worker EXCEPT ![w] = [@ EXCEPT !.pc = "answered", !.answer = answer]]
    /\ mail' = [mail EXCEPT ![r] = [mail[r] EXCEPT !.taken = IF taken THEN @ + 1 ELSE @,
                   !.risky = IF answer \in {"rejected", "terminal"} THEN @ ELSE @ + 1]]
    /\ UNCHANGED <<reply, outbox, ledger, ticket, tasks, job, approving, rejecting>>

(* Third transaction, from the copies in memory.  A follow-up ends here ...  *)
RecordFollowup(w) ==
    LET r == worker[w].reply IN
    /\ worker[w].pc = "answered" /\ worker[w].answer = "accepted"
    /\ r \notin Rma
    /\ reply' = SentAndFiled(r)
    /\ outbox' = [outbox EXCEPT ![r] = "accepted"]
    /\ ledger' = [ledger EXCEPT ![r] = "succeeded"]
    /\ ticket' = [ticket EXCEPT
                     !.followups = OneMore(worker[w].followups),
                     !.status = IF worker[w].status = "need_customer_info"
                                THEN "auto_replied" ELSE @]
    /\ EndJob(w, "success")
    /\ UNCHANGED <<tasks, approving, rejecting, mail>>

(* ... an RMA reply commits the acceptance and then closes the ticket.       *)
RecordRma(w) ==
    LET r == worker[w].reply
        ready == worker[w].status = "ready_for_export" IN
    /\ worker[w].pc = "answered" /\ worker[w].answer = "accepted"
    /\ r \in Rma
    /\ reply' = [SentAndFiled(r) EXCEPT ![r].archive = IF ledger[r] = "succeeded"
                                                       THEN "archive_pending" ELSE @]
    /\ outbox' = [outbox EXCEPT ![r] = "accepted"]
    /\ ledger' = [ledger EXCEPT ![r] = "succeeded"]
    /\ ticket' = IF ready THEN [ticket EXCEPT !.status = "rma_sent"] ELSE ticket
    /\ worker' = [worker EXCEPT ![w] = [worker[w] EXCEPT !.pc = "recorded",
                                           !.status = IF ready THEN "rma_sent" ELSE @]]
    /\ tasks' = tasks \ {"rma"}
    /\ UNCHANGED <<job, approving, rejecting, mail>>

(* Fourth transaction.  When it does not close, an rma_archive job is queued *)
(* (RetryArchive).                                                           *)
Finalize(w) ==
    /\ worker[w].pc = "recorded"
    /\ FinalizeIssue(worker[w].reply, TRUE, worker[w].status)
    /\ EndJob(w, "success")
    /\ UNCHANGED <<outbox, ledger, approving, rejecting, mail>>

SendAfter(answer) == IF answer \in {"uncertain", "partial"} THEN "send_uncertain"
                                                            ELSE "send_failed"
OutboxAfter(answer) == CASE answer = "uncertain" -> "uncertain"
                         [] answer = "partial" -> "partial_accepted"
                         [] answer = "rejected" -> "failed_retryable"
                         [] answer = "terminal" -> "failed_terminal"

\* Fault: a lost answer is written down like a rejection by the server.
BugLedgerAfter(answer) == IF answer = "partial" THEN "uncertain" ELSE "failed_retryable"

LedgerAfter(answer) == CASE answer \in {"uncertain", "partial"} -> "uncertain"
                         [] answer = "rejected" -> "failed_retryable"
                         [] answer = "terminal" -> "failed_terminal"

(* The job's own retry rule reads the error code: SMTP_PARTIAL_ACCEPTED and  *)
(* some rejections are retried, the others not.                              *)
RecordFailure(w, retryable) ==
    LET r == worker[w].reply
        answer == worker[w].answer IN
    /\ worker[w].pc = "answered" /\ answer # "accepted"
    /\ answer = "partial" => retryable
    /\ answer \in {"uncertain", "terminal"} => ~retryable
    /\ SetSend(r, SendAfter(answer))
    /\ outbox' = [outbox EXCEPT ![r] = OutboxAfter(answer)]
    /\ ledger' = [ledger EXCEPT ![r] = LedgerAfter(answer)]
    /\ OpenTask(tasks, worker[w].status)
    /\ LET over == IF answer \in {"uncertain", "partial"} THEN "needs_manual_review"
                                                          ELSE "failed" IN
       EndJob(w, IF retryable THEN RetryOr(r, over) ELSE over)
    /\ UNCHANGED <<approving, rejecting, mail>>

(* An exception (OSS, a transition that is refused, no owner for a task,     *)
(* OUTBOX_NOT_SENDABLE): the open transaction is rolled back.  After the     *)
(* SMTP call only TICKET_ALREADY_TERMINAL is a code that is not retried.     *)
Raise(w, retryable) ==
    /\ ~retryable => worker[w].pc \in {"claimed", "frozen"} \/ worker[w].status = "closed"
    /\ worker[w].pc \in {"claimed", "frozen", "answered", "recorded"}
    /\ \E phase \in {"failed", "needs_manual_review"} :
          EndJob(w, IF retryable THEN RetryOr(worker[w].reply, phase) ELSE phase)
    /\ UNCHANGED <<reply, outbox, ledger, ticket, tasks, approving, rejecting, mail>>

Crash(w) ==
    /\ worker[w].pc # "idle"
    /\ worker' = [worker EXCEPT ![w] = Idle]
    /\ UNCHANGED <<reply, outbox, ledger, ticket, tasks, job, approving, rejecting, mail>>

(* recover_stale_jobs, once the lease is too old.                            *)
\* Fault: a job on its last attempt is not recovered.
BugRecover(r) ==
    /\ job[r].phase = "begun" /\ job[r].attempts < MaxAttempts
    /\ LeaseOutlivesAttempt => Holders(r) = {}
    /\ job' = [job EXCEPT ![r].phase = "waiting"]
    /\ UNCHANGED <<reply, outbox, ledger, ticket, tasks, worker, approving, rejecting, mail>>

Recover(r) ==
    /\ job[r].phase = "begun"
    /\ LeaseOutlivesAttempt => Holders(r) = {}
    /\ job' = [job EXCEPT ![r].phase = RetryOr(r, "failed")]
    /\ UNCHANGED <<reply, outbox, ledger, ticket, tasks, worker, approving, rejecting, mail>>

Answer(w) ==
    \/ RecordFollowup(w) \/ RecordRma(w)
    \/ \E retryable \in BOOLEAN : RecordFailure(w, retryable)

Progress(w) ==
    \/ FindSent(w) \/ FindUncertain(w) \/ Freeze(w)
    \/ \E broken, retryable \in BOOLEAN : Block(w, broken, retryable)
    \/ SkipSmtp(w) \/ BeginSmtp(w)
    \/ \E answer \in Answers, taken \in BOOLEAN : Transmit(w, answer, taken)
    \/ Answer(w) \/ Finalize(w)
    \/ \E retryable \in BOOLEAN : Raise(w, retryable)

Operator(r) ==
    \/ DraftForReview(r) \/ DraftAndSend(r)
    \/ AutoApprove(r) \/ Approve(r) \/ ApproveUncertain(r) \/ ApproveBlocked(r)
    \/ \E by \in {"approved", "auto_approved"} : EnqueueSend(r, by) \/ ApprovalLost(r, by)
    \/ RejectRead(r) \/ RejectWrite(r)
    \/ RetryArchive(r) \/ RetrySend(r) \/ ReuseSent(r) \/ Bounce(r)
    \/ ReconcileSent(r) \/ ReconcileFailed(r)

Next ==
    \/ \E r \in Replies : Operator(r) \/ Recover(r) \/ (\E w \in Workers : Claim(w, r))
    \/ \E w \in Workers : Progress(w) \/ Crash(w)
    \/ TicketMoves \/ IssueRefused \/ ReleasePolicy \/ Recount
    \/ \E type \in TaskType : ResolveTask(type)

(* The mail worker keeps polling, every step of a send ends (timeouts), and  *)
(* abandoned jobs are recovered.  Operators owe nothing.                     *)
Fairness ==
    /\ \A w \in Workers : /\ WF_vars(worker[w].pc # "idle" /\ Progress(w))
                          /\ \A r \in Replies : WF_vars(Claim(w, r))
    /\ \A r \in Replies : WF_vars(Recover(r))

Spec == Init /\ [][Next]_vars
FairSpec == Spec /\ Fairness
-----------------------------------------------------------------------------
(* Safety: once the mail server may have accepted a reply, no later attempt, *)
(* retry, re-approval or reconciliation hands it to the server again.        *)
SendsOnce == \A r \in Replies : mail[r].risky <= 1

(* Safety: the ledger tells the truth about the outside world at every point *)
(* of every interleaving: "succeeded" only if the server took the message,   *)
(* "failed" only if it cannot have; and no reply or outbox row is on record  *)
(* as sent or accepted without the server having taken the message.          *)
LedgerIsTrue ==
    \A r \in Replies :
       /\ ledger[r] = "succeeded" => mail[r].taken > 0
       /\ ledger[r] \in {"failed_retryable", "failed_terminal"} => mail[r].risky = 0
       /\ reply[r].send = "sent" \/ outbox[r] = "accepted" => mail[r].taken > 0

(* Safety: a ticket is closed only if the server took an RMA reply of it     *)
(* whose outbound mail is filed and whose stored evidence agrees.            *)
ClosedOnEvidence ==
    ticket.status = "closed" =>
       \E r \in Rma : reply[r].filed /\ reply[r].intact /\ mail[r].taken > 0

(* Action property: a closed ticket is not reopened.                         *)
ClosedIsFinal == [][ticket.status = "closed" => ticket'.status = "closed"]_vars

(* Liveness: a reply being sent does not stay so while its job lives; worker *)
(* crashes, lost answers and failed commits included.                        *)
SendingSettles ==
    \A r \in Replies : (reply[r].send = "sending") ~>
                       (reply[r].send # "sending" \/ job[r].phase \in Ended)

(* Safety: a follow-up counts against the ticket's limit once it is known to *)
(* be sent, whether the worker or an operator finds that out, and nothing    *)
(* but a follow-up that the server took counts.                              *)
FollowupsCounted ==
    /\ \A r \in Replies \ Rma : reply[r].send = "sent" => ticket.followups > 0
    /\ ticket.followups > 0 => \E r \in Replies \ Rma : mail[r].taken > 0

(* Safety: while nobody has released the special policy of an RMA number (a  *)
(* special price, salutation or an anonymous sender), no message with it is  *)
(* handed to the server, whichever retry, approval or job comes.             *)
SpecialHeldBack == ticket.policy = "special" => \A r \in Rma : mail[r].risky = 0

(* What became of the message of a reply, out there.                         *)
Fate == [r \in Replies |-> IF mail[r].risky = 0 THEN "held"
                           ELSE IF mail[r].taken = 0 THEN "lost" ELSE "taken"]

Promise == INSTANCE DeliveryPromise WITH fate <- Fate

(* Refinement: under every crash, retry, approval and reconciliation the     *)
(* intention is on record before the server can have the message, the        *)
(* message is handed over once, and the ledger records the outcome once and  *)
(* truly.                                                                    *)
KeepsPromise == Promise!Spec

(* The smtp_send jobs, and who works on them.                                *)
Phase == [r \in Replies |-> job[r].phase]
Runner == [r \in Replies |-> Holders(r)]

Queue == INSTANCE JobLifecycle WITH Jobs <- Replies, Terminal <- Ended,
                                    phase <- Phase, runner <- Runner

(* Refinement: the jobs are used as JobLifecycle offers them, which is what  *)
(* JobQueue implements: one worker on a job, results from that worker only,  *)
(* and an ended job stays ended.                                             *)
UsesQueue == Queue!Spec

(* What docs/05 asks of a commit lost after the server accepted the message: *)
(* it is recovered from the ledger or becomes uncertain.  So a reply never   *)
(* stays in "sending" when no job is left to look at it.                     *)
NothingStranded ==
    \A r \in Replies : reply[r].send = "sending" => job[r].phase \notin Ended

(* What docs/03 says of reconcile-send: it handles every uncertain reply,    *)
(* with either outcome.                                                      *)
Reconcilable ==
    \A r \in Replies : reply[r].send = "send_uncertain" /\ mail[r].taken > 0 =>
                          ENABLED ReconcileSent(r)

(* What reconcile_followup_counts takes the counter for: the number of       *)
(* follow-ups that were sent.  It counts one twice when an operator settles  *)
(* it as sent and the worker then writes send_uncertain from its old copy.   *)
CountedOnce ==
    ticket.followups <= Cardinality({r \in Replies \ Rma : mail[r].taken > 0})

(* What REPLY_ALREADY_SENT_IMMUTABLE says: a sent reply stays sent.          *)
SentIsImmutable ==
    [][\A r \in Replies : reply[r].send = "sent" => reply'[r].send = "sent"]_vars

(* What docs/03 says of the way to closed: rma_sent is entered from          *)
(* ready_for_export only.                                                    *)
LegalPath ==
    [][ticket'.status = "rma_sent" => ticket.status \in {"ready_for_export", "rma_sent"}]_vars
=============================================================================
