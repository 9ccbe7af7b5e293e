----------------------------- MODULE TicketFlow -----------------------------
(***************************************************************************)
(* One repair ticket, from the mail that creates it to the end of its      *)
(* workflow, with the manual-review tasks that block it.                   *)
(*                                                                         *)
(* A handler of the program is an operator that takes the stored state (a  *)
(* record of type State) to the set of states it may commit: empty when    *)
(* the handler refuses the request (it raises, and nothing is committed).  *)
(* The modules of the delivery of replies and of the SAP export have those *)
(* parts in detail; here they are the events that reach the ticket.        *)
(*                                                                         *)
(* No code creates a ticket of the category manual_business or sets        *)
(* email_threads.predecessor_ticket_id, so the status resolved and the     *)
(* handling of mail after closure are left out.  A task is identified by   *)
(* its type: create_manual_task_if_missing keeps at most one open task of  *)
(* a type.  Who holds a task is in ReviewBoard.                            *)
(***************************************************************************)
EXTENDS Naturals, FiniteSets

CONSTANTS Relay,        \* the values relay_configured() takes: a set of Booleans
          MaxOpen       \* bound: how many tasks are open at a time

ASSUME RelayAssumption == Relay # {} /\ Relay \subseteq BOOLEAN
ASSUME MaxOpenAssumption == MaxOpen \in Nat \ {0}

VARIABLE stored         \* what the database holds of the ticket

vars == <<stored>>

-----------------------------------------------------------------------------
Statuses == {"new_email", "parsed", "need_customer_info", "auto_replied", "manual_review",
             "ready_for_export", "rma_sent", "error", "closed"}

NonTerminal == Statuses \ {"closed"}

\* ai: ai_review_required; sn: sn_validation_failed and sn_master_resolution_failed; required:
\* sn_validation_required; safety: export_safety_failed; relay: sap_relay_not_configured; policy:
\* customer_policy_review; route: return_route_review; changed: validated_data_changed; timeout:
\* sap_rma_timeout; rma: the types closed when the RMA is sent; reply: reply_parent_required and
\* reply_template_missing; other: every other type.
TaskTypes == {"ai", "sn", "required", "safety", "relay", "policy", "route", "changed",
              "timeout", "rma", "reply", "other"}

\* What a parse of a mail decides.  kind: a repair request (of the mail the ticket came from, or
\* of another), a supplement, a reply without data (not among AUTO_INTENTS).
Parses == [kind: {"source", "repair", "supplement", "reply"}, manual: BOOLEAN, low: BOOLEAN,
           missing: BOOLEAN, changes: BOOLEAN]

\* status: "none" before the ticket exists.  data: two versions of the fields and items are all
\* that is told apart.  evidence: what safety_check_hash covers (nothing, the data as they are,
\* or the data before a change).  rma: rma_status, as far as a guard tells its values apart
\* ("open": every value before the RMA is sent).  mail: the RMA reply.  open: the types of the
\* open tasks.  alert: whether the notification ticket_system_error still asks for attention.
State == [status: Statuses \cup {"none"}, data: {0, 1}, evidence: {"none", "current", "old"},
          rma: {"open", "sent", "issued"}, mail: {"none", "prepared", "sent"},
          open: SUBSET TaskTypes, alert: BOOLEAN]

Then(S, Op(_)) == UNION {Op(s) : s \in S}

-----------------------------------------------------------------------------
(* The workflow *)

BaseTransitions ==
  {<<"new_email", "parsed", "parse_completed">>,
   <<"new_email", "manual_review", "parse_low_confidence">>,
   <<"parsed", "ready_for_export", "validation_passed">>,
   <<"parsed", "need_customer_info", "missing_fields_detected">>,
   <<"parsed", "manual_review", "field_conflict">>,
   <<"need_customer_info", "auto_replied", "reply_sent">>,
   <<"need_customer_info", "parsed", "customer_info_completed">>,
   <<"manual_review", "auto_replied", "reply_sent">>,
   <<"auto_replied", "parsed", "customer_reply_received">>,
   <<"manual_review", "ready_for_export", "manual_resolved">>,
   <<"manual_review", "parsed", "reparse_validation_passed">>,
   <<"manual_review", "parsed", "manual_resolved">>,
   <<"manual_review", "need_customer_info", "manual_resolved">>,
   <<"error", "parsed", "manual_resolved">>,
   <<"ready_for_export", "manual_review", "validated_data_changed">>,
   <<"ready_for_export", "rma_sent", "rma_reply_sent">>,
   <<"rma_sent", "closed", "rma_issued_and_archived">>}

Transitions ==
  BaseTransitions
    \cup {<<from, "manual_review", "manual_review_required">> :
            from \in NonTerminal \ {"manual_review"}}
    \cup {<<from, "error", "system_error">> : from \in NonTerminal \ {"error"}}

OpenTask(s, type) == [s EXCEPT !.open = @ \cup {type}]
Close(s, types) == [s EXCEPT !.open = @ \ types]

BugBlockers(s, to, resolving) == {}

\* The open tasks that keep a ticket in manual review; resolving: the task being resolved.
Blockers(s, to, resolving) ==
  IF s.status # "manual_review" THEN {}
  ELSE s.open \ (resolving \cup IF to = "ready_for_export" THEN {"route"} ELSE {})

BugAlert(s, to) == IF to = "error" THEN TRUE ELSE s.alert

Alert(s, to) ==
  to = "error" \/ (s.alert /\ s.status # "error" /\ to # "closed")

BugAllowed(s, to, event) ==
  \/ <<s.status, to, event>> \in Transitions
  \/ s.status = "closed" /\ <<"rma_sent", to, event>> \in Transitions

Allowed(s, to, event) == <<s.status, to, event>> \in Transitions

\* transition_ticket.  task: the type of the task a move to manual review opens.
Transition(s, to, event, resolving, task) ==
  IF Allowed(s, to, event) /\ Blockers(s, to, resolving) = {}
  THEN {[s EXCEPT !.status = to, !.alert = Alert(s, to),
                  !.open = IF to = "manual_review" THEN @ \cup {task} ELSE @]}
  ELSE {}

\* The handlers that ask for a review: a move to manual review, or a task for a ticket there.
ToReview(s, task) ==
  IF s.status = "manual_review" THEN {OpenTask(s, task)}
  ELSE Transition(s, "manual_review", "manual_review_required", {}, task)

\* The same, but a closed ticket only gets the task.
ReviewOrTask(s, task) == IF s.status = "closed" THEN {OpenTask(s, task)} ELSE ToReview(s, task)

-----------------------------------------------------------------------------
(* The export safety gate *)

\* A persisted SN report (build_sn_validation_report) always drops the safety evidence.
SnReport(s) == [s EXCEPT !.evidence = "none"]

\* validate_ticket_sn_core when the report fails (_ensure_sn_failure_task), and
\* _ensure_master_resolution_task when it passes but the SN master data are ambiguous.
SnReview(s) == IF s.status = "closed" THEN {s} ELSE ToReview(s, "sn")

\* resolve_ticket_return_routes and resolve_and_snapshot_ticket_policy.
ResolveRoutes(s) == {OpenTask(s, "route"), Close(s, {"route"})}
PolicyUnresolved(s) == OpenTask(s, "policy")

\* validate_and_mark_ready_for_export, when the SN stage or the safety report fails.
GateFails(s) ==
  LET bare == SnReport(s)
      review(x) == ToReview([x EXCEPT !.rma = "open"], "safety")
  IN  SnReview(bare) \cup Then(Then({bare, PolicyUnresolved(bare)}, ResolveRoutes), review)

MarkReady(s, resolving) ==
  IF s.status = "ready_for_export" THEN {s}
  ELSE Transition(s, "ready_for_export",
                  IF s.status = "parsed" THEN "validation_passed" ELSE "manual_resolved",
                  resolving, "other")

BugEvidence(s) == s.evidence
Evidence(s) == "current"

\* The same, when everything passes.
GatePasses(s, resolving) ==
  LET mark(x) == MarkReady(x, resolving)
      queue(x) == {[x EXCEPT !.evidence = Evidence(x), !.rma = "open",
                             !.open = IF configured THEN @ ELSE @ \cup {"relay"}] :
                     configured \in Relay}
  IN  Then(Then(ResolveRoutes(SnReport(s)), mark), queue)

-----------------------------------------------------------------------------
(* Changes of the ticket's data *)

DataChange(s) == [s EXCEPT !.data = 1 - @, !.evidence = IF @ = "none" THEN "none" ELSE "old"]

\* _invalidate_export_snapshot
Invalidate(s) ==
  LET bare == [s EXCEPT !.evidence = "none", !.rma = "open"]
  IN  IF s.status = "ready_for_export"
      THEN Transition(bare, "manual_review", "validated_data_changed", {}, "changed")
      ELSE {bare}

\* patch_ticket_fields and upsert_ticket_items with at least one change.
Edit(s) == IF s.rma = "sent" THEN {} ELSE Invalidate(DataChange(s))

\* The policy and return-route endpoints (a policy or a route is part of what is exported).
PolicyOrRoute(s) ==
  LET resolved == {s, PolicyUnresolved(s)} \cup ResolveRoutes(s)
      changed(x) == Invalidate(DataChange(x))
  IN  IF s.rma = "sent" \/ s.status = "closed" THEN {} ELSE Then(resolved, changed)

\* validate_ticket_sn: the SN stage alone.
ValidateSn(s) == {SnReport(s)} \cup SnReview(SnReport(s))

-----------------------------------------------------------------------------
(* The results of parses *)

AutoIntent(p) == p.kind # "reply"

Move(s, to, event) == Transition(s, to, event, {}, "other")

\* What apply_parse_result does to the status, in the order of its tests.
Replied(s, p) ==
  IF s.status # "auto_replied" THEN {s}
  ELSE IF p.kind = "source" /\ ~p.missing THEN Move(s, "parsed", "source_email_reparse_completed")
  ELSE IF p.kind \in {"supplement", "reply"} THEN Move(s, "parsed", "customer_reply_received")
  ELSE {s}

Completed(s, p) ==
  IF s.status = "need_customer_info" /\ AutoIntent(p) /\ ~p.missing
  THEN Move(s, "parsed", "customer_info_completed") ELSE {s}

Parsed(s, p) ==
  IF s.status # "new_email" THEN {s}
  ELSE IF p.low THEN Move(s, "manual_review", "parse_low_confidence")
  ELSE Move(s, "parsed", "parse_completed")

Incomplete(s, p) ==
  IF s.status = "parsed" /\ p.missing
  THEN Move(s, "need_customer_info", "missing_fields_detected") ELSE {s}

\* apply_parse_result: data and SN report first, then the status.
Apply(s, p) ==
  LET changed == IF p.changes THEN DataChange(s) ELSE s
      data == IF AutoIntent(p) THEN SnReport(changed) ELSE changed
      replied == Replied(data, p)
      completed == UNION {Completed(x, p) : x \in replied}
      parsed == UNION {Parsed(x, p) : x \in completed}
  IN  UNION {Incomplete(x, p) : x \in parsed}

\* ensure_manual_review_ticket_from_parse_result, for a ticket that exists.
EnsureReview(s, task) == ReviewOrTask(s, task)

\* _try_create_reply_draft: a follow-up that reaches max_followup_count raises after the ticket
\* was moved, and the caller swallows the exception; so it does when a task was opened.
Draft(s) ==
  CASE s.status = "manual_review" -> {s}
    [] s.status = "need_customer_info" -> {s, OpenTask(s, "reply")} \cup ToReview(s, "other")
    [] OTHER -> {s, OpenTask(s, "reply")}

\* The end of reparse_email: _resolve_recovered_ai_review_tasks, then a draft or the gate.
Recovered(s, p) ==
  LET left == Close(s, {"ai"})
  IN  IF ~AutoIntent(p) \/ s.status # "manual_review" THEN {s}
      ELSE IF left.open # {} THEN {left}
      ELSE Move(left, "parsed", "reparse_validation_passed")

Gated(s) ==
  LET required(x) == EnsureReview(x, "required")
  IN  GatePasses(s, {}) \cup Then(GateFails(s), required)

Continued(s, p) ==
  IF s.status = "need_customer_info" /\ p.missing THEN Draft(s)
  ELSE IF AutoIntent(p) /\ s.status # "manual_review" THEN Gated(s)
  ELSE {s}

ManualParse(s, p, user) ==
  LET review == EnsureReview(s, "ai")
  IN  UNION {IF user /\ x.status = "manual_review" THEN Apply(x, p) ELSE {x} : x \in review}

\* reparse_email, for a mail of this ticket.  user: an operator asked for it.
Reparse(s, p, user) ==
  IF p.manual THEN ManualParse(s, p, user)
  ELSE LET recovered == UNION {Recovered(x, p) : x \in Apply(s, p)}
       IN  UNION {Continued(x, p) : x \in recovered}

\* The first mail: create_ticket_from_parse_result, or a ticket made for manual review.
Created(s, p) ==
  IF s.status # "none" THEN {}
  ELSE IF p.manual \/ ~AutoIntent(p)
  THEN {[s EXCEPT !.status = "manual_review", !.open = {"ai"}]}
  ELSE Reparse([s EXCEPT !.status = "new_email"], p, FALSE)

-----------------------------------------------------------------------------
(* The manual-review task of a type is resolved *)

ResolveReady(s, task) ==
  LET done == {Close(x, {task}) : x \in GatePasses(s, {task})}
  IN  done \cup GateFails(s)

WaitCustomer(s, task) ==
  CASE s.status = "manual_review" ->
         {Close(x, {task}) :
            x \in Transition(s, "need_customer_info", "manual_resolved", {task}, "other")}
    [] s.status = "parsed" ->
         {Close(x, {task}) : x \in Move(s, "need_customer_info", "missing_fields_detected")}
    [] OTHER -> {Close(s, {task})}

\* generate_followup: create_reply_draft asks for need_customer_info and raises at the limit.
Followup(s, task) ==
  {x \in WaitCustomer(s, task) : s.status \in {"manual_review", "need_customer_info"}}

\* reparse: the task is resolved first and reopened when nothing else explains the review.
ReparseTask(s, task, p) ==
  {IF x.status = "manual_review" /\ x.open = {} THEN OpenTask(x, task) ELSE x :
     x \in Reparse(Close(s, {task}), p, TRUE)}

\* finish_external_handling, promote_to_first, and reparse for a task without a mail.
JustClose(s, task) == {Close(s, {task})}

-----------------------------------------------------------------------------
(* SAP and the RMA reply *)

SapFails(s) ==
  UNION {ToReview([s EXCEPT !.rma = "open"], task) : task \in {"timeout", "rma"}}

\* poll_export_batch with allow_late_result: the operator confirms a result after the timeout.
LateResult(s) ==
  IF s.status = "manual_review" /\ "timeout" \in s.open /\ s.evidence # "none"
  THEN Transition(Close(s, {"timeout"}), "ready_for_export", "manual_resolved", {}, "other")
  ELSE {}

\* The RMA reply is out.  The send job looks at neither status nor evidence of the ticket.
Delivered(s) ==
  LET sent == [s EXCEPT !.rma = "sent", !.mail = "sent"]
  IN  IF s.status = "ready_for_export" THEN Move(sent, "rma_sent", "rma_reply_sent") ELSE {sent}

\* create_and_send_rma_authorization: prepares a reply, or takes up the one that was sent.  The
\* job carries version and hash of the ticket as they were when it was ordered, by a poll or by
\* retry_rma_send: nothing compares the hash with the data.
PrepareRma(s) ==
  IF s.status \in {"closed", "rma_sent"} THEN {}
  ELSE IF s.status # "ready_for_export" THEN ToReview([s EXCEPT !.rma = "open"], "rma")
  ELSE IF s.evidence = "none" THEN {}
  ELSE IF s.mail = "sent" THEN Delivered(s)
  ELSE {[s EXCEPT !.mail = "prepared"], OpenTask(s, "rma")}
         \cup ToReview([s EXCEPT !.rma = "open"], "rma")

SendRma(s) ==
  IF s.mail # "prepared" THEN {}
  ELSE {Close(x, {"timeout", "rma"}) : x \in Delivered(s)}
         \cup ReviewOrTask([s EXCEPT !.rma = "open"], "rma")

MayFinalize(s) == s.mail = "sent"

\* _finalize_rma_issue and retry_rma_archive: the archive is verified, or a task asks for it.
Finalize(s) ==
  LET issued == [s EXCEPT !.rma = "issued"]
  IN  IF ~MayFinalize(s) \/ s.status = "closed" THEN {}
      ELSE (IF s.status = "rma_sent" THEN Move(issued, "closed", "rma_issued_and_archived")
            ELSE {issued})
             \cup ReviewOrTask(s, "other")

-----------------------------------------------------------------------------
Init == stored = [status |-> "none", data |-> 0, evidence |-> "none", rma |-> "open",
                  mail |-> "none", open |-> {}, alert |-> FALSE]

Commit(S) == stored' \in {s \in S : Cardinality(s.open) <= MaxOpen}

Exists == stored.status # "none"

CreateTicket == \E p \in Parses : Commit(Created(stored, p))

\* A mail of the ticket is parsed, by the job of its arrival or a retry, or by an operator.
ParseMail == Exists /\ \E p \in Parses, user \in BOOLEAN : Commit(Reparse(stored, p, user))

\* POST /parse-results/{id}/apply
ApplyParse == Exists /\ \E p \in Parses : Commit(Apply(stored, p))

EditTicket == Exists /\ Commit(Edit(stored))
ChangePolicyOrRoute == Exists /\ Commit(PolicyOrRoute(stored))
RevalidateSn == Exists /\ Commit(ValidateSn(stored))
ValidateExport == Exists /\ Commit(GatePasses(stored, {}) \cup GateFails(stored))

\* POST /tickets/{id}/transition: evidence, which the request does not carry, is asked for by
\* ready_for_export, rma_sent and closed.
RequestTransition ==
  \E t \in Transitions :
    /\ t[1] = stored.status
    /\ t[2] \notin {"ready_for_export", "rma_sent", "closed"}
    /\ Commit(Transition(stored, t[2], t[3], {}, "other"))

ResolveTask ==
  \E task \in stored.open :
    \/ Commit(ResolveReady(stored, task))
    \/ Commit(WaitCustomer(stored, task))
    \/ Commit(Followup(stored, task))
    \/ \E p \in Parses : Commit(ReparseTask(stored, task, p))
    \/ Commit(JustClose(stored, task))

\* A follow-up is sent (ReplyDelivery).
FollowupSent ==
  stored.status = "need_customer_info" /\ Commit(Move(stored, "auto_replied", "reply_sent"))

SapProblem == Exists /\ Commit(SapFails(stored))
ConfirmLateResult == Commit(LateResult(stored))
Authorize == Exists /\ Commit(PrepareRma(stored))
Deliver == Commit(SendRma(stored))
Archive == Commit(Finalize(stored))

Next ==
  \/ CreateTicket \/ ParseMail \/ ApplyParse
  \/ EditTicket \/ ChangePolicyOrRoute \/ RevalidateSn \/ ValidateExport
  \/ RequestTransition \/ ResolveTask \/ FollowupSent
  \/ SapProblem \/ ConfirmLateResult \/ Authorize \/ Deliver \/ Archive

Spec == Init /\ [][Next]_vars

-----------------------------------------------------------------------------
TypeOK == stored \in State

\* A ticket leaves manual review only when the tasks that held it there are done: of the tasks
\* open before, only a return-route review may stay, and only when the ticket goes on to the
\* export.  (A new task of the types relay and reply may be opened after it has left, in the
\* same request.)
LeavesReviewClear ==
  [][stored.status = "manual_review" /\ stored'.status # "manual_review" =>
       stored.open \cap stored'.open
         \subseteq {"relay", "reply"}
                     \cup IF stored'.status = "ready_for_export" THEN {"route"} ELSE {}]_vars

\* A ticket becomes ready for the export only with safety evidence of the data it then has, by
\* the gate or the resolution of a task.  A late SAP result that an operator confirms relies on
\* the evidence of the export, which the adoption of the items of a reply leaves in place.
ReadyOnEvidence ==
  [][stored.status # "ready_for_export" /\ stored'.status = "ready_for_export" =>
       \/ stored'.evidence = "current"
       \/ stored'.evidence = stored.evidence /\ stored.evidence = "old"
            /\ "timeout" \in stored.open \ stored'.open]_vars

\* The notification of a system error asks for attention exactly while the ticket is in error.
AlertWhileError == stored.alert <=> stored.status = "error"

\* A ticket is closed only after its RMA reply was delivered, is then issued, and stays closed.
ClosedAfterDelivery ==
  [][/\ stored.status = "closed" => stored'.status = "closed"
     /\ stored'.status = "closed" /\ stored.status # "closed" =>
          stored.mail = "sent" /\ stored'.rma = "issued"]_vars

\* RMA_SENT_TICKET_DATA_IMMUTABLE: once the RMA was delivered, an edit of the fields or items of
\* the ticket is refused.
SentDataFixed == [][EditTicket => stored.mail # "sent"]_vars
=============================================================================
