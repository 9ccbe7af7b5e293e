----------------------------- MODULE MailReading -----------------------------
(***************************************************************************)
(* What is read of a mail by the language models, and whether a person has *)
(* to look at it: the calls of the gateway, the status of an attachment,   *)
(* the fields that are kept of an extraction, and _parse_requires_manual.  *)
(*                                                                         *)
(* What a model says, and what a file contains, is data: everything here   *)
(* is an operator.  MailIntake has the protocol around it.                 *)
(***************************************************************************)
EXTENDS Naturals

CONSTANTS Retries,    \* max_retries of a route
          Fallback    \* whether the route has a second endpoint

ASSUME RouteAssumption == Retries \in Nat /\ Fallback \in BOOLEAN

-----------------------------------------------------------------------------
(* The gateway *)

\* The errors after which the call is repeated, or made to the fallback: a time-out, HTTP 429 and
\* 5xx, a failed request, an output that is not JSON or does not fit the schema.
Passing == {"timeout", "rate_limit", "server_error", "request_failed", "not_json", "not_fitting"}

\* HTTP 4xx, and a call that is not made for want of a key.
Lasting == {"client_error", "no_key"}

Endpoints == IF Fallback THEN {1, 2} ELSE {1}

Calls == 1 .. (IF Fallback THEN 2 ELSE 1) * (Retries + 1)
Endpoint(n) == IF n <= Retries + 1 THEN 1 ELSE 2

\* llm_task_configured
Configured(keys) == keys \cap Endpoints # {}

\* _invoke_endpoint
Said(keys, says) == [n \in Calls |-> IF Endpoint(n) \in keys THEN says[n] ELSE "no_key"]

\* invoke_structured: the calls that are made.
Made(said) == {n \in Calls : \A k \in 1 .. (n - 1) : said[k] \in Passing}

\* keys: the endpoints with a key.  says: what each call would say.
Answered(keys, says) ==
  /\ Configured(keys)
  /\ \E n \in Made(Said(keys, says)) : Said(keys, says)[n] = "answer"

-----------------------------------------------------------------------------
(* Attachments *)

\* archive: by its name or type.  document: csv, html, docx or xlsx.
Types == {"archive", "image", "txt", "prc", "document", "pdf", "other"}

\* packed: the content is an archive.  small: an inline image below the size that is parsed.
File == [type: Types, archived: BOOLEAN, packed: BOOLEAN, large: BOOLEAN, small: BOOLEAN,
         content: {"text", "blank", "broken"}]

Archive(f, up) == f.type = "archive" \/ (f.type = "other" /\ f.packed /\ f.archived /\ up)

\* The content is looked at.  up: the store gives the file.
Opened(f, up) == f.type \notin {"archive", "other"} /\ f.archived /\ ~f.large /\ up

Decorative(f) == f.type = "image" /\ f.small

\* An image goes to the visual model whatever is in it, and a pdf without text page by page; any
\* bytes make a text.
Unreadable(f) == f.type \in {"prc", "document", "pdf"} /\ f.content = "broken"

\* What is read of a text file without a model: it is too long to be sent, or nobody answers.
LocalText(f) == f.type \in {"txt", "prc"} /\ f.content # "blank"

\* _parse_attachment_impl.  answered: the model that is asked.
Parsable(f, answered) == ~Decorative(f) /\ ~Unreadable(f) /\ (answered \/ LocalText(f))

Status(f, up, answered) ==
  CASE Archive(f, up)                                -> "skipped"
    [] f.type = "other" /\ ~Archive(f, up)           -> "unsupported"
    [] Opened(f, up) /\ Decorative(f)                -> "skipped_decorative"
    [] Opened(f, up) /\ Parsable(f, answered)        -> "parsed"
    [] OTHER                                         -> "needs_manual_review"

-----------------------------------------------------------------------------
(* The extraction *)

RepairIntents == {"new_repair", "thread_new_repair", "customer_supplement"}

\* What an extraction gives of a ticket.  return: address, person and telephone for the return;
\* details: name, e-mail address and date.  The serial number belongs to the items.
Fields == {"return", "problem", "details"}
Asked == Fields \cup {"sn"}

Confidences == {"low", "fair", "sure"}   \* below CONFIDENCE_THRESHOLD, below AUTO_APPLY_..., above

\* fields, sn, conflicts, confidence: what the model says; the path of a conflict begins with
\* fields or items, and an address of no valid form is added to them.  returns: how the mail
\* supports the return fields; a mail may have no body.  told: the mail, or an item, describes the
\* failure.  known: serial numbers of the master data in the body, as many as items ("fits").
Extraction == [intent: RepairIntents, fields: SUBSET Fields, sn: BOOLEAN,
               conflicts: SUBSET {"items", "fields"}, confidence: Confidences,
               returns: {"explicit", "signature", "no_body"}, told: BOOLEAN,
               known: {"none", "fits", "differ"}]

\* _sanitize_customer_return_fields, and the description taken from the mail.
Kept(x) ==
  (x.fields \ IF x.returns = "signature" THEN {"return"} ELSE {})
    \cup IF x.told THEN {"problem"} ELSE {}

\* _replace_ai_sns_with_known_body_assets
HasSn(x) == x.sn \/ x.known = "fits"

Supplement(x) == x.intent = "customer_supplement"

\* The thread of the mail: whether it has a ticket, and what that lacks.
Threads == [linked: BOOLEAN, lacks: SUBSET Asked]

\* What is missing.  A supplement to a ticket is measured by what the ticket lacks, and its items
\* are those of the ticket; one to no ticket may lack the serial number only.
Missing(x, thread) ==
  LET noSn == IF HasSn(x) THEN {} ELSE {"sn"}
  IN  CASE Supplement(x) /\ thread.linked  -> thread.lacks \ Kept(x)
        [] Supplement(x) /\ ~thread.linked -> noSn
        [] OTHER                           -> (Fields \ Kept(x)) \cup noSn

\* With the items a conflict named sn is dropped, which no path of the schema is.
Conflicts(x, thread) ==
  IF Supplement(x) /\ thread.linked THEN x.conflicts \ {"sn"} ELSE x.conflicts

Complete(x, thread) == Missing(x, thread) = {} /\ Conflicts(x, thread) = {}

\* _can_auto_recover_customer_supplement
Recovered(x, thread) ==
  Supplement(x) /\ thread.linked /\ thread.lacks # {} /\ Complete(x, thread)

\* All return fields are there, and stated where a mail states them.
Explicit(x, thread) ==
  /\ x.intent = "new_repair" /\ Complete(x, thread)
  /\ "return" \in x.fields /\ x.returns = "explicit"

\* Either raises the confidence to the threshold.
Confidence(x, thread) ==
  IF Recovered(x, thread) \/ Explicit(x, thread) THEN "sure" ELSE x.confidence

-----------------------------------------------------------------------------
(* A person has to look *)

\* A prc file that nobody could read does not matter when nothing is missing.
Unread(type, status, missing) ==
  /\ status \in {"needs_manual_review", "unsupported"}
  /\ ~(type = "prc" /\ missing = {})

\* What is missing is asked for, when the confidence is fair; not so for thread_new_repair.
MayAsk(x, thread) ==
  /\ x.intent \in {"new_repair", "customer_supplement"}
  /\ Missing(x, thread) # {} /\ Confidence(x, thread) = "fair"

\* _parse_requires_manual.  files: the type and status of the attachments.
RequiresManual(x, thread, files) ==
  \/ Conflicts(x, thread) # {}
  \/ Confidence(x, thread) # "sure" /\ ~MayAsk(x, thread)
  \/ \E f \in files : Unread(f.type, f.status, Missing(x, thread))
=============================================================================
