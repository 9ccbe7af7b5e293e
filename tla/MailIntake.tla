----------------------------- MODULE MailIntake -----------------------------
(***************************************************************************)
(* The mails of one conversation, from their arrival to the ticket: the    *)
(* checks before anything is stored, the classification by the model, what *)
(* is kept of a mail of each level, the thread it joins, the parse that    *)
(* opens or changes a ticket, and the people who are asked.                *)
(*                                                                         *)
(* A mail may arrive several times (two folders, an upload): a copy is one *)
(* row of the ledger mail_fetch_records.  The fetch from the mailbox and   *)
(* the spool are in MailboxSync and MailSpool, the workers in JobQueue,    *)
(* what is read of a mail in MailReading, and what a parse does to the     *)
(* status of a ticket in TicketFlow.                                       *)
(***************************************************************************)
EXTENDS Naturals, FiniteSets, MailReading

CONSTANTS Mails,         \* numbers of the mails of a conversation
          Answers,       \* [mail -> the mail it answers, 0 when it opens the conversation]
          Copies,        \* the copies that arrive
          MailOf,        \* [copy -> its mail]
          MaxAttempts,   \* how often a job is attempted
          MaxTickets,    \* bound: the tickets that are opened
          MaxRequests    \* bound: the requests of people

ASSUME MailsAssumption == IsFiniteSet(Mails) /\ Mails \subseteq Nat \ {0}
ASSUME AnswersAssumption ==
  Answers \in [Mails -> Mails \cup {0}] /\ \A m \in Mails : Answers[m] < m
ASSUME CopiesAssumption == IsFiniteSet(Copies) /\ MailOf \in [Copies -> Mails]
ASSUME BoundsAssumption == {MaxAttempts, MaxTickets, MaxRequests} \subseteq Nat \ {0}

VARIABLES ledger,     \* [copy -> its row]
          email,      \* [mail -> the row of emails]
          current,    \* [thread -> its ticket, or 0]; a thread has the number of its first mail
          ticket,     \* [number of a ticket -> its status]
          links,      \* set of <<mail, ticket>>: email_ticket_links
          tasks,      \* the open tasks: <<mail, ticket or 0, type: "mail", "ai_review" or "other">>
          run,        \* [actor, mail -> the parse in progress]
          job,        \* [kind, mail -> the job that parses it]
          requests,   \* how many requests people have made
          byHand      \* history: the mails that a person took for a repair request

kept == <<email, tasks, job>>
tickets == <<current, ticket, links>>
people == <<requests, byHand>>
vars == <<ledger, kept, tickets, run, people>>

-----------------------------------------------------------------------------
(* Intents and levels *)

\* new_repair stands for thread_new_repair as well, a new repair in a known conversation.
FirstIntents == {"new_repair", "customer_supplement"}
Intents == FirstIntents \cup {"manual", "lifecycle", "unknown"}

Level(intent) ==
  CASE intent \in FirstIntents -> "first"
    [] intent = "manual"       -> "second"
    [] intent = "lifecycle"    -> "third"
    [] intent = "unknown"      -> "unknown"

\* The results in the ledger: first, and one of skipped, second, third and unknown.
Final == {"first", "other"}

\* What is stored of a mail.  thread: 0 before it has one; locked: classification_locked.
Email == [tier: {"none", "minimal", "business"}, intent: Intents, thread: {0} \cup Mails,
          parse: {"none", "pending", "parsing", "parsed", "needs_manual"}, locked: BOOLEAN]

NoEmail == [tier |-> "none", intent |-> "unknown", thread |-> 0, parse |-> "none", locked |-> FALSE]

Tickets == 1..MaxTickets

\* A parse: what it has read of the thread and of the links when it began.
Run == [busy: BOOLEAN, ticket: {0} \cup Tickets, link: {0} \cup Tickets, closed: BOOLEAN]
NoRun == [busy |-> FALSE, ticket |-> 0, link |-> 0, closed |-> FALSE]

\* The first parse of a mail, the one after a promotion, and one a person asks for and waits for.
JobKinds == {"first", "promotion"}
Actors == JobKinds \cup {"person"}
Stored(m) == email[m].tier # "none"

\* A row of the ledger.  The attempts of a copy that is done are forgotten; clear is history:
\* the model was sure of a first level, and did not contradict itself.
Row(status, attempts) == [status |-> status, attempts |-> attempts, clear |-> FALSE]

Init ==
  /\ ledger = [c \in Copies |-> Row("none", 0)]
  /\ email = [m \in Mails |-> NoEmail]
  /\ current = [m \in Mails |-> 0]
  /\ ticket = [k \in Tickets |-> "none"]
  /\ links = {}
  /\ tasks = {}
  /\ run = [x \in Actors \X Mails |-> NoRun]
  /\ job = [x \in JobKinds \X Mails |-> [status |-> "none", attempts |-> 0]]
  /\ requests = 0
  /\ byHand = {}

-----------------------------------------------------------------------------
(* Arrival and classification *)

\* precheck_email_payload: the mail is stored, or another copy of it was dealt with.  A copy in
\* progress, or one that failed, does not count.
Duplicate(c) ==
  \/ Stored(MailOf[c])
  \/ \E d \in Copies \ {c} : MailOf[d] = MailOf[c] /\ ledger[d].status \in Final

\* A copy is taken up, for the first time or again after a failure.  The mails that are refused
\* for their sender, their recipient or their content are copies that do not arrive here.
Take(c) ==
  /\ ledger[c].status \in {"none", "retry_wait"}
  /\ ledger' = [ledger EXCEPT ![c] = IF Duplicate(c) THEN Row("other", 0)
                                     ELSE Row("classifying", @.attempts + 1)]
  /\ UNCHANGED <<kept, tickets, run, people>>

BugDecision(intent, confident, agrees) == IF confident \/ agrees THEN intent ELSE "unknown"

\* classify_mail: below the threshold, or with another intent as the first candidate, a mail is
\* unknown.  So it is when the provider fails.
Decision(intent, confident, agrees) == IF confident /\ agrees THEN intent ELSE "unknown"

-----------------------------------------------------------------------------
(* What is kept *)

Ancestors[m \in Mails] ==
  IF Answers[m] = 0 THEN {} ELSE {Answers[m]} \cup Ancestors[Answers[m]]

\* _find_thread_for_email: the thread of the nearest mail of the references that has one, and
\* otherwise a new one.
ThreadFor(m) ==
  LET known == {n \in Mails : n \in Ancestors[m] /\ email[n].thread # 0}
  IN  IF known = {} THEN m ELSE email[CHOOSE n \in known : \A o \in known : o <= n].thread

Business(m, intent, locked) ==
  [tier |-> "business", intent |-> intent, thread |-> ThreadFor(m), parse |-> "pending",
   locked |-> locked]

Queued == [status |-> "queued", attempts |-> 0]
Done(status) == [status |-> status, attempts |-> 0]

\* ingest_minimal_email: the mail, without thread and ticket, and a task.
KeepMinimal(m, intent) ==
  /\ Level(intent) \in {"second", "unknown"}
  /\ IF Stored(m) THEN UNCHANGED <<email, tasks>>
     ELSE /\ email' = [email EXCEPT ![m] = [NoEmail EXCEPT !.tier = "minimal", !.intent = intent,
                                              !.parse = "needs_manual"]]
          /\ tasks' = tasks \cup {<<m, 0, "mail">>}
  /\ UNCHANGED job

BugQueue(kind, m) == IF kind = "first" THEN [job EXCEPT ![<<kind, m>>] = Queued] ELSE job

Queue(kind, m) == [job EXCEPT ![<<kind, m>>] = Queued]

\* ingest_email and the job of the first parse: nothing for a mail that is stored already.
KeepBusiness(m, intent) ==
  /\ Level(intent) = "first"
  /\ IF Stored(m) THEN UNCHANGED <<email, job>>
     ELSE /\ email' = [email EXCEPT ![m] = Business(m, intent, FALSE)]
          /\ job' = Queue("first", m)
  /\ UNCHANGED tasks

KeepNothing(intent) == Level(intent) = "third" /\ UNCHANGED kept

\* classify_mail and _persist_classified_mail.  Between the two nothing is stored; the answer
\* that counts is the last one, with the content of the attachments.
Classify(c) ==
  /\ ledger[c].status = "classifying"
  /\ \E answer \in Intents, confident, agrees \in BOOLEAN :   \* what the model says
       LET intent == Decision(answer, confident, agrees)
       IN  /\ \/ KeepMinimal(MailOf[c], intent)
              \/ KeepBusiness(MailOf[c], intent)
              \/ KeepNothing(intent)
           /\ ledger' = [ledger EXCEPT ![c] =
                [Row(IF Level(intent) = "first" THEN "first" ELSE "other", 0)
                   EXCEPT !.clear = confident /\ agrees /\ Level(answer) = "first"]]
  /\ UNCHANGED <<tickets, run, people>>

\* The archive, the database or the process fails: what was committed stays.
IngressFails(c) ==
  /\ ledger[c].status = "classifying"
  /\ ledger' = [ledger EXCEPT ![c] = IF @.attempts < MaxAttempts THEN Row("retry_wait", @.attempts)
                                     ELSE Row("failed", 0)]
  /\ UNCHANGED <<kept, tickets, run, people>>

-----------------------------------------------------------------------------
(* The parse of a stored mail: reparse_email *)

ThreadTicket(m) == IF email[m].thread = 0 THEN 0 ELSE current[email[m].thread]

Linked(m) == {k \in Tickets : <<m, k>> \in links}

\* parse_attachment: the status of the mail is committed with the first attachment, and by a job
\* only.
ReadAttachments(a, m) ==
  \/ UNCHANGED email
  \/ a \in JobKinds /\ email' = [email EXCEPT ![m].parse = "parsing"]

\* The thread, its ticket and the links are read before the model is asked, which takes long;
\* what is decided then rests on them.
ParseBegins(a, m) ==
  LET k == ThreadTicket(m)
  IN  /\ Stored(m) /\ ~run[a, m].busy
      /\ IF a \in JobKinds THEN job[a, m].status = "queued" ELSE requests < MaxRequests
      /\ run' = [run EXCEPT ![<<a, m>>] =
                   [busy |-> TRUE, ticket |-> k, closed |-> k # 0 /\ ticket[k] = "closed",
                    link |-> IF Linked(m) = {} THEN 0
                             ELSE CHOOSE l \in Linked(m) : \A o \in Linked(m) : o <= l]]
      /\ job' = IF a \in JobKinds
                THEN [job EXCEPT ![<<a, m>>] = [status |-> "running", attempts |-> @.attempts + 1]]
                ELSE job
      /\ ReadAttachments(a, m)
      /\ requests' = IF a = "person" THEN requests + 1 ELSE requests
      /\ UNCHANGED <<ledger, tickets, tasks, byHand>>

\* The ticket that a result belongs to: the one of the thread (parse_results.ticket_id keeps it
\* even when thread.ticket_id is cleared for a new repair after the closure), the one of a link,
\* or a new one.
Existing(r) == IF r.ticket # 0 THEN r.ticket ELSE r.link

Fresh == Cardinality({k \in Tickets : ticket[k] # "none"}) + 1
Target(r) == IF Existing(r) = 0 THEN Fresh ELSE Existing(r)

JoinTicket(m, k) ==
  /\ links' = links \cup {<<m, k>>}
  /\ current' = [current EXCEPT ![email[m].thread] = k]

\* create_email_manual_task_if_missing and create_manual_task_if_missing: a task of the ticket is
\* not opened when one of the type is open, for whichever mail.
OpenTask(t) ==
  IF t[2] # 0 /\ \E o \in tasks : o[2] = t[2] /\ o[3] = t[3] THEN tasks ELSE tasks \cup {t}

SetParse(m, parse) == email' = [email EXCEPT ![m].parse = parse]

\* create_email_manual_task_if_missing: nobody is asked twice about a mail.
AskAboutMail(m) ==
  /\ tasks' = OpenTask(<<m, 0, "mail">>)
  /\ SetParse(m, "needs_manual")
  /\ UNCHANGED tickets

\* ensure_manual_review_ticket_from_parse_result.  A closed ticket only gets the task.
Review(m, k, type) ==
  /\ k \in Tickets
  /\ ticket' = [ticket EXCEPT ![k] = IF @ = "closed" THEN @ ELSE "review"]
  /\ tasks' = OpenTask(<<m, k, type>>)
  /\ JoinTicket(m, k)
  /\ SetParse(m, "needs_manual")

\* What becomes of the status when a result is applied: the review goes on while tasks are open.
StatusAfter(status, open) == IF status = "review" /\ open # {} THEN status ELSE "open"

\* apply_parse_result: the ticket takes the fields and the items of the result.
Apply(m, k, tasksOfTicket) ==
  /\ k \in Tickets /\ ticket[k] # "closed"
  /\ ticket' = [ticket EXCEPT ![k] = StatusAfter(@, tasksOfTicket)]
  /\ JoinTicket(m, k)
  /\ SetParse(m, "parsed")

\* A clear result for a ticket in review: the tasks about this mail are done, and the ticket
\* leaves the review when no other is open.
Adopt(m, k) ==
  LET left == tasks \ {<<m, k, "ai_review">>}
  IN  /\ Apply(m, k, {t \in left : t[2] = k})
      /\ tasks' = IF ticket[k] = "review" THEN left ELSE tasks

\* The levels whose mails may reach a ticket.
Parsed(m) == email[m].intent \in FirstIntents

\* A supplement to no ticket.
Orphaned(m, r) == email[m].intent = "customer_supplement" /\ r.ticket = 0

\* What the models may say, and what the attachments may be.
Sayings == [Calls -> {"answer"} \cup Passing \cup Lasting]
MayAnswer == {Answered(keys, says) : keys \in SUBSET Endpoints, says \in Sayings}

Attached == {[type |-> f.type, status |-> Status(f, up, answered)] :
               f \in File, up \in BOOLEAN, answered \in MayAnswer}

\* Whether a person has to look at the result, for each intent; a supplement to no ticket is Orphaned.
Judgements ==
  [intent \in FirstIntents |->
     {manual \in BOOLEAN :
        \E x \in Extraction, thread \in Threads, file \in Attached :
          /\ Supplement(x) <=> intent = "customer_supplement"
          /\ Supplement(x) => thread.linked
          /\ RequiresManual(x, thread, {file}) = manual}]

\* A person has to look, or the serial numbers leave doubts, which the validation of the ticket
\* looks at (RepairRules).
Doubtful(m, r) ==
  \/ TRUE \in Judgements[email[m].intent] /\ Review(m, Target(r), "ai_review")
  \/ Review(m, Target(r), "other")

Clear(m, r) == FALSE \in Judgements[email[m].intent] /\ Adopt(m, Target(r))

\* The provider is not configured, fails, or returns nothing that fits the schema.
NoAnswer(m) == FALSE \in MayAnswer /\ AskAboutMail(m)

\* The result, by what the model says.  A closed ticket takes the result as well, but the
\* validation that follows cannot make it ready: it opens a task, or the parse fails.
Outcome(m, r) ==
  \/ NoAnswer(m)
  \/ /\ TRUE \in MayAnswer
     /\ \/ ~Parsed(m) /\ AskAboutMail(m)
        \/ Parsed(m) /\ Orphaned(m, r) /\ Review(m, Target(r), "other")
        \/ Parsed(m) /\ ~Orphaned(m, r) /\ (Doubtful(m, r) \/ Clear(m, r))

ParseEnds(a, m) ==
  /\ run[a, m].busy
  /\ Outcome(m, run[a, m])
  /\ run' = [run EXCEPT ![<<a, m>>] = NoRun]
  /\ job' = IF a \in JobKinds THEN [job EXCEPT ![<<a, m>>] = Done("success")] ELSE job
  /\ UNCHANGED <<ledger, people>>

Retry(a, m) ==
  IF job[a, m].attempts < MaxAttempts THEN [job[a, m] EXCEPT !.status = "queued"]
  ELSE Done("failed")

\* An exception, or the end of the process.
ParseFails(a, m) ==
  /\ run[a, m].busy
  /\ run' = [run EXCEPT ![<<a, m>>] = NoRun]
  /\ job' = IF a \in JobKinds THEN [job EXCEPT ![<<a, m>>] = Retry(a, m)] ELSE job
  /\ UNCHANGED <<ledger, email, tasks, tickets, people>>

-----------------------------------------------------------------------------
(* People, and the rest of the workflow *)

\* resolve_task, promote_to_first.  A mail that was promoted before keeps its state: only the
\* task ends.  The first mail of a thread that is stored as business cannot be promoted: its
\* thread would be inserted a second time.
Promote(t, intent) ==
  LET m == t[1]
      again == email[m].tier = "business" /\ email[m].locked
  IN  /\ requests < MaxRequests
      /\ again \/ ~(email[m].tier = "business" /\ ThreadFor(m) = m)
      /\ email' = IF again THEN email ELSE [email EXCEPT ![m] = Business(m, intent, TRUE)]
      /\ job' = IF again THEN job ELSE Queue("promotion", m)
      /\ tasks' = tasks \ {t}
      /\ requests' = requests + 1
      /\ byHand' = byHand \cup {m}
      /\ UNCHANGED <<ledger, tickets, run>>

\* Another resolution of a task; a ticket without open tasks may go on.
Resolve(t) ==
  LET k == t[2]
      free == k # 0 /\ ~\E o \in tasks \ {t} : o[2] = k
  IN  /\ requests < MaxRequests
      /\ tasks' = tasks \ {t}
      /\ \/ UNCHANGED ticket
         \/ free /\ ticket[k] = "review" /\ ticket' = [ticket EXCEPT ![k] = "open"]
      /\ requests' = requests + 1
      /\ UNCHANGED <<ledger, email, current, links, run, job, byHand>>

\* The RMA is out and archived (ReplyDelivery, TicketFlow).
CloseTicket(k) ==
  /\ ticket[k] = "open"
  /\ ticket' = [ticket EXCEPT ![k] = "closed"]
  /\ UNCHANGED <<ledger, kept, current, links, run, people>>

-----------------------------------------------------------------------------
Ingress(c) == Take(c) \/ Classify(c) \/ IngressFails(c)
Parse(a, m) == ParseBegins(a, m) \/ ParseEnds(a, m) \/ ParseFails(a, m)

Next ==
  \/ \E c \in Copies : Ingress(c)
  \/ \E a \in Actors, m \in Mails : Parse(a, m)
  \/ \E t \in tasks : Resolve(t) \/ \E intent \in FirstIntents : Promote(t, intent)
  \/ \E k \in Tickets : CloseTicket(k)

\* The workers do not all rest while there is work (JobQueue): a copy that waits is taken again,
\* and a queued parse runs.  People are not obliged to anything, and no mail has to arrive.
Work ==
  \/ \E c \in Copies : ledger[c].status # "none" /\ Ingress(c)
  \/ \E a \in JobKinds, m \in Mails : Parse(a, m)

Fairness == WF_vars(Work)

Spec == Init /\ [][Next]_vars /\ Fairness

-----------------------------------------------------------------------------
TypeOK ==
  /\ ledger \in [Copies -> [status: {"none", "classifying", "retry_wait", "failed"} \cup Final,
                             attempts: 0..MaxAttempts, clear: BOOLEAN]]
  /\ email \in [Mails -> Email]
  /\ current \in [Mails -> {0} \cup Tickets]
  /\ ticket \in [Tickets -> {"none", "review", "open", "closed"}]
  /\ links \subseteq Mails \X Tickets
  /\ \A t \in tasks : t[1] \in Mails /\ t[2] \in {0} \cup Tickets
  /\ run \in [Actors \X Mails -> Run]
  /\ job \in [JobKinds \X Mails -> [status: {"none", "queued", "running", "success", "failed"},
                        attempts: 0..MaxAttempts]]
  /\ requests \in 0..MaxRequests
  /\ byHand \subseteq Mails

\* Nothing automatic happens on a mail that is not clearly a repair request: a ticket is opened
\* or changed by a mail only if one of its copies was classified so with confidence and without
\* contradiction, or a person took it for one.  What the other copies were taken for, retries
\* and parses that a person asks for make no difference.
OnlyWhenSure ==
  \A l \in links :
    \/ l[1] \in byHand
    \/ \E c \in Copies : MailOf[c] = l[1] /\ ledger[c].status = "first" /\ ledger[c].clear

\* A copy that is being dealt with, and a mail that waits for its parse.
Halfway ==
  \/ \E c \in Copies : ledger[c].status \in {"classifying", "retry_wait"}
  \/ \E m \in Mails : /\ email[m].parse \in {"pending", "parsing"}
                       /\ \/ \E a \in JobKinds : job[a, m].status \in {"queued", "running"}
                          \/ \A a \in JobKinds : job[a, m].status # "failed"

\* No mail is left half-way: once copies stop arriving and people stop asking, every copy that
\* was taken up has a result in the ledger or has failed for good, and every mail that waited
\* for its parse is parsed, handed to a person, or has a job that is seen to have failed.
MailSettles == <>[]~Halfway

\* A new repair request in the conversation of a closed ticket does not join that ticket: the
\* guide asks for a new ticket, and reparse_email clears thread.ticket_id for it.
NewTicketAfterClosure ==
  [][\A a \in Actors, m \in Mails :
       run[a, m].closed /\ email[m].intent = "new_repair" =>
         <<m, run[a, m].ticket>> \notin links' \ links]_vars
=============================================================================
