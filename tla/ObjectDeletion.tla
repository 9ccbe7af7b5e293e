--------------------------- MODULE ObjectDeletion ---------------------------
(***************************************************************************)
(* The deletion of mails and of the stored object they share.              *)
(*                                                                         *)
(* The key of an object is made from its content, so every mail (and every *)
(* attachment) with the content refers to one row of oss_objects and one   *)
(* object in the store.  A deletion removes the rows of the mail and, when *)
(* nothing else refers to the object, orders the deletion of the object in *)
(* the same transaction; the object is removed afterwards, by the request  *)
(* itself, by a job or by the retry of an administrator, each of which     *)
(* holds the locks of the order until it commits.                          *)
(*                                                                         *)
(* The store takes no part in a transaction: what a request does there     *)
(* stays when its transaction is rolled back.  The reset of gold test      *)
(* mails deletes whole conversations the same way (ConfirmReset).          *)
(***************************************************************************)
EXTENDS Naturals, FiniteSets

CONSTANTS Mails,        \* the mails with the content, in any order of arrival
          Procs,        \* the processes that carry out deletions
          MaxFaults     \* bound: how often the store fails or a process dies

ASSUME DeletionAssumption == IsFiniteSet(Mails) /\ MaxFaults \in Nat

VARIABLES
  mail,     \* the state of each mail
  job,      \* its parse job
  proof,    \* the mails that are business evidence: a source, an applied parse, a sent reply
  row,      \* the row of the object, named by the mail that inserted it
  found,    \* the row that the archive of each mail found, until the archive ends
  there,    \* whether the store has the object
  asked,    \* the preview an administrator was shown
  plan,     \* what a request that is deleting the mail found about the object
  order,    \* the deletion of the object that the deletion of the mail ordered
  proc,     \* the processes
  faults,
  exposed   \* the mails archived while the object was to be deleted and was not

deletionVars == <<mail, job, proof, row, found, there, asked, plan, order, proc, faults, exposed>>

-----------------------------------------------------------------------------
NoRow == "none"

\* using: the archive found the row; adding: it inserts the row.  Both become visible when the
\* mail is committed.
MailStates == {"new", "using", "adding", "stored", "deleted"}
Jobs == {"none", "queued", "running", "ended", "superseded"}
Orders == {"none", "pending", "manual", "succeeded"}

AtRest == [at |-> "idle"]

\* seen: the order as it was when the process asked for the lock.  refs: the references it counts.
Working == [at: {"waiting", "deleting", "removed", "refused", "failed"}, m: Mails, seen: Orders,
            refs: Nat]

References == {m \in Mails : mail[m] = "stored"}

\* What an administrator confirms: the token carries a hash of it.
NoPreview == [shown |-> FALSE]

Preview(m) == [shown |-> TRUE, job |-> job[m], refs |-> Cardinality(References)]

Blocked(m) == m \in proof \/ job[m] = "running"

\* Somebody has found that the object may go, and it has not gone.
Doomed == \E m \in Mails : plan[m] = "last" \/ order[m] \in {"pending", "manual"}

Archiving == {m \in Mails : mail[m] \in {"using", "adding"}}

-----------------------------------------------------------------------------
(* The archive *)

\* upload_bytes_to_oss: an object that is there under a known row is not uploaded again.
Upload(m) ==
  /\ mail[m] = "new"
  /\ mail' = [mail EXCEPT ![m] = IF row = NoRow THEN "adding" ELSE "using"]
  /\ found' = [found EXCEPT ![m] = row]
  /\ there' = TRUE
  /\ exposed' = IF Doomed THEN exposed \cup {m} ELSE exposed
  /\ UNCHANGED <<job, proof, row, asked, plan, order, proc, faults>>

\* The commit of the mail.  It fails when the row was deleted, or inserted by another, meanwhile;
\* the job of the mail then starts again.
Store(m) ==
  /\ m \in Archiving
  /\ IF found[m] = row
     THEN /\ mail' = [mail EXCEPT ![m] = "stored"]
          /\ job' = [job EXCEPT ![m] = "queued"]
          /\ row' = IF mail[m] = "adding" THEN m ELSE row
          /\ UNCHANGED exposed
     ELSE /\ mail' = [mail EXCEPT ![m] = "new"]
          /\ exposed' = exposed \ {m}
          /\ UNCHANGED <<job, row>>
  /\ found' = [found EXCEPT ![m] = NoRow]
  /\ UNCHANGED <<proof, there, asked, plan, order, proc, faults>>

AbandonArchive(m) ==
  /\ m \in Archiving /\ faults < MaxFaults
  /\ mail' = [mail EXCEPT ![m] = "new"]
  /\ found' = [found EXCEPT ![m] = NoRow]
  /\ exposed' = exposed \ {m}
  /\ faults' = faults + 1
  /\ UNCHANGED <<job, proof, row, there, asked, plan, order, proc>>

\* The parse job of a mail; its result may make the mail evidence.  The writes of a job whose mail
\* is deleted are refused.
RunJob(m) ==
  /\ \/ job[m] = "queued" /\ job' = [job EXCEPT ![m] = "running"] /\ UNCHANGED proof
     \/ job[m] = "running" /\ plan[m] = "none" /\ job' = [job EXCEPT ![m] = "ended"]
          /\ proof' \in IF mail[m] = "stored" THEN {proof, proof \cup {m}} ELSE {proof}
  /\ UNCHANGED <<mail, row, found, there, asked, plan, order, proc, faults, exposed>>

-----------------------------------------------------------------------------
(* The deletion of a mail *)

Ask(m) ==
  /\ mail[m] = "stored" /\ plan[m] = "none" /\ asked[m] # Preview(m)
  /\ asked' = [asked EXCEPT ![m] = Preview(m)]
  /\ UNCHANGED <<mail, job, proof, row, found, there, plan, order, proc, faults, exposed>>

\* The references that stay when the mail is deleted.
Remaining(m) == Cardinality(References) - 1

\* delete_email, delete_attachment and delete_ticket: the mail is locked, everything is read.
Confirm(m) ==
  /\ mail[m] = "stored" /\ plan[m] = "none" /\ asked[m] = Preview(m) /\ ~Blocked(m)
  /\ plan' = [plan EXCEPT ![m] = IF Remaining(m) > 0 THEN "shared" ELSE "last"]
  /\ exposed' = IF Remaining(m) > 0 THEN exposed ELSE exposed \cup Archiving
  /\ UNCHANGED <<mail, job, proof, row, found, there, asked, order, proc, faults>>

\* plan_gold_test_reset: all mails of the conversations that the chosen mails belong to, through
\* their threads, tickets, links and replies.  Which those are is left open.
Conversations == (SUBSET References) \ {{}}

\* What stands in the way of a reset.  A plan that is not the one that was shown is refused, so it
\* is as good as made now.
ResetBlocked(S) == \E m \in S : job[m] \in {"queued", "running"}

\* The references that the reset does not take away.
SharedOutside(S) == References \ S # {}

\* apply_gold_test_reset, in a test environment: the mails are deleted, evidence or not, unless a
\* mail outside uses the object: then nothing is deleted.  The order is kept with one of them.
ConfirmReset ==
  \E S \in Conversations :
    /\ ~ResetBlocked(S) /\ ~SharedOutside(S) /\ \A m \in S : plan[m] = "none"
    /\ \E m \in S : plan' = [n \in Mails |-> CASE n = m -> "last"
                                              [] n \in S \ {m} -> "reset"
                                              [] OTHER -> plan[n]]
    /\ exposed' = exposed \cup Archiving
    /\ UNCHANGED <<mail, job, proof, row, found, there, asked, order, proc, faults>>

\* The mails that go with m.
Going(m) == {m} \cup {n \in Mails : plan[m] = "last" /\ plan[n] = "reset"}

\* Their commit.  A job that was claimed after the preview was read goes on.
Delete(m) ==
  /\ plan[m] \in {"shared", "last"}
  /\ mail' = [n \in Mails |-> IF n \in Going(m) THEN "deleted" ELSE mail[n]]
  /\ job' = [job EXCEPT ![m] = IF @ = "queued" THEN "superseded" ELSE @]
  /\ order' = IF plan[m] = "last" THEN [order EXCEPT ![m] = "pending"] ELSE order
  /\ plan' = [n \in Mails |-> IF n \in Going(m) THEN "none" ELSE plan[n]]
  /\ asked' = [n \in Mails |-> IF n \in Going(m) THEN NoPreview ELSE asked[n]]
  /\ UNCHANGED <<proof, row, found, there, proc, faults, exposed>>

-----------------------------------------------------------------------------
(* The deletion of the object: process_oss_deletion_operation *)

\* The request that deleted the mail, the job, or the retry of an administrator.
Start(p, m) ==
  /\ proc[p] = AtRest /\ order[m] \in {"pending", "manual"}
  /\ proc' = [proc EXCEPT ![p] = [at |-> "waiting", m |-> m, seen |-> order[m], refs |-> 0]]
  /\ UNCHANGED <<mail, job, proof, row, found, there, asked, plan, order, faults, exposed>>

Locked(m) ==
  \E p \in Procs : proc[p] # AtRest /\ proc[p].at # "waiting" /\ proc[p].m = m

BugKnown(p) == proc[p].seen

\* The order as a locking read finds it.
Known(p) == order[proc[p].m]

BugCounted(p) == 0

\* oss_reference_summary, in the snapshot that the process took with its locks.
Counted(p) == Cardinality(References)

Enter(p) ==
  /\ proc[p].at = "waiting" /\ ~Locked(proc[p].m)
  /\ proc' = [proc EXCEPT ![p] = IF Known(p) = "succeeded" THEN AtRest
                                 ELSE [@ EXCEPT !.at = "deleting", !.refs = Counted(p)]]
  /\ UNCHANGED <<mail, job, proof, row, found, there, asked, plan, order, faults, exposed>>

\* delete_oss_object; an object that is not there counts as deleted.
Remove(p) ==
  /\ proc[p].at = "deleting"
  /\ there' = FALSE
  /\ proc' = [proc EXCEPT ![p].at = "removed"]
  /\ UNCHANGED <<mail, job, proof, row, found, asked, plan, order, faults, exposed>>

\* The store refuses, is not configured, or does not answer: the object may be gone or not.
StoreFails(p) ==
  /\ proc[p].at = "deleting" /\ faults < MaxFaults
  /\ \E at \in {"refused", "failed"} :
       /\ proc' = [proc EXCEPT ![p].at = at]
       /\ there' \in IF at = "refused" THEN {there} ELSE {there, FALSE}
  /\ faults' = faults + 1
  /\ UNCHANGED <<mail, job, proof, row, found, asked, plan, order, exposed>>

\* What is recorded of the deletion.
Verdict(p) ==
  CASE proc[p].at = "removed" -> "succeeded"
    [] proc[p].at = "refused" -> "manual"
    [] OTHER -> "pending"

\* The row goes too, unless the process counted references; one that came since makes the
\* foreign key refuse, and the transaction is rolled back.
Record(p) ==
  /\ proc[p].at \in {"removed", "refused", "failed"}
  /\ LET drop == proc[p].at = "removed" /\ proc[p].refs = 0
     IN  IF drop /\ References # {}
         THEN UNCHANGED <<order, row>>
         ELSE /\ order' = [order EXCEPT ![proc[p].m] = Verdict(p)]
              /\ row' = IF drop THEN NoRow ELSE row
  /\ proc' = [proc EXCEPT ![p] = AtRest]
  /\ UNCHANGED <<mail, job, proof, found, there, asked, plan, faults, exposed>>

Die(p) ==
  /\ proc[p] # AtRest /\ faults < MaxFaults
  /\ proc' = [proc EXCEPT ![p] = AtRest]
  /\ faults' = faults + 1
  /\ UNCHANGED <<mail, job, proof, row, found, there, asked, plan, order, exposed>>

-----------------------------------------------------------------------------
DeletionInit ==
  /\ mail = [m \in Mails |-> "new"]
  /\ job = [m \in Mails |-> "none"]
  /\ proof = {}
  /\ row = NoRow
  /\ found = [m \in Mails |-> NoRow]
  /\ there = FALSE
  /\ asked = [m \in Mails |-> NoPreview]
  /\ plan = [m \in Mails |-> "none"]
  /\ order = [m \in Mails |-> "none"]
  /\ proc = [p \in Procs |-> AtRest]
  /\ faults = 0
  /\ exposed = {}

Mail(m) ==
  \/ Upload(m) \/ Store(m) \/ AbandonArchive(m) \/ RunJob(m)
  \/ Ask(m) \/ Confirm(m) \/ Delete(m)

Work(p) == Enter(p) \/ Remove(p) \/ Record(p)

DeletionNext ==
  \/ ConfirmReset
  \/ \E m \in Mails : Mail(m)
  \/ \E p \in Procs : Work(p) \/ StoreFails(p) \/ Die(p) \/ \E m \in Mails : Start(p, m)

\* A claimed deletion is worked on, and the queue keeps claiming the job of a pending one.
Fairness ==
  /\ \A p \in Procs : WF_deletionVars(Work(p))
  /\ \A m \in Mails : WF_deletionVars(order[m] = "pending" /\ \E p \in Procs : Start(p, m))

DeletionSpec == DeletionInit /\ [][DeletionNext]_deletionVars /\ Fairness

-----------------------------------------------------------------------------
DeletionTypeOK ==
  /\ mail \in [Mails -> MailStates] /\ job \in [Mails -> Jobs] /\ proof \subseteq Mails
  /\ row \in Mails \cup {NoRow} /\ found \in [Mails -> Mails \cup {NoRow}] /\ there \in BOOLEAN
  /\ asked \in [Mails -> {NoPreview} \cup [shown: {TRUE}, job: Jobs, refs: Nat]]
  /\ plan \in [Mails -> {"none", "shared", "last", "reset"}] /\ order \in [Mails -> Orders]
  /\ proc \in [Procs -> {AtRest} \cup Working]
  /\ faults \in 0 .. MaxFaults /\ exposed \subseteq Mails

\* The object of a stored mail is in the store, whatever other mails are deleted and however often
\* a deletion is started, interrupted and retried; the mails archived while the object was to be
\* deleted, which the code does not protect, are excepted.
KeptIsThere == \A m \in Mails \ exposed : mail[m] = "stored" => there

\* A deletion that was ordered is carried out, or left to an administrator after the store refused
\* it: neither a crash, nor a failing store, nor a mail that uses the object again holds it up.
OrderIsCarriedOut == \A m \in Mails : order[m] = "pending" ~> order[m] # "pending"

\* _oss_deletion_operations_query: the retry of a deletion does not remove an object that was
\* uploaded again.
ReuploadedStays == \A m \in Mails : mail[m] = "stored" => there
=============================================================================
