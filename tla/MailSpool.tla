------------------------------ MODULE MailSpool ------------------------------
(***************************************************************************)
(* One message that came in several copies: the records of the copies, the *)
(* spooled originals and the job that processes each (imap_fetcher.py,     *)
(* mail_processing.py, mail_ingress.py).  Which copies a poll selects is   *)
(* MailboxSync's; here any record that may be selected is, some time.      *)
(*                                                                         *)
(* An object's name is made of UID and content, so copies share one when   *)
(* the folder was renumbered and the mail kept its UID.  A step is a       *)
(* transaction, or what a transaction did up to a call of the store.       *)
(* Delivery notices and mails that are skipped for what they are get their *)
(* verdict from the content alone and are left out.                        *)
(***************************************************************************)
EXTENDS Naturals

CONSTANTS
    Copies,
    Key,          \* the object a copy is spooled to
    NoKey,
    NoCopy,
    MaxRetries,   \* IMAP_MAX_RETRIES
    JobAttempts   \* max_attempts of a mail_ingress_process job

Keys == {Key[c] : c \in Copies}

ASSUME SpoolAssumption ==
    /\ NoKey \notin Keys /\ NoCopy \notin Copies
    /\ MaxRetries \in Nat \ {0} /\ JobAttempts \in Nat \ {0}

VARIABLES
    record,    \* mail_fetch_records: [status, attempts, named, ref, mode]; named: message_id
               \* is stored, ref: raw_eml_oss_object_id is set
    rows,      \* oss_objects
    stored,    \* what the object store holds
    email,     \* the ingested message's raw_eml_oss_object_id, NoKey if there is none
    tries,     \* attempts a copy's job has left; NotEnqueued before it exists
    run,       \* the attempt of a copy's job: [phase, final]
    fetch,     \* the poll: [todo, copy, duplicate, reused]
    history    \* [ingests: e-mails created, settled: a copy was classified to the end]

vars == <<record, rows, stored, email, tries, run, fetch, history>>

NotEnqueued == JobAttempts + 1
NewRecord == [status |-> "discovered", attempts |-> 0, named |-> FALSE, ref |-> FALSE,
              mode |-> "temporary"]
Idle == [phase |-> "idle", final |-> "none"]
NoFetch == [todo |-> {}, copy |-> NoCopy, duplicate |-> FALSE, reused |-> FALSE]

TypeOK ==
    /\ record \in [Copies ->
          [status : {"discovered", "retry_wait", "failed", "spooled", "processing",
                     "skipped", "third", "ingested"},
           attempts : 0..MaxRetries, named : BOOLEAN, ref : BOOLEAN,
           mode : {"temporary", "permanent", "shared_reference", "released"}]]
    /\ rows \subseteq Keys /\ stored \subseteq Keys /\ email \in Keys \cup {NoKey}
    /\ tries \in [Copies -> 0..NotEnqueued]
    /\ run \in [Copies -> [phase : {"idle", "classifying", "third", "releasing", "deleted",
                                    "ingesting", "archived"},
                           final : {"none", "skipped", "third"}]]
    /\ fetch \in [todo : SUBSET Copies, copy : Copies \cup {NoCopy},
                  duplicate : BOOLEAN, reused : BOOLEAN]
    /\ history \in [ingests : Nat, settled : BOOLEAN]
-----------------------------------------------------------------------------
(* precheck_email_payload: an e-mail exists, or a record of the message      *)
(* other than this one that is neither failed nor under way.                 *)
\* Fault: the record finds itself.
BugDuplicate(c) ==
    \/ email # NoKey
    \/ \E d \in Copies : record[d].named /\ record[d].status \notin {"failed", "retry_wait"}

Duplicate(c) ==
    \/ email # NoKey
    \/ \E d \in Copies \ {c} :
          record[d].named /\ record[d].status \notin {"failed", "retry_wait", "processing"}

(* _release_lifecycle_spool: other references of the object.                 *)
ReferredTo(k, others) ==
    \/ email = k
    \/ \E d \in others : Key[d] = k /\ record[d].ref /\ record[d].mode # "released"

\* Fault: the object is deleted and its row forgotten.
BugRowsWithout(k) == rows

RowsWithout(k) == rows \ {k}

(* The attempt that deletes an object holds the lock of its row; the one     *)
(* that releases holds that of its record.                                   *)
RowLocked(k) == \E d \in Copies : Key[d] = k /\ run[d].phase = "deleted"
RecordLocked(c) == run[c].phase \in {"releasing", "deleted"}

(* ingest_email and ingest_minimal_email: nothing is inserted if the message *)
(* is there.                                                                 *)
\* Fault: the second look for the message is missing.
BugIngestable == TRUE

Ingestable == email = NoKey

Selectable(c) ==
    \/ record[c].status = "discovered"
    \/ record[c].status \in {"retry_wait", "failed"} /\ record[c].attempts < MaxRetries
-----------------------------------------------------------------------------
Init ==
    /\ record = [c \in Copies |-> NewRecord]
    /\ rows = {} /\ stored = {} /\ email = NoKey
    /\ tries = [c \in Copies |-> NotEnqueued]
    /\ run = [c \in Copies |-> Idle]
    /\ fetch = NoFetch
    /\ history = [ingests |-> 0, settled |-> FALSE]

SetRecord(c, new) == record' = [record EXCEPT ![c] = new]
Finish(c, left) == run' = [run EXCEPT ![c] = Idle] /\ tries' = [tries EXCEPT ![c] = left]

Select(todo) ==
    /\ fetch = NoFetch
    /\ todo # {} /\ \A c \in todo : Selectable(c)
    /\ fetch' = [NoFetch EXCEPT !.todo = todo]
    /\ UNCHANGED <<record, rows, stored, email, tries, run, history>>

(* The poll has read a copy, checked it and, unless it is a duplicate,       *)
(* uploaded it.                                                              *)
Read(c) ==
    /\ fetch.copy = NoCopy /\ c \in fetch.todo
    /\ fetch' = [todo |-> fetch.todo \ {c}, copy |-> c, duplicate |-> Duplicate(c),
                 reused |-> Key[c] \in rows]
    /\ stored' = IF Duplicate(c) THEN stored ELSE stored \cup {Key[c]}
    /\ UNCHANGED <<record, rows, email, tries, run, history>>

(* ... and commits.  A row it took over must still be there, one it inserts  *)
(* must be new.                                                              *)
Spool(c) ==
    /\ fetch.copy = c /\ ~fetch.duplicate
    /\ ~RecordLocked(c) /\ ~RowLocked(Key[c])
    /\ fetch.reused = (Key[c] \in rows)
    /\ SetRecord(c, [status |-> "spooled", attempts |-> record[c].attempts + 1, named |-> TRUE,
                     ref |-> TRUE, mode |-> "temporary"])
    /\ rows' = rows \cup {Key[c]}
    /\ tries' = [tries EXCEPT ![c] = IF @ = NotEnqueued THEN JobAttempts ELSE @]
    /\ fetch' = [NoFetch EXCEPT !.todo = fetch.todo]
    /\ UNCHANGED <<stored, email, run, history>>

Skip(c) ==
    /\ fetch.copy = c /\ fetch.duplicate
    /\ ~RecordLocked(c)
    /\ SetRecord(c, [record[c] EXCEPT !.status = "skipped", !.named = TRUE,
                                      !.attempts = IF @ = 0 THEN 1 ELSE @])
    /\ fetch' = [NoFetch EXCEPT !.todo = fetch.todo]
    /\ UNCHANGED <<rows, stored, email, tries, run, history>>

(* Download, check, upload or commit fails.                                  *)
TakeFails(c) ==
    /\ c = fetch.copy \/ (fetch.copy = NoCopy /\ c \in fetch.todo)
    /\ ~RecordLocked(c)
    /\ LET n == record[c].attempts + 1 IN
       SetRecord(c, [record[c] EXCEPT !.status = IF n < MaxRetries THEN "retry_wait" ELSE "failed",
                                      !.attempts = n])
    /\ fetch' = [NoFetch EXCEPT !.todo = fetch.todo \ {c}]
    /\ UNCHANGED <<rows, stored, email, tries, run, history>>

PollDies ==
    /\ fetch # NoFetch
    /\ fetch' = NoFetch
    /\ UNCHANGED <<record, rows, stored, email, tries, run, history>>
-----------------------------------------------------------------------------
(* An attempt of the job, process_spooled_mail.  Its early return for a      *)
(* decided record is not here: deciding and ending the job are one commit.   *)
Ready(c) == run[c] = Idle /\ tries[c] \in 1..JobAttempts
Readable(c) == record[c].ref /\ Key[c] \in stored

(* No original: the attempt fails.  Whether a failed attempt is the last one *)
(* also depends on its error.                                                *)
Unreadable(c) ==
    /\ Ready(c) /\ ~Readable(c)
    /\ \E left \in {tries[c] - 1, 0} : Finish(c, left)
    /\ UNCHANGED <<record, rows, stored, email, fetch, history>>

(* The second precheck finds a duplicate.  What it has seen then also tells  *)
(* whether the object is shared.                                             *)
Second(c) ==
    /\ Ready(c) /\ Readable(c) /\ Duplicate(c)
    /\ IF ReferredTo(Key[c], Copies \ {c})
       THEN /\ SetRecord(c, [record[c] EXCEPT !.status = "skipped", !.mode = "shared_reference"])
            /\ Finish(c, 0)
       ELSE /\ run' = [run EXCEPT ![c] = [phase |-> "releasing", final |-> "skipped"]]
            /\ tries' = [tries EXCEPT ![c] = @ - 1]
            /\ UNCHANGED record
    /\ UNCHANGED <<rows, stored, email, fetch, history>>

Begin(c) ==
    /\ Ready(c) /\ Readable(c) /\ ~Duplicate(c)
    /\ SetRecord(c, [record[c] EXCEPT !.status = "processing"])
    /\ run' = [run EXCEPT ![c].phase = "classifying"]
    /\ tries' = [tries EXCEPT ![c] = @ - 1]
    /\ UNCHANGED <<rows, stored, email, fetch, history>>

(* classify_mail, committed: lifecycle_only, or a mail to be kept.           *)
Classify(c) ==
    /\ run[c].phase = "classifying"
    /\ \E phase \in {"third", "ingesting"} : run' = [run EXCEPT ![c].phase = phase]
    /\ UNCHANGED <<record, rows, stored, email, tries, fetch, history>>

Count(c) ==
    /\ run[c].phase = "third"
    /\ IF ReferredTo(Key[c], Copies \ {c})
       THEN /\ SetRecord(c, [record[c] EXCEPT !.status = "third", !.mode = "shared_reference"])
            /\ Finish(c, 0)
            /\ history' = [history EXCEPT !.settled = TRUE]
       ELSE /\ run' = [run EXCEPT ![c] = [phase |-> "releasing", final |-> "third"]]
            /\ UNCHANGED <<record, tries, history>>
    /\ UNCHANGED <<rows, stored, email, fetch>>

DeleteObject(c) ==
    /\ run[c].phase = "releasing" /\ ~RowLocked(Key[c])
    /\ stored' = stored \ {Key[c]}
    /\ run' = [run EXCEPT ![c].phase = "deleted"]
    /\ UNCHANGED <<record, rows, email, tries, fetch, history>>

(* The foreign keys let the row go when nobody refers to it.                 *)
Release(c) ==
    /\ run[c].phase = "deleted"
    /\ email # Key[c] /\ \A d \in Copies \ {c} : record[d].ref => Key[d] # Key[c]
    /\ SetRecord(c, [record[c] EXCEPT !.status = run[c].final, !.ref = FALSE, !.mode = "released"])
    /\ rows' = RowsWithout(Key[c])
    /\ history' = [history EXCEPT !.settled = @ \/ run[c].final = "third"]
    /\ Finish(c, 0)
    /\ UNCHANGED <<stored, email, fetch>>

(* archive_raw_email before the e-mail is written: what is missing is        *)
(* uploaded again.                                                           *)
Archive(c) ==
    /\ run[c].phase = "ingesting" /\ ~RowLocked(Key[c])
    /\ stored' = stored \cup {Key[c]} /\ rows' = rows \cup {Key[c]}
    /\ run' = [run EXCEPT ![c].phase = "archived"]
    /\ UNCHANGED <<record, email, tries, fetch, history>>

Ingest(c) ==
    /\ run[c].phase = "archived" /\ ~RowLocked(Key[c])
    /\ IF Ingestable
       THEN email' = Key[c] /\ history' = [ingests |-> history.ingests + 1, settled |-> TRUE]
       ELSE email' = email /\ history' = [history EXCEPT !.settled = TRUE]
    /\ SetRecord(c, [record[c] EXCEPT !.status = "ingested", !.mode = "permanent"])
    /\ Finish(c, 0)
    /\ UNCHANGED <<rows, stored, fetch>>

(* Archiving or ingestion fails: the record says so before the attempt ends. *)
PersistFails(c) ==
    /\ run[c].phase \in {"ingesting", "archived"}
    /\ SetRecord(c, [record[c] EXCEPT !.status = "retry_wait"])
    /\ \E left \in {tries[c], 0} : Finish(c, left)
    /\ UNCHANGED <<rows, stored, email, fetch, history>>

(* The process dies, or something else fails: all since the last commit is   *)
(* undone, but for what the store has done.                                  *)
AttemptDies(c) ==
    /\ run[c] # Idle
    /\ \E left \in {tries[c], 0} : Finish(c, left)
    /\ UNCHANGED <<record, rows, stored, email, fetch, history>>

Next ==
    \/ \E todo \in SUBSET Copies : Select(todo)
    \/ PollDies
    \/ \E c \in Copies :
          \/ Read(c) \/ Spool(c) \/ Skip(c) \/ TakeFails(c)
          \/ Unreadable(c) \/ Second(c) \/ Begin(c) \/ Classify(c)
          \/ Count(c) \/ DeleteObject(c) \/ Release(c)
          \/ Archive(c) \/ Ingest(c) \/ PersistFails(c) \/ AttemptDies(c)

Spec == Init /\ [][Next]_vars
-----------------------------------------------------------------------------
(* Safety: a message becomes one e-mail, however many copies of it are       *)
(* under way at a time.                                                      *)
IngestedOnce == history.ingests <= 1

(* Safety: every row of the object table is some record's or the e-mail's,   *)
(* and every reference has its row: failed uploads, deletions undone by a    *)
(* crash and copies that share an object leave neither behind.               *)
RowsReferredTo ==
    rows = {Key[c] : c \in {d \in Copies : record[d].ref}} \cup ({email} \ {NoKey})

(* Safety: a copy is skipped for another one, never for itself, so a mail    *)
(* that came once is not dropped whatever retries it takes.                  *)
SkippedForAnother ==
    \A c \in Copies : record[c].status = "skipped" =>
        email # NoKey \/ \E d \in Copies \ {c} : record[d].named

(* What the comment in process_spooled_mail says of the second precheck (it  *)
(* "can observe another worker's durable business record"): when all copies  *)
(* are skipped, one has been classified to the end.                          *)
MessageKept == (\A c \in Copies : record[c].status = "skipped") => history.settled
=============================================================================
