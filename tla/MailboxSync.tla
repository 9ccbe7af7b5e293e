----------------------------- MODULE MailboxSync -----------------------------
(***************************************************************************)
(* Which mails of one IMAP folder are fetched: fetch_imap_emails           *)
(* (imap_fetcher.py) with the cursor of mailbox_sync.py.  A fetch is one   *)
(* transaction that discovers UIDs and moves the cursor, then one          *)
(* transaction per selected UID; the named lock of the folder admits one   *)
(* fetch at a time.  A mail that is spooled is processed by a job of its   *)
(* own, which may send it back.                                            *)
(*                                                                         *)
(* Records of an earlier UIDVALIDITY are never selected again, so only     *)
(* those of the current one are kept.  imap_uid is a text; the order of    *)
(* texts is the order of numbers while UIDs have one digit, as here.       *)
(***************************************************************************)
EXTENDS Naturals, FiniteSets

CONSTANTS
    MaxUid,           \* bound: mails that arrive
    Ages,             \* bound: those of AllAges that occur
    MaxEpoch,         \* bound: values of UIDVALIDITY
    InitialLimit,     \* min(limit, IMAP_INITIAL_BATCH_SIZE)
    IncrementalLimit, \* min(limit, IMAP_INCREMENTAL_LIMIT)
    MaxRetries,       \* IMAP_MAX_RETRIES
    JobAttempts       \* max_attempts of the job that processes a mail

(* INTERNALDATE against IMAP_INITIAL_SYNC_START_AT: before the day of the    *)
(* boundary, on that day but before its hour, or after it (or unreadable).   *)
AllAges == {"earlier", "same_day", "wanted"}

ASSUME MailboxAssumption ==
    /\ Ages \subseteq AllAges
    /\ MaxUid \in Nat /\ MaxEpoch \in Nat \ {0}
    /\ InitialLimit \in Nat \ {0} /\ IncrementalLimit \in Nat \ {0}
    /\ MaxRetries \in Nat \ {0} /\ JobAttempts \in Nat \ {0}

Uids == 1..MaxUid
NotEnqueued == JobAttempts + 1

VARIABLES
    box,      \* the folder: [Uids -> AllAges, "none" (not arrived) or "gone" (expunged)]
    epoch,    \* the folder's UIDVALIDITY
    sync,     \* mailbox_sync_states: [mode, epoch, cursor]; 0 is NULL
    record,   \* mail_fetch_records of this epoch: [status, attempts, due, tries]; "spooled"
              \* is also "processing", tries are the attempts its job has left
    fetch     \* the fetch that holds the lock: [epoch, todo]; none when todo is empty

vars == <<box, epoch, sync, record, fetch>>

NoRecord == [status |-> "none", attempts |-> 0, due |-> FALSE, tries |-> NotEnqueued]
NoFetch == [epoch |-> 0, todo |-> {}]

TypeOK ==
    /\ box \in [Uids -> Ages \cup {"none", "gone"}]
    /\ epoch \in 1..MaxEpoch
    /\ sync \in [mode : {"initializing", "incremental", "rebaseline"},
                 epoch : 0..MaxEpoch, cursor : 0..MaxUid]
    /\ record \in [Uids -> [status : {"none", "discovered", "retry_wait", "failed",
                                      "spooled", "done"},
                            attempts : 0..MaxRetries, due : BOOLEAN, tries : 0..NotEnqueued]]
    /\ fetch \in [epoch : 0..MaxEpoch, todo : SUBSET Uids]
-----------------------------------------------------------------------------
Present == {u \in Uids : box[u] \in Ages}
Having(status) == {u \in Uids : record[u].status = status}

Highest(S) == CHOOSE u \in S : \A v \in S : v <= u
FirstOf(S, n) == {u \in S : Cardinality({v \in S : v < u}) < n}

(* apply_uid_validity: the cursor of another UIDVALIDITY means nothing.      *)
Rebased ==
    IF sync.epoch \in {0, epoch}
    THEN [sync EXCEPT !.epoch = epoch]
    ELSE [mode |-> "rebaseline", epoch |-> epoch, cursor |-> 0]

(* UID SEARCH cursor+1:*.  In IMAP, n:* also matches the highest UID there   *)
(* is when n lies above it.                                                  *)
Listed(cursor) == {u \in Present : u > cursor \/ u = Highest(Present)}

(* _due_retry_uids.                                                          *)
\* Fault: the limit of attempts is not looked at.
BugNoLimit == {u \in Having("retry_wait") \cup Having("failed") : record[u].due}

\* Fault: the status is not looked at.
BugAnyStatus == {u \in Uids : record[u].due /\ record[u].attempts < MaxRetries}

DueRetries == {u \in Having("retry_wait") \cup Having("failed") :
                  record[u].due /\ record[u].attempts < MaxRetries}

(* _discover_new_uids: candidates in ascending order, until "limit" of them  *)
(* are new.                                                                  *)
Fresh(S) == {u \in S : record[u].status \in {"none", "discovered"}}

Inspected(candidates, limit) ==
    {u \in candidates : Cardinality({v \in Fresh(candidates) : v < u}) < limit}

(* record_discovery: the UIDs looked at move the cursor.                     *)
\* Fault: it moves to the end of the folder.
BugRecordDiscovery(cursor, seen) == Highest({cursor} \cup Present)

RecordDiscovery(cursor, seen) == Highest({cursor} \cup seen)

(* _save_fetch_result: spooled, or skipped by the precheck or kept for       *)
(* manual review.  The job is enqueued once per record: enqueue_job returns  *)
(* the one there is.                                                         *)
Spooled(row) == [status |-> "spooled", attempts |-> row.attempts + 1, due |-> TRUE,
                 tries |-> IF row.tries = NotEnqueued THEN JobAttempts ELSE row.tries]
Settled(row) == [row EXCEPT !.status = "done", !.attempts = IF @ = 0 THEN 1 ELSE @]

(* The handler of a failed download, parsing or archiving.                   *)
FailedOnce(row) ==
    [row EXCEPT !.status = IF row.attempts + 1 < MaxRetries THEN "retry_wait" ELSE "failed",
                !.attempts = @ + 1, !.due = row.attempts + 1 >= MaxRetries]
-----------------------------------------------------------------------------
Init ==
    /\ \E n \in 0..MaxUid :
          box \in [Uids -> Ages \cup {"none"}] /\ \A u \in Uids : box[u] = "none" <=> u > n
    /\ epoch = 1
    /\ sync = [mode |-> "initializing", epoch |-> 0, cursor |-> 0]
    /\ record = [u \in Uids |-> NoRecord]
    /\ fetch = NoFetch

(* The mail server.                                                          *)
Arrive(u, age) ==
    /\ box[u] = "none"
    /\ \A v \in Uids : v < u => box[v] # "none"
    /\ box' = [box EXCEPT ![u] = age]
    /\ UNCHANGED <<epoch, sync, record, fetch>>

Expunge(u) ==
    /\ u \in Present
    /\ box' = [box EXCEPT ![u] = "gone"]
    /\ UNCHANGED <<epoch, sync, record, fetch>>

(* A new UIDVALIDITY; that the mails keep their numbers is one possibility.  *)
Renumber ==
    /\ epoch < MaxEpoch
    /\ epoch' = epoch + 1
    /\ record' = [u \in Uids |-> NoRecord]
    /\ UNCHANGED <<box, sync, fetch>>

(* First transaction.  Mails that were discovered and not reached come       *)
(* first, then retries in any order, then new mails up to the limit.         *)
Discover ==
    /\ fetch = NoFetch
    /\ LET s == Rebased
           baseline == s.mode # "incremental"
           limit == IF baseline THEN InitialLimit ELSE IncrementalLimit
           found == IF baseline THEN {u \in Uids : box[u] = "wanted"} ELSE Listed(s.cursor)
           excluded == IF baseline THEN {u \in Uids : box[u] = "same_day"} ELSE {}
           pending == FirstOf(Having("discovered"), limit)
           candidates == found \ (pending \cup DueRetries)
       IN
       \E retries \in SUBSET DueRetries :
          LET room == limit - Cardinality(pending)
              rest == room - Cardinality(retries)
              inspected == IF rest = 0 THEN {} ELSE Inspected(candidates, rest)
          IN
          /\ Cardinality(retries) <= room
          /\ Cardinality(retries) < room => retries = DueRetries
          /\ record' = [u \in Uids |-> IF u \in inspected /\ record[u].status = "none"
                                       THEN [NoRecord EXCEPT !.status = "discovered"]
                                       ELSE record[u]]
          /\ sync' = [mode |-> IF baseline /\ rest > 0 /\ Cardinality(candidates) <= rest
                               THEN "incremental" ELSE s.mode,
                      epoch |-> epoch,
                      cursor |-> RecordDiscovery(s.cursor, excluded \cup inspected)]
          /\ fetch' = LET todo == pending \cup retries \cup Fresh(inspected) IN
                      IF todo = {} THEN NoFetch ELSE [epoch |-> epoch, todo |-> todo]
    /\ UNCHANGED <<box, epoch>>

(* The search or a FETCH of a date fails: the handler commits what the       *)
(* transaction has done so far.                                              *)
DiscoverFails ==
    /\ fetch = NoFetch
    /\ sync' = Rebased
    /\ UNCHANGED <<box, epoch, record, fetch>>

(* A fetch by Message-ID, asked for by an operator: the cursor is not used   *)
(* and not moved (precheck_imap_uid).                                        *)
FetchByMessage(u) ==
    /\ fetch = NoFetch
    /\ u \in Present
    /\ record[u].status = "none" \/ u \in DueRetries
    /\ fetch' = [epoch |-> epoch, todo |-> {u}]
    /\ UNCHANGED <<box, epoch, sync, record>>

Done(u) == LET todo == fetch.todo \ {u} IN
           fetch' = IF todo = {} THEN NoFetch ELSE [fetch EXCEPT !.todo = todo]

Update(u, row) == record' = [record EXCEPT ![u] = row]

(* One UID: spooled, skipped by the precheck, or kept for manual review.     *)
Take(u) ==
    /\ u \in fetch.todo
    /\ fetch.epoch = epoch /\ u \in Present
    /\ Update(u, Spooled(record[u])) \/ Update(u, Settled(record[u]))
    /\ Done(u)
    /\ UNCHANGED <<box, epoch, sync>>

(* ... or it fails.  A UID of an earlier epoch leaves its mark on a record   *)
(* nobody selects again.                                                     *)
TakeFails(u) ==
    /\ u \in fetch.todo
    /\ IF fetch.epoch = epoch THEN Update(u, FailedOnce(record[u])) ELSE UNCHANGED record
    /\ Done(u)
    /\ UNCHANGED <<box, epoch, sync>>

(* The job of a spooled mail (process_spooled_mail) completes the record;    *)
(* or the attempt fails before it marks the record, leaves it in processing, *)
(* or sends it back.                                                         *)
Processed(u) ==
    /\ record[u].tries \in 1..JobAttempts
    /\ Update(u, [record[u] EXCEPT !.status = "done", !.tries = 0])
    /\ UNCHANGED <<box, epoch, sync, fetch>>

AttemptFails(u) ==
    /\ record[u].tries \in 1..JobAttempts
    /\ \E status \in {record[u].status, "spooled", "retry_wait"} :
          Update(u, [record[u] EXCEPT !.status = status, !.tries = @ - 1])
    /\ UNCHANGED <<box, epoch, sync, fetch>>

(* The process dies: the lock goes with its connection.                      *)
Crash ==
    /\ fetch # NoFetch
    /\ fetch' = NoFetch
    /\ UNCHANGED <<box, epoch, sync, record>>

(* Time: next_retry_at is reached.                                           *)
ComesDue(u) ==
    /\ record[u].status = "retry_wait" /\ ~record[u].due
    /\ Update(u, [record[u] EXCEPT !.due = TRUE])
    /\ UNCHANGED <<box, epoch, sync, fetch>>

Next ==
    \/ \E u \in Uids : \/ \E age \in Ages : Arrive(u, age)
                       \/ Expunge(u) \/ FetchByMessage(u)
                       \/ Take(u) \/ TakeFails(u) \/ Processed(u) \/ AttemptFails(u) \/ ComesDue(u)
    \/ Renumber \/ Discover \/ DiscoverFails \/ Crash

(* The mailbox is polled for ever; processes do not all die before they get  *)
(* to their first mail; retries come due.                                    *)
Fairness ==
    /\ WF_vars(Discover)
    /\ SF_vars(\E u \in Uids : Take(u) \/ TakeFails(u))
    /\ WF_vars(\E u \in Uids : ComesDue(u))

Spec == Init /\ [][Next]_vars
FairSpec == Spec /\ Fairness
-----------------------------------------------------------------------------
(* Safety: once the folder is followed by its cursor alone, no wanted mail   *)
(* at or below the cursor is without a record, whatever crashes, limits,     *)
(* failed searches, operator fetches and changes of UIDVALIDITY came before: *)
(* an incremental search would never see it again.                           *)
NoGap ==
    sync.mode = "incremental" /\ sync.epoch = epoch =>
       \A u \in Uids : box[u] = "wanted" /\ u <= sync.cursor => record[u].status # "none"

(* Action property: a mail that is being processed or done with is not       *)
(* selected again under the same UIDVALIDITY, whatever was sent back,        *)
(* retried, crashed or asked for by an operator.                             *)
NotSelectedAgain ==
    [][\A u \in Uids : record[u].status \in {"spooled", "done"} /\ epoch' = epoch =>
          (u \in fetch'.todo => u \in fetch.todo)]_vars

(* Liveness: every wanted mail is spooled or settled, or uses up its         *)
(* attempts.                                                                 *)
WantedMailTaken ==
    \A u \in Uids : (box[u] = "wanted") ~>
                    \/ record[u].status \in {"spooled", "done"} \/ box[u] = "gone"
                    \/ record[u].attempts = MaxRetries

(* What docs/00 says of the first synchronisation: it proceeds in batches,   *)
(* and after its completion only UIDs above the cursor are searched.         *)
InitialSyncCompletes == (sync.mode # "incremental") ~> (sync.mode = "incremental")

(* What docs/00 says of the time boundary, and the comment of                *)
(* fetch_imap_emails of mail deliberately excluded: no poll takes up a mail  *)
(* from before the boundary.                                                 *)
BoundaryRespected ==
    [][\A u \in Uids : record[u].status = "none" /\ record'[u].status = "discovered" =>
          box[u] = "wanted"]_vars
=============================================================================
