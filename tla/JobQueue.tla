------------------------------ MODULE JobQueue ------------------------------
(***************************************************************************)
(* The persistent job queue of services/jobs.py and the two polling loops  *)
(* that drain it: _scheduled_job_worker (main.py) and run_mail_jobs        *)
(* (mail_worker.py).  One row of job_run_logs per idempotency key; a       *)
(* worker leases a row in one transaction, loads it again in a second      *)
(* session, runs the command and writes the result in a third step.        *)
(*                                                                         *)
(* Time is abstract: next_run_at is the flag "due" and locked_at is the    *)
(* lease "held" (younger than ASYNC_JOB_STALE_SECONDS) or "expired".       *)
(* Each transaction is one step: rows are read FOR UPDATE, and SKIP LOCKED *)
(* only turns a wait into "this row is not there yet".                     *)
(***************************************************************************)
EXTENDS Naturals, Sequences

CONSTANTS
    Jobs,          \* idempotency keys, one queue row each
    Workers,       \* worker processes (each runs one job at a time: max_instances=1)
    NoWorker,      \* locked_by IS NULL
    NoJob,         \* a worker that holds nothing
    Serves,        \* [Workers -> SUBSET Jobs]: MAIL_JOB_TYPES or their complement
    MaxAttempts,   \* [Jobs -> 1, 2, ...]: max_attempts
    RetriesFailure,\* jobs whose type may retry a failure the command *returns*
    Polls,         \* jobs whose command may answer waiting_rma
    Tracking,      \* jobs whose command is handed its own queue row (imap_fetch)
    Legacy,        \* rows that may be found "running" without a lock at the start
    MaxPolls,      \* bound: waiting_rma answers of one job
    LeaseOutlivesAttempt
                   \* TRUE: no attempt lasts longer than ASYNC_JOB_STALE_SECONDS

Terminal == {"success", "superseded", "needs_manual_review", "failed"}
Status == {"absent", "queued", "running", "retry_wait"} \cup Terminal

ASSUME QueueAssumption ==
    /\ NoWorker \notin Workers
    /\ NoJob \notin Jobs
    /\ Serves \in [Workers -> SUBSET Jobs]
    /\ MaxAttempts \in [Jobs -> Nat \ {0}]
    /\ Legacy \subseteq Jobs
    /\ Tracking \subseteq Jobs
    /\ MaxPolls \in Nat
    /\ LeaseOutlivesAttempt \in BOOLEAN

VARIABLES
    job,      \* the rows
    created,  \* keys in the order of (created_at, id)
    worker,   \* per process: where it is, and the row as its session loaded it
    polled    \* history: how often a job answered waiting_rma

vars == <<job, created, worker, polled>>

Row == [status : Status, lease : {"none", "held", "expired"},
        owner : Workers \cup {NoWorker}, attempts : Nat, due : BOOLEAN]

Absent == [status |-> "absent", lease |-> "none", owner |-> NoWorker,
           attempts |-> 0, due |-> FALSE]

Unclaimed == [pc |-> "idle", job |-> NoJob, attempts |-> 0]

TypeOK ==
    /\ job \in [Jobs -> Row]
    /\ created \in Seq(Jobs)
    /\ worker \in [Workers -> [pc : {"idle", "claimed", "executing", "raising"},
                               job : Jobs \cup {NoJob}, attempts : Nat]]
    /\ polled \in [Jobs -> Nat]
-----------------------------------------------------------------------------
(* recover_stale_jobs: a running row whose lease is too old (or that never   *)
(* had one) goes back to the queue while attempts are left.                  *)
\* Faults of this step: the lease's age is not looked at, the status filter
\* is lost, only lock-less rows are recovered.
BugStaleAnyAge(row) == row.status = "running"
BugStaleAnyStatus(row) == row.lease \in {"none", "expired"}
BugStaleOnlyLockless(row) == row.status = "running" /\ row.lease = "none"

Stale(row) == row.status = "running" /\ row.lease \in {"none", "expired"}

Freed(row, status) ==
    [row EXCEPT !.status = status, !.lease = "none", !.owner = NoWorker, !.due = FALSE]

\* Fault: one attempt too many.
BugRecoverOneMore(row, limit) ==
    IF row.lease # "none" /\ row.attempts <= limit
    THEN Freed(row, "retry_wait")
    ELSE Freed(row, "failed")

RecoverRow(row, limit) ==
    IF row.lease # "none" /\ row.attempts < limit
    THEN Freed(row, "retry_wait")
    ELSE Freed(row, "failed")

Recovered == [j \in Jobs |-> IF Stale(job[j]) THEN RecoverRow(job[j], MaxAttempts[j])
                                              ELSE job[j]]

(* claim_next_job: the oldest row of the worker's types that is due.  A row  *)
(* recovered by the same call is due from a later instant than the call's    *)
(* own "now", so it is not a candidate before the next call.                 *)
Claimable(w) == {j \in Serves[w] : /\ job[j].status \in {"queued", "retry_wait"}
                                   /\ job[j].due}

Oldest(S) == {created[n] : n \in {i \in DOMAIN created :
                 /\ created[i] \in S
                 /\ \A k \in 1..(i - 1) : created[k] \notin S}}

Leased(row, w) == [row EXCEPT !.status = "running", !.lease = "held", !.owner = w,
                              !.attempts = @ + 1, !.due = FALSE]

Holding(j) == {w \in Workers : worker[w].pc # "idle" /\ worker[w].job = j}
Executing(j) == {w \in Holding(j) : worker[w].pc \in {"executing", "raising"}}
-----------------------------------------------------------------------------
Init ==
    /\ \E found \in SUBSET Legacy :
       job = [j \in Jobs |-> IF j \in found
                             THEN [Absent EXCEPT !.status = "running", !.attempts = 1]
                             ELSE Absent]
    /\ created = << >>
    /\ worker = [w \in Workers |-> Unclaimed]
    /\ polled = [j \in Jobs |-> 0]

(* enqueue_job: the unique key makes the insert happen once; a caller that   *)
(* finds the key gets the old row back and changes nothing.  Some callers    *)
(* postpone the first run (next_run_at).                                     *)
Enqueue(j, now) ==
    /\ job[j].status = "absent"
    /\ job' = [job EXCEPT ![j].status = "queued", ![j].due = now]
    /\ created' = Append(created, j)
    /\ UNCHANGED <<worker, polled>>

(* claim_next_job in its own committed session, recovery included.           *)
Claim(w) ==
    /\ worker[w].pc = "idle"
    /\ \E j \in Oldest(Claimable(w)) :
          /\ job' = [Recovered EXCEPT ![j] = Leased(job[j], w)]
          /\ worker' = [worker EXCEPT ![w] = [pc |-> "claimed", job |-> j, attempts |-> 0]]
    /\ UNCHANGED <<created, polled>>

(* run_session.get: the row is loaded without a lock, and only its status is *)
(* looked at (not whose lease it carries).                                   *)
Start(w) ==
    /\ worker[w].pc = "claimed"
    /\ LET row == job[worker[w].job] IN
       worker' = [worker EXCEPT ![w] =
           IF row.status = "running"
           THEN [@ EXCEPT !.pc = "executing", !.attempts = row.attempts]
           ELSE Unclaimed]
    /\ UNCHANGED <<job, created, polled>>

(* execute_claimed_job, once the command is over: the row is locked and      *)
(* written.  The session still holds the attributes it loaded in Start, so   *)
(* the row written is the current one with the new status, and the count a   *)
(* returned failure is compared with is the one loaded in Start.             *)
Complete(w, row) ==
    /\ job' = [job EXCEPT ![worker[w].job] = row]
    /\ worker' = [worker EXCEPT ![w] = Unclaimed]
    /\ UNCHANGED created

Succeed(w) ==
    /\ worker[w].pc = "executing"
    /\ Complete(w, Freed(job[worker[w].job], "success"))
    /\ UNCHANGED polled

KeepWaiting(w) ==
    LET j == worker[w].job IN
    /\ worker[w].pc = "executing"
    /\ j \in Polls
    /\ polled[j] < MaxPolls
    /\ polled' = [polled EXCEPT ![j] = @ + 1]
    /\ Complete(w, Freed(job[j], "retry_wait"))

Supersede(w) ==
    /\ worker[w].pc = "executing"
    /\ Complete(w, Freed(job[worker[w].job], "superseded"))
    /\ UNCHANGED polled

RetryOr(status, retryable, attempts, j) ==
    IF retryable /\ attempts < MaxAttempts[j] THEN "retry_wait" ELSE status

ReportFailure(w, retryable, status) ==
    LET j == worker[w].job IN
    /\ worker[w].pc = "executing"
    /\ retryable => j \in RetriesFailure
    /\ Complete(w, Freed(job[j], RetryOr(status, retryable, worker[w].attempts, j)))
    /\ UNCHANGED polled

(* fetch_imap_emails works on the queue's own row: when it fails it commits  *)
(* status "failed" and raises.  It drops the lease in memory only, and the   *)
(* runner rolls that back.                                                   *)
\* Fault of this step: it already asks for the retry.
BugFailEarlyRetries(w) ==
    /\ worker[w].pc = "executing"
    /\ worker[w].job \in Tracking
    /\ job' = [job EXCEPT ![worker[w].job].status = "retry_wait"]
    /\ worker' = [worker EXCEPT ![w].pc = "raising"]
    /\ UNCHANGED <<created, polled>>

FailEarly(w) ==
    /\ worker[w].pc = "executing"
    /\ worker[w].job \in Tracking
    /\ job' = [job EXCEPT ![worker[w].job].status = "failed"]
    /\ worker' = [worker EXCEPT ![w].pc = "raising"]
    /\ UNCHANGED <<created, polled>>

(* The command raised: the session is rolled back, which expires everything  *)
(* it had loaded, so this path compares the stored attempt_count.  It writes *)
(* the row whatever status it finds, the "failed" of FailEarly included.     *)
Raise(w, retryable, status) ==
    LET j == worker[w].job IN
    /\ worker[w].pc \in {"executing", "raising"}
    /\ Complete(w, Freed(job[j], RetryOr(status, retryable, job[j].attempts, j)))
    /\ UNCHANGED polled

(* The process dies, or the commit of its last transaction does not go       *)
(* through: the row keeps its lease.                                         *)
Crash(w) ==
    /\ worker[w].pc # "idle"
    /\ worker' = [worker EXCEPT ![w] = Unclaimed]
    /\ UNCHANGED <<job, created, polled>>

(* Time: locked_at falls behind now - ASYNC_JOB_STALE_SECONDS.               *)
LeaseExpires(j) ==
    /\ job[j].lease = "held"
    /\ LeaseOutlivesAttempt => Holding(j) = {}
    /\ job' = [job EXCEPT ![j].lease = "expired"]
    /\ UNCHANGED <<created, worker, polled>>

(* Time: next_run_at is reached.                                             *)
ComesDue(j) ==
    /\ job[j].status \in {"queued", "retry_wait"}
    /\ ~job[j].due
    /\ job' = [job EXCEPT ![j].due = TRUE]
    /\ UNCHANGED <<created, worker, polled>>

(* recover_stale_jobs alone: _scheduled_consistency_recovery, or a claim     *)
(* that finds nothing to run and commits.                                    *)
Sweep ==
    /\ \E j \in Jobs : Stale(job[j])
    /\ job' = Recovered
    /\ UNCHANGED <<created, worker, polled>>

Finish(w) ==
    \/ Succeed(w)
    \/ KeepWaiting(w)
    \/ Supersede(w)
    \/ \E retryable \in BOOLEAN, status \in {"needs_manual_review", "failed"} :
          ReportFailure(w, retryable, status) \/ Raise(w, retryable, status)

Next ==
    \/ \E j \in Jobs : (\E now \in BOOLEAN : Enqueue(j, now)) \/ LeaseExpires(j) \/ ComesDue(j)
    \/ \E w \in Workers : Claim(w) \/ Start(w) \/ FailEarly(w) \/ Finish(w) \/ Crash(w)
    \/ Sweep

(* The scheduler keeps calling both loops and the recovery, a command ends   *)
(* (every transport has a timeout), and time passes.                         *)
Fairness ==
    /\ \A w \in Workers : WF_vars(Claim(w)) /\ WF_vars(Start(w)) /\ WF_vars(Finish(w))
    /\ \A j \in Jobs : WF_vars(LeaseExpires(j)) /\ WF_vars(ComesDue(j))
    /\ WF_vars(Sweep)

Spec == Init /\ [][Next]_vars
FairSpec == Spec /\ Fairness
-----------------------------------------------------------------------------
(* Safety: while a worker holds a job, the row is leased to that worker, and *)
(* the attempt it is executing is the one the row counts.  So no command     *)
(* runs twice at a time and no result is written over another attempt's row  *)
(* (jobs.py never checks locked_by, only the lease protects it).  The row is *)
(* running, or failed while an imap_fetch is about to raise.                 *)
HolderOwnsRow ==
    \A w \in Workers : worker[w].pc # "idle" =>
        LET row == job[worker[w].job] IN
        /\ row.status = IF worker[w].pc = "raising" THEN "failed" ELSE "running"
        /\ row.owner = w /\ row.lease = "held"
        /\ worker[w].pc # "claimed" => worker[w].attempts = row.attempts

NoConcurrentExecution ==
    \A j \in Jobs : \A v, w \in Executing(j) : v = w

(* Safety: a job is begun at most max_attempts times, answers of waiting_rma *)
(* not counted.  Each comparison with max_attempts (recovery, returned       *)
(* failure, exception) has to be right for this, in every order.             *)
AttemptBudget ==
    \A j \in Jobs : /\ job[j].attempts <= MaxAttempts[j] + polled[j]
                    /\ job[j].status \in {"queued", "retry_wait"} =>
                          job[j].attempts < MaxAttempts[j] + polled[j]

(* A final status is on record, and nobody is about to raise over it.        *)
Failing(j) == \E w \in Holding(j) : worker[w].pc = "raising"

Settled(j) == job[j].status \in Terminal /\ ~Failing(j)

(* Action property: a finished job stays finished; no late result, recovery  *)
(* or claim reopens or rewrites it.  A "failed" on record is final only once *)
(* its runner is gone: execute_claimed_job may turn the one that imap_fetch  *)
(* committed into retry_wait, and recover_stale_jobs must leave the one of a *)
(* worker that died in between, whose lease is still on the row.             *)
FinishedIsFinal ==
    [][\A j \in Jobs : Settled(j) => job'[j].status = job[j].status]_vars

(* What is on record as finished is final.  Not true, and checked by         *)
(* JobQueueReopened.cfg only: execute_claimed_job turns a "failed" that      *)
(* imap_fetch has committed into retry_wait.                                 *)
RecordedIsFinal ==
    [][\A j \in Jobs : job[j].status \in Terminal => job'[j].status = job[j].status]_vars

(* Liveness: every job that is queued ends, whatever workers crash.          *)
EveryJobEnds ==
    \A j \in Jobs : (job[j].status # "absent") ~> Settled(j)
-----------------------------------------------------------------------------
(* What the callers of the queue rely on.                                    *)
Phase == [j \in Jobs |-> CASE job[j].status = "absent" -> "absent"
                           [] job[j].status \in {"queued", "retry_wait"} -> "waiting"
                           [] job[j].status = "running" -> "begun"
                           [] OTHER -> IF Failing(j) THEN "failing" ELSE job[j].status]

Runner == [j \in Jobs |-> Executing(j)]

Lifecycle == INSTANCE JobLifecycle WITH phase <- Phase, runner <- Runner

(* Refinement: seen through Phase and Runner, every step of the queue is one *)
(* that JobLifecycle allows.                                                 *)
ImplementsLifecycle == Lifecycle!Spec
=============================================================================
