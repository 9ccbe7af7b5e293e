--------------------------- MODULE JobQueueProofs ---------------------------
(***************************************************************************)
(* Proofs about JobQueue, for every set of jobs and workers.  Everything   *)
(* but type correctness rests on the assumption that no attempt outlives   *)
(* its lease: jobs.py has no other protection.                             *)
(***************************************************************************)
EXTENDS JobQueue, TLAPS

HoldsAJob == \A w \in Workers : worker[w].pc # "idle" => worker[w].job \in Jobs

Typed == TypeOK /\ HoldsAJob
-----------------------------------------------------------------------------
(* The rows that the operators of the queue build are rows.                  *)
LEMMA FreedIsRow ==
    ASSUME NEW row \in Row, NEW status \in Status
    PROVE  /\ Freed(row, status) \in Row
           /\ Freed(row, status).status = status
           /\ Freed(row, status).attempts = row.attempts
  BY DEF Freed, Row, Status, Terminal

LEMMA LeasedIsRow ==
    ASSUME NEW row \in Row, NEW w \in Workers
    PROVE  /\ Leased(row, w) \in Row
           /\ Leased(row, w).status = "running"
           /\ Leased(row, w).lease = "held"
           /\ Leased(row, w).owner = w
           /\ Leased(row, w).attempts = row.attempts + 1
  <1>1. "running" \in Status
    BY DEF Status
  <1>2. row.attempts \in Nat /\ row.attempts + 1 \in Nat
    BY DEF Row
  <1>3. Leased(row, w) \in Row
    BY <1>1, <1>2 DEF Leased, Row
  <1>. QED BY <1>3 DEF Leased, Row

LEMMA RecoverIsRow ==
    ASSUME NEW row \in Row, NEW limit \in Nat
    PROVE  /\ RecoverRow(row, limit) \in Row
           /\ RecoverRow(row, limit).status \in {"retry_wait", "failed"}
           /\ RecoverRow(row, limit).attempts = row.attempts
           /\ RecoverRow(row, limit).status = "retry_wait" => row.attempts < limit
  <1>1. "retry_wait" \in Status /\ "failed" \in Status
    BY DEF Status, Terminal
  <1>. QED BY <1>1, FreedIsRow DEF RecoverRow

LEMMA SetIsRow ==
    ASSUME NEW row \in Row, NEW now \in BOOLEAN
    PROVE  /\ [row EXCEPT !.status = "queued", !.due = now] \in Row
           /\ [row EXCEPT !.status = "failed"] \in Row
           /\ [row EXCEPT !.lease = "expired"] \in Row
           /\ [row EXCEPT !.due = TRUE] \in Row
  <1>1. "queued" \in Status /\ "failed" \in Status
    BY DEF Status, Terminal
  <1>. QED BY <1>1 DEF Row

LEMMA RecoveredIsTyped ==
    ASSUME job \in [Jobs -> Row]
    PROVE  Recovered \in [Jobs -> Row]
  <1>1. ASSUME NEW j \in Jobs PROVE Recovered[j] \in Row
    BY RecoverIsRow, QueueAssumption DEF Recovered
  <1>. QED BY <1>1 DEF Recovered

(* claim_next_job picks among the candidates it is given.                    *)
LEMMA OldestIsOne == ASSUME NEW S PROVE Oldest(S) \subseteq S
  BY DEF Oldest
-----------------------------------------------------------------------------
(* Type correctness: the rows and the workers' copies keep their shape.      *)
LEMMA InitTyped == Init => Typed
  <1>. SUFFICES ASSUME Init PROVE Typed
    OBVIOUS
  <1>1. Absent \in Row /\ [Absent EXCEPT !.status = "running", !.attempts = 1] \in Row
    BY DEF Absent, Row, Status
  <1>2. job \in [Jobs -> Row]
    BY <1>1 DEF Init
  <1>3. created \in Seq(Jobs) /\ polled \in [Jobs -> Nat]
    BY DEF Init
  <1>. QED BY <1>2, <1>3 DEF Init, Typed, TypeOK, HoldsAJob, Unclaimed

LEMMA CompleteTyped ==
    ASSUME Typed, NEW w \in Workers, NEW row \in Row, Complete(w, row)
    PROVE  /\ job' \in [Jobs -> Row] /\ created' \in Seq(Jobs)
           /\ worker' \in [Workers -> [pc : {"idle", "claimed", "executing", "raising"},
                                       job : Jobs \cup {NoJob}, attempts : Nat]]
           /\ HoldsAJob'
  <1>1. Unclaimed \in [pc : {"idle", "claimed", "executing", "raising"},
                       job : Jobs \cup {NoJob}, attempts : Nat]
    BY DEF Unclaimed
  <1>. QED BY <1>1 DEF Complete, Typed, TypeOK, HoldsAJob, Unclaimed

LEMMA NextTyped == Typed /\ [Next]_vars => Typed'
  <1>. SUFFICES ASSUME Typed, [Next]_vars PROVE Typed'
    OBVIOUS
  <1>. USE DEF Typed, TypeOK, HoldsAJob
  <1>s. /\ "queued" \in Status /\ "running" \in Status /\ "retry_wait" \in Status
        /\ "success" \in Status /\ "superseded" \in Status
        /\ "failed" \in Status /\ "needs_manual_review" \in Status
    BY DEF Status, Terminal
  <1>1. ASSUME NEW j \in Jobs, NEW now \in BOOLEAN, Enqueue(j, now) PROVE Typed'
    <2>1. [job[j] EXCEPT !.status = "queued", !.due = now] \in Row
      BY SetIsRow
    <2>. QED BY <1>1, <2>1 DEF Enqueue
  <1>2. ASSUME NEW j \in Jobs, LeaseExpires(j) PROVE Typed'
    <2>1. [job[j] EXCEPT !.lease = "expired"] \in Row
      BY SetIsRow
    <2>. QED BY <1>2, <2>1 DEF LeaseExpires
  <1>3. ASSUME NEW j \in Jobs, ComesDue(j) PROVE Typed'
    <2>1. [job[j] EXCEPT !.due = TRUE] \in Row
      BY SetIsRow
    <2>. QED BY <1>3, <2>1 DEF ComesDue
  <1>4. ASSUME NEW w \in Workers, Claim(w) PROVE Typed'
    <2>1. PICK j \in Oldest(Claimable(w)) :
             /\ job' = [Recovered EXCEPT ![j] = Leased(job[j], w)]
             /\ worker' = [worker EXCEPT ![w] = [pc |-> "claimed", job |-> j, attempts |-> 0]]
      BY <1>4 DEF Claim
    <2>2. j \in Jobs
      BY OldestIsOne, QueueAssumption DEF Claimable
    <2>3. job' \in [Jobs -> Row]
      BY <2>1, <2>2, RecoveredIsTyped, LeasedIsRow
    <2>. QED BY <1>4, <2>1, <2>2, <2>3 DEF Claim
  <1>5. ASSUME NEW w \in Workers, Start(w) PROVE Typed'
    <2>1. worker[w].job \in Jobs /\ job[worker[w].job].attempts \in Nat
      BY <1>5 DEF Start, Row
    <2>. QED BY <1>5, <2>1 DEF Start, Unclaimed
  <1>6. ASSUME NEW w \in Workers, Finish(w) PROVE Typed'
    <2>0. worker[w].job \in Jobs
      BY <1>6 DEF Finish, Succeed, KeepWaiting, Supersede, ReportFailure, Raise
    <2>1. CASE Succeed(w)
      BY <1>s, <2>0, <2>1, FreedIsRow, CompleteTyped DEF Succeed
    <2>2. CASE KeepWaiting(w)
      <3>1. Complete(w, Freed(job[worker[w].job], "retry_wait"))
        BY <2>2 DEF KeepWaiting
      <3>2. polled' \in [Jobs -> Nat]
        BY <2>0, <2>2 DEF KeepWaiting
      <3>. QED BY <1>s, <2>0, <3>1, <3>2, FreedIsRow, CompleteTyped
    <2>3. CASE Supersede(w)
      BY <1>s, <2>0, <2>3, FreedIsRow, CompleteTyped DEF Supersede
    <2>4. ASSUME NEW retryable \in BOOLEAN,
                 NEW status \in {"needs_manual_review", "failed"},
                 ReportFailure(w, retryable, status) \/ Raise(w, retryable, status)
          PROVE  Typed'
      <3>1. ASSUME NEW n PROVE RetryOr(status, retryable, n, worker[w].job) \in Status
        BY <1>s DEF RetryOr
      <3>2. CASE ReportFailure(w, retryable, status)
        BY <2>0, <3>1, <3>2, FreedIsRow, CompleteTyped DEF ReportFailure
      <3>3. CASE Raise(w, retryable, status)
        BY <2>0, <3>1, <3>3, FreedIsRow, CompleteTyped DEF Raise
      <3>. QED BY <2>4, <3>2, <3>3
    <2>. QED BY <1>6, <2>1, <2>2, <2>3, <2>4 DEF Finish
  <1>f. ASSUME NEW w \in Workers, FailEarly(w) PROVE Typed'
    <2>1. worker[w].job \in Jobs /\ [job[worker[w].job] EXCEPT !.status = "failed"] \in Row
      BY <1>s, <1>f, SetIsRow DEF FailEarly
    <2>. QED BY <1>f, <2>1 DEF FailEarly
  <1>7. ASSUME NEW w \in Workers, Crash(w) PROVE Typed'
    BY <1>7 DEF Crash, Unclaimed
  <1>8. CASE Sweep
    BY <1>8, RecoveredIsTyped DEF Sweep
  <1>9. CASE UNCHANGED vars
    BY <1>9 DEF vars
  <1>. QED BY <1>1, <1>2, <1>3, <1>4, <1>5, <1>6, <1>f, <1>7, <1>8, <1>9 DEF Next

THEOREM TypeCorrect == Spec => []TypeOK
  <1>1. Spec => []Typed
    BY InitTyped, NextTyped, PTL DEF Spec
  <1>. QED BY <1>1, PTL DEF Typed
-----------------------------------------------------------------------------
(* The lease: what a worker holds is leased to that worker.                  *)
Owns(v) ==
    /\ job[worker[v].job].status = IF worker[v].pc = "raising" THEN "failed" ELSE "running"
    /\ job[worker[v].job].owner = v
    /\ job[worker[v].job].lease = "held"
    /\ worker[v].pc # "claimed" => worker[v].attempts = job[worker[v].job].attempts

LEMMA HolderOwns == HolderOwnsRow <=> \A v \in Workers : worker[v].pc # "idle" => Owns(v)
  BY DEF HolderOwnsRow, Owns

(* A step that leaves v's copy and v's row alone leaves v the owner.         *)
LEMMA OwnsKept ==
    ASSUME NEW v \in Workers, Owns(v), worker'[v] = worker[v],
           job'[worker[v].job] = job[worker[v].job]
    PROVE  Owns(v)'
  BY DEF Owns

(* Two holders never have the same row: it has one owner.                    *)
LEMMA HoldersApart ==
    ASSUME HolderOwnsRow, NEW v \in Workers, NEW w \in Workers, v # w,
           worker[v].pc # "idle", worker[w].pc # "idle"
    PROVE  worker[v].job # worker[w].job
  BY DEF HolderOwnsRow

(* Recovery does not touch a row that is held.                               *)
LEMMA HeldNotRecovered ==
    ASSUME Typed, NEW v \in Workers, worker[v].pc # "idle", Owns(v)
    PROVE  Recovered[worker[v].job] = job[worker[v].job]
  BY DEF Recovered, Stale, Owns, Typed, HoldsAJob

(* A result is written to the row of the worker that reports, to no other.   *)
LEMMA CompleteOwns ==
    ASSUME Typed, HolderOwnsRow, NEW w \in Workers, worker[w].pc # "idle",
           NEW row, Complete(w, row)
    PROVE  HolderOwnsRow'
  <1>. SUFFICES ASSUME NEW v \in Workers, worker'[v].pc # "idle" PROVE Owns(v)'
    BY DEF HolderOwnsRow, Owns
  <1>1. v # w /\ worker'[v] = worker[v]
    BY DEF Complete, Unclaimed, Typed, TypeOK
  <1>2. worker[v].job # worker[w].job
    BY <1>1, HoldersApart
  <1>3. job'[worker[v].job] = job[worker[v].job]
    BY <1>1, <1>2 DEF Complete, Typed, TypeOK, HoldsAJob
  <1>. QED BY <1>1, <1>3, HolderOwns, OwnsKept

LEMMA NextOwns ==
    ASSUME LeaseOutlivesAttempt, Typed, HolderOwnsRow, [Next]_vars
    PROVE  HolderOwnsRow'
  <1>0. \A v \in Workers : worker[v].pc # "idle" => Owns(v)
    BY HolderOwns
  <1>1. ASSUME NEW j \in Jobs, NEW now \in BOOLEAN, Enqueue(j, now) PROVE HolderOwnsRow'
    <2>. SUFFICES ASSUME NEW v \in Workers, worker'[v].pc # "idle" PROVE Owns(v)'
      BY DEF HolderOwnsRow, Owns
    <2>1. worker'[v] = worker[v] /\ worker[v].job # j
      BY <1>0, <1>1 DEF Enqueue, Owns
    <2>. QED BY <1>0, <1>1, <2>1, OwnsKept DEF Enqueue, Typed, TypeOK, HoldsAJob
  <1>2. ASSUME NEW j \in Jobs, LeaseExpires(j) PROVE HolderOwnsRow'
    <2>. SUFFICES ASSUME NEW v \in Workers, worker'[v].pc # "idle" PROVE Owns(v)'
      BY DEF HolderOwnsRow, Owns
    <2>1. worker'[v] = worker[v] /\ worker[v].job # j
      BY <1>2 DEF LeaseExpires, Holding
    <2>. QED BY <1>0, <1>2, <2>1, OwnsKept DEF LeaseExpires, Typed, TypeOK, HoldsAJob
  <1>3. ASSUME NEW j \in Jobs, ComesDue(j) PROVE HolderOwnsRow'
    <2>. SUFFICES ASSUME NEW v \in Workers, worker'[v].pc # "idle" PROVE Owns(v)'
      BY DEF HolderOwnsRow, Owns
    <2>1. worker'[v] = worker[v] /\ worker[v].job # j
      BY <1>0, <1>3 DEF ComesDue, Owns
    <2>. QED BY <1>0, <1>3, <2>1, OwnsKept DEF ComesDue, Typed, TypeOK, HoldsAJob
  <1>4. ASSUME NEW w \in Workers, Claim(w) PROVE HolderOwnsRow'
    <2>. SUFFICES ASSUME NEW v \in Workers, worker'[v].pc # "idle" PROVE Owns(v)'
      BY DEF HolderOwnsRow, Owns
    <2>1. PICK j \in Oldest(Claimable(w)) :
             /\ job' = [Recovered EXCEPT ![j] = Leased(job[j], w)]
             /\ worker' = [worker EXCEPT ![w] = [pc |-> "claimed", job |-> j, attempts |-> 0]]
      BY <1>4 DEF Claim
    <2>2. j \in Jobs /\ job[j].status \in {"queued", "retry_wait"} /\ job[j] \in Row
      BY OldestIsOne, QueueAssumption DEF Claimable, Typed, TypeOK
    <2>3. Recovered \in [Jobs -> Row]
      BY RecoveredIsTyped DEF Typed, TypeOK
    <2>4. CASE v = w
      <3>1. worker'[w] = [pc |-> "claimed", job |-> j, attempts |-> 0]
        BY <2>1 DEF Typed, TypeOK
      <3>2. job'[j] = Leased(job[j], w)
        BY <2>1, <2>2, <2>3
      <3>. QED BY <2>2, <2>4, <3>1, <3>2, LeasedIsRow DEF Owns
    <2>5. CASE v # w
      <3>1. worker'[v] = worker[v] /\ Owns(v)
        BY <1>0, <2>1, <2>5 DEF Typed, TypeOK
      <3>2. worker[v].job # j /\ worker[v].job \in Jobs
        BY <2>2, <3>1 DEF Owns, Typed, HoldsAJob
      <3>3. job'[worker[v].job] = job[worker[v].job]
        BY <2>1, <2>3, <3>1, <3>2, HeldNotRecovered
      <3>. QED BY <3>1, <3>3, OwnsKept
    <2>. QED BY <2>4, <2>5
  <1>5. ASSUME NEW w \in Workers, Start(w) PROVE HolderOwnsRow'
    <2>. SUFFICES ASSUME NEW v \in Workers, worker'[v].pc # "idle" PROVE Owns(v)'
      BY DEF HolderOwnsRow, Owns
    <2>1. CASE v = w
      <3>1. Owns(w)
        BY <1>0, <1>5 DEF Start
      <3>2. worker'[w] = [worker[w] EXCEPT !.pc = "executing",
                                           !.attempts = job[worker[w].job].attempts]
        BY <1>5, <2>1, <3>1 DEF Start, Owns, Unclaimed, Typed, TypeOK
      <3>. QED BY <1>5, <2>1, <3>1, <3>2 DEF Start, Owns, Typed, TypeOK
    <2>2. CASE v # w
      BY <1>0, <1>5, <2>2, OwnsKept DEF Start, Typed, TypeOK
    <2>. QED BY <2>1, <2>2
  <1>6. ASSUME NEW w \in Workers, Finish(w) PROVE HolderOwnsRow'
    <2>1. worker[w].pc # "idle" /\ \E row : Complete(w, row)
      BY <1>6 DEF Finish, Succeed, KeepWaiting, Supersede, ReportFailure, Raise
    <2>. QED BY <2>1, CompleteOwns
  <1>f. ASSUME NEW w \in Workers, FailEarly(w) PROVE HolderOwnsRow'
    <2>. SUFFICES ASSUME NEW v \in Workers, worker'[v].pc # "idle" PROVE Owns(v)'
      BY DEF HolderOwnsRow, Owns
    <2>1. worker[w].pc = "executing" /\ worker[w].job \in Jobs /\ Owns(w)
          /\ job[worker[w].job] \in Row
      BY <1>0, <1>f DEF FailEarly, Typed, TypeOK, HoldsAJob
    <2>2. CASE v = w
      <3>1. worker'[w] = [worker[w] EXCEPT !.pc = "raising"]
            /\ worker[w] \in [pc : {"idle", "claimed", "executing", "raising"},
                              job : Jobs \cup {NoJob}, attempts : Nat]
        BY <1>f DEF FailEarly, Typed, TypeOK
      <3>2. /\ worker'[w].pc = "raising" /\ worker'[w].job = worker[w].job
            /\ worker'[w].attempts = worker[w].attempts
        BY <3>1
      <3>3. job'[worker[w].job] = [job[worker[w].job] EXCEPT !.status = "failed"]
        BY <1>f, <2>1 DEF FailEarly, Typed, TypeOK
      <3>. QED BY <2>1, <2>2, <3>2, <3>3 DEF Owns, Row
    <2>3. CASE v # w
      <3>1. worker'[v] = worker[v] /\ worker[v].pc # "idle"
        BY <1>f, <2>3 DEF FailEarly, Typed, TypeOK
      <3>2. worker[v].job # worker[w].job /\ worker[v].job \in Jobs
        BY <2>1, <2>3, <3>1, HoldersApart DEF Typed, HoldsAJob
      <3>. QED BY <1>0, <1>f, <3>1, <3>2, OwnsKept DEF FailEarly, Typed, TypeOK
    <2>. QED BY <2>2, <2>3
  <1>7. ASSUME NEW w \in Workers, Crash(w) PROVE HolderOwnsRow'
    <2>. SUFFICES ASSUME NEW v \in Workers, worker'[v].pc # "idle" PROVE Owns(v)'
      BY DEF HolderOwnsRow, Owns
    <2>. QED BY <1>0, <1>7, OwnsKept DEF Crash, Unclaimed, Typed, TypeOK
  <1>8. CASE Sweep
    <2>. SUFFICES ASSUME NEW v \in Workers, worker'[v].pc # "idle" PROVE Owns(v)'
      BY DEF HolderOwnsRow, Owns
    <2>. QED BY <1>0, <1>8, HeldNotRecovered, OwnsKept DEF Sweep
  <1>9. CASE UNCHANGED vars
    BY <1>9 DEF vars, HolderOwnsRow
  <1>. QED BY <1>1, <1>2, <1>3, <1>4, <1>5, <1>6, <1>f, <1>7, <1>8, <1>9 DEF Next

(* While no attempt outlives its lease, a worker only ever works on a row    *)
(* that is leased to it, and on the attempt that row counts.                 *)
THEOREM LeaseProtects ==
    ASSUME LeaseOutlivesAttempt
    PROVE  Spec => []HolderOwnsRow
  <1>1. Init => HolderOwnsRow
    BY DEF Init, HolderOwnsRow, Unclaimed
  <1>2. Typed /\ HolderOwnsRow /\ [Next]_vars => HolderOwnsRow'
    BY NextOwns
  <1>. QED BY <1>1, <1>2, InitTyped, NextTyped, PTL DEF Spec

(* Hence no command runs in two workers at a time.                           *)
THEOREM OneRunner ==
    ASSUME LeaseOutlivesAttempt
    PROVE  Spec => []NoConcurrentExecution
  <1>1. HolderOwnsRow => NoConcurrentExecution
    BY DEF HolderOwnsRow, NoConcurrentExecution, Executing, Holding
  <1>. QED BY <1>1, LeaseProtects, PTL
-----------------------------------------------------------------------------
(* What a step may do to one row.                                            *)
Kept(j) == /\ job'[j].status = job[j].status
           /\ job'[j].attempts = job[j].attempts
Queued(j) == /\ job[j].status = "absent" /\ job'[j].status = "queued"
             /\ job'[j].attempts = job[j].attempts
Begun(j) == /\ job[j].status \in {"queued", "retry_wait"} /\ job'[j].status = "running"
            /\ job'[j].attempts = job[j].attempts + 1
Busy(j) == job[j].status = "running" \/ Failing(j)
Ended(j) == /\ Busy(j) /\ job'[j].status \in Terminal
            /\ job'[j].attempts = job[j].attempts
Again(j) == /\ Busy(j) /\ job'[j].status = "retry_wait"
            /\ job'[j].attempts = job[j].attempts
            /\ job[j].attempts < MaxAttempts[j] \/ polled'[j] = polled[j] + 1

RowMoves(j) == /\ polled'[j] \in {polled[j], polled[j] + 1}
               /\ Kept(j) \/ Queued(j) \/ Begun(j) \/ Ended(j) \/ Again(j)

LEMMA RecoveredMoves ==
    ASSUME Typed, NEW j \in Jobs, job'[j] = Recovered[j], polled'[j] = polled[j]
    PROVE  RowMoves(j)
  <1>1. CASE Stale(job[j])
    <2>1. job'[j] = RecoverRow(job[j], MaxAttempts[j]) /\ job[j] \in Row
          /\ MaxAttempts[j] \in Nat
      BY <1>1, QueueAssumption DEF Recovered, Typed, TypeOK
    <2>. QED BY <1>1, <2>1, RecoverIsRow DEF RowMoves, Ended, Again, Busy, Stale, Terminal
  <1>2. CASE ~Stale(job[j])
    BY <1>2 DEF Recovered, RowMoves, Kept
  <1>. QED BY <1>1, <1>2

(* A result written by its owner ends the attempt, or asks for another one   *)
(* within the limit or after waiting_rma.                                    *)
LEMMA CompleteMoves ==
    ASSUME Typed, HolderOwnsRow, NEW w \in Workers,
           worker[w].pc \in {"executing", "raising"},
           NEW status \in Terminal \cup {"retry_wait"},
           Complete(w, Freed(job[worker[w].job], status)),
           polled' \in [Jobs -> Nat],
           \A j \in Jobs : polled'[j] \in {polled[j], polled[j] + 1},
           status = "retry_wait" =>
              \/ job[worker[w].job].attempts < MaxAttempts[worker[w].job]
              \/ polled'[worker[w].job] = polled[worker[w].job] + 1,
           NEW j \in Jobs
    PROVE  RowMoves(j)
  <1>1. worker[w].job \in Jobs /\ Busy(worker[w].job)
    BY DEF HolderOwnsRow, Typed, HoldsAJob, Busy, Failing, Holding
  <1>2. CASE j = worker[w].job
    <2>1. job[j] \in Row /\ status \in Status
      BY <1>1, <1>2 DEF Typed, TypeOK, Status
    <2>2. job'[j] = Freed(job[j], status)
      BY <1>1, <1>2 DEF Complete, Typed, TypeOK
    <2>. QED BY <1>1, <1>2, <2>1, <2>2, FreedIsRow DEF RowMoves, Ended, Again
  <1>3. CASE j # worker[w].job
    BY <1>3 DEF Complete, RowMoves, Kept, Typed, TypeOK
  <1>. QED BY <1>2, <1>3

LEMMA FinishMoves ==
    ASSUME Typed, HolderOwnsRow, NEW w \in Workers, Finish(w), NEW j \in Jobs
    PROVE  RowMoves(j)
  <1>0. /\ worker[w].job \in Jobs /\ worker[w].pc \in {"executing", "raising"}
        /\ worker[w].attempts = job[worker[w].job].attempts
        /\ \A k \in Jobs : polled[k] \in Nat
    BY DEF Finish, Succeed, KeepWaiting, Supersede, ReportFailure, Raise,
           HolderOwnsRow, Typed, TypeOK, HoldsAJob
  <1>s. /\ "success" \in Terminal /\ "superseded" \in Terminal
        /\ "failed" \in Terminal /\ "needs_manual_review" \in Terminal
        /\ "retry_wait" \notin Terminal
    BY DEF Terminal
  <1>1. CASE Succeed(w)
    BY <1>0, <1>1, <1>s, CompleteMoves DEF Succeed, Typed, TypeOK
  <1>2. CASE KeepWaiting(w)
    <2>1. /\ Complete(w, Freed(job[worker[w].job], "retry_wait"))
          /\ polled' = [polled EXCEPT ![worker[w].job] = @ + 1]
      BY <1>2 DEF KeepWaiting
    <2>2. /\ polled' \in [Jobs -> Nat]
          /\ polled'[worker[w].job] = polled[worker[w].job] + 1
          /\ \A k \in Jobs : polled'[k] \in {polled[k], polled[k] + 1}
      BY <1>0, <2>1 DEF Typed, TypeOK
    <2>. QED BY <1>0, <2>1, <2>2, CompleteMoves
  <1>3. CASE Supersede(w)
    BY <1>0, <1>3, <1>s, CompleteMoves DEF Supersede, Typed, TypeOK
  <1>4. ASSUME NEW retryable \in BOOLEAN,
               NEW status \in {"needs_manual_review", "failed"},
               ReportFailure(w, retryable, status) \/ Raise(w, retryable, status)
        PROVE  RowMoves(j)
    <2>1. Complete(w, Freed(job[worker[w].job],
                            RetryOr(status, retryable, job[worker[w].job].attempts,
                                    worker[w].job)))
          /\ UNCHANGED polled
      BY <1>0, <1>4 DEF ReportFailure, Raise
    <2>. DEFINE new == RetryOr(status, retryable, job[worker[w].job].attempts, worker[w].job)
    <2>2. /\ new \in Terminal \cup {"retry_wait"}
          /\ new = "retry_wait" => job[worker[w].job].attempts < MaxAttempts[worker[w].job]
      BY <1>s DEF RetryOr
    <2>3. polled' \in [Jobs -> Nat] /\ \A k \in Jobs : polled'[k] \in {polled[k], polled[k] + 1}
      BY <2>1 DEF Typed, TypeOK
    <2>. HIDE DEF new
    <2>4. Complete(w, Freed(job[worker[w].job], new))
      BY <2>1 DEF new
    <2>. QED BY <1>0, <2>2, <2>3, <2>4, CompleteMoves
  <1>. QED BY <1>1, <1>2, <1>3, <1>4 DEF Finish

LEMMA NextMoves ==
    ASSUME Typed, HolderOwnsRow, [Next]_vars, NEW j \in Jobs
    PROVE  RowMoves(j)
  <1>. USE DEF Typed, TypeOK
  <1>1. ASSUME NEW k \in Jobs, NEW now \in BOOLEAN, Enqueue(k, now) PROVE RowMoves(j)
    BY <1>1 DEF Enqueue, RowMoves, Kept, Queued, Row
  <1>2. ASSUME NEW k \in Jobs, LeaseExpires(k) \/ ComesDue(k) PROVE RowMoves(j)
    <2>1. CASE LeaseExpires(k)
      <3>1. job' = [job EXCEPT ![k].lease = "expired"] /\ polled' = polled
        BY <2>1 DEF LeaseExpires
      <3>2. job[k] \in Row /\ job[j] \in Row
        OBVIOUS
      <3>. QED BY <3>1, <3>2 DEF RowMoves, Kept, Row
    <2>2. CASE ComesDue(k)
      <3>1. job' = [job EXCEPT ![k].due = TRUE] /\ polled' = polled
        BY <2>2 DEF ComesDue
      <3>2. job[k] \in Row /\ job[j] \in Row
        OBVIOUS
      <3>. QED BY <3>1, <3>2 DEF RowMoves, Kept, Row
    <2>. QED BY <1>2, <2>1, <2>2
  <1>3. ASSUME NEW w \in Workers, Claim(w) PROVE RowMoves(j)
    <2>1. PICK k \in Oldest(Claimable(w)) : job' = [Recovered EXCEPT ![k] = Leased(job[k], w)]
      BY <1>3 DEF Claim
    <2>2. /\ k \in Jobs /\ job[k].status \in {"queued", "retry_wait"} /\ job[k] \in Row
          /\ polled' = polled
      BY <1>3, OldestIsOne, QueueAssumption DEF Claimable, Claim
    <2>3. Recovered \in [Jobs -> Row]
      BY RecoveredIsTyped
    <2>4. CASE j = k
      <3>1. job'[j] = Leased(job[k], w)
        BY <2>1, <2>2, <2>3, <2>4
      <3>. QED BY <2>2, <2>4, <3>1, LeasedIsRow DEF RowMoves, Begun
    <2>5. CASE j # k
      BY <2>1, <2>2, <2>3, <2>5, RecoveredMoves
    <2>. QED BY <2>4, <2>5
  <1>4. ASSUME NEW w \in Workers, Start(w) \/ Crash(w) PROVE RowMoves(j)
    BY <1>4 DEF Start, Crash, RowMoves, Kept
  <1>5. ASSUME NEW w \in Workers, Finish(w) PROVE RowMoves(j)
    BY <1>5, FinishMoves
  <1>f. ASSUME NEW w \in Workers, FailEarly(w) PROVE RowMoves(j)
    <2>1. /\ worker[w].job \in Jobs /\ job[worker[w].job].status = "running"
          /\ job[j] \in Row /\ polled' = polled
          /\ job' = [job EXCEPT ![worker[w].job].status = "failed"]
      BY <1>f DEF FailEarly, HolderOwnsRow, HoldsAJob
    <2>2. CASE j = worker[w].job
      <3>1. job'[j] = [job[j] EXCEPT !.status = "failed"]
        BY <2>1, <2>2
      <3>. QED BY <2>1, <2>2, <3>1 DEF RowMoves, Ended, Busy, Row, Terminal
    <2>3. CASE j # worker[w].job
      BY <2>1, <2>3 DEF RowMoves, Kept
    <2>. QED BY <2>2, <2>3
  <1>6. CASE Sweep
    BY <1>6, RecoveredMoves DEF Sweep
  <1>7. CASE UNCHANGED vars
    BY <1>7 DEF vars, RowMoves, Kept
  <1>. QED BY <1>1, <1>2, <1>3, <1>4, <1>5, <1>f, <1>6, <1>7 DEF Next
-----------------------------------------------------------------------------
(* The retry limit, with the rows that may still begin one below it.         *)
InBudget(row, limit) ==
    /\ row.attempts <= limit
    /\ row.status \in {"absent", "queued", "retry_wait"} => row.attempts < limit

Budgeted == \A j \in Jobs : InBudget(job[j], MaxAttempts[j] + polled[j])

LEMMA NextBudgeted ==
    ASSUME Typed, HolderOwnsRow, Budgeted, [Next]_vars
    PROVE  Budgeted'
  <1>. SUFFICES ASSUME NEW j \in Jobs PROVE InBudget(job[j], MaxAttempts[j] + polled[j])'
    BY DEF Budgeted
  <1>1. RowMoves(j) /\ InBudget(job[j], MaxAttempts[j] + polled[j])
    BY NextMoves DEF Budgeted
  <1>2. job[j].attempts \in Nat /\ polled[j] \in Nat /\ MaxAttempts[j] \in Nat
    BY QueueAssumption DEF Typed, TypeOK, Row
  <1>. QED BY <1>1, <1>2 DEF RowMoves, Kept, Queued, Begun, Ended, Again, InBudget, Terminal

(* While no attempt outlives its lease, no job is begun more often than its  *)
(* max_attempts and its waiting_rma answers allow.                           *)
THEOREM RetryLimit ==
    ASSUME LeaseOutlivesAttempt
    PROVE  Spec => []AttemptBudget
  <1>1. Init => Budgeted
    <2>. SUFFICES ASSUME Init, NEW j \in Jobs
                  PROVE  InBudget(job[j], MaxAttempts[j] + polled[j])
      BY DEF Budgeted
    <2>1. MaxAttempts[j] \in Nat \ {0} /\ polled[j] = 0
      BY QueueAssumption DEF Init
    <2>2. job[j] = Absent \/ job[j] = [Absent EXCEPT !.status = "running", !.attempts = 1]
      BY DEF Init
    <2>3. /\ job[j].attempts \in {0, 1} /\ job[j].status \in {"absent", "running"}
          /\ job[j].status = "absent" => job[j].attempts = 0
      <3>1. CASE job[j] = Absent
        BY <3>1 DEF Absent
      <3>2. CASE job[j] = [Absent EXCEPT !.status = "running", !.attempts = 1]
        BY <3>2 DEF Absent
      <3>. QED BY <2>2, <3>1, <3>2
    <2>. QED BY <2>1, <2>3 DEF InBudget
  <1>2. Typed /\ HolderOwnsRow /\ Budgeted /\ [Next]_vars => Budgeted'
    BY NextBudgeted
  <1>3. Budgeted => AttemptBudget
    BY DEF Budgeted, InBudget, AttemptBudget
  <1>. QED BY <1>1, <1>2, <1>3, InitTyped, NextTyped, LeaseProtects, PTL DEF Spec

(* ... and what has ended, its runner gone, is not reopened or rewritten by  *)
(* a late result, a recovery or a claim.                                     *)
THEOREM EndedForGood ==
    ASSUME LeaseOutlivesAttempt
    PROVE  Spec => FinishedIsFinal
  <1>1. Typed /\ HolderOwnsRow /\ [Next]_vars =>
           [\A j \in Jobs : Settled(j) => job'[j].status = job[j].status]_vars
    BY NextMoves DEF RowMoves, Kept, Queued, Begun, Ended, Again, Busy, Settled, Terminal
  <1>. QED BY <1>1, InitTyped, NextTyped, LeaseProtects, PTL DEF Spec, FinishedIsFinal
-----------------------------------------------------------------------------
(* JobQueue implements JobLifecycle for every set of jobs and workers, as    *)
(* long as no attempt outlives its lease.                                    *)
PhaseOf(status, failing) == CASE status = "absent" -> "absent"
                              [] status \in {"queued", "retry_wait"} -> "waiting"
                              [] status = "running" -> "begun"
                              [] OTHER -> IF failing THEN "failing" ELSE status

LEMMA PhaseIs == \A j \in Jobs : Phase[j] = PhaseOf(job[j].status, Failing(j))
  BY DEF Phase, PhaseOf

LEMMA PhaseAfter == \A j \in Jobs : Phase'[j] = PhaseOf(job'[j].status, Failing(j)')
  BY DEF Phase, PhaseOf

LEMMA PhaseValues ==
    ASSUME NEW status \in Status, NEW failing \in BOOLEAN
    PROVE  /\ PhaseOf(status, failing) \in
                 {"absent", "waiting", "begun", "failing"} \cup Terminal
           /\ status \in {"queued", "retry_wait"} => PhaseOf(status, failing) = "waiting"
           /\ status = "running" => PhaseOf(status, failing) = "begun"
           /\ status = "absent" => PhaseOf(status, failing) = "absent"
           /\ status \in Terminal =>
                 PhaseOf(status, failing) = IF failing THEN "failing" ELSE status
  BY DEF PhaseOf, Status, Terminal

(* A job that is failing is failed on record.                                *)
LEMMA FailingIsFailed ==
    ASSUME HolderOwnsRow, NEW j \in Jobs, Failing(j)
    PROVE  job[j].status = "failed"
  BY DEF HolderOwnsRow, Failing, Holding

(* Who raises does so before and after a step that changes no such worker.   *)
LEMMA FailingKept ==
    ASSUME \A v \in Workers : worker[v].pc = "raising" \/ worker'[v].pc = "raising" =>
              worker'[v].pc = worker[v].pc /\ worker'[v].job = worker[v].job
    PROVE  \A j : Failing(j)' = Failing(j)
  BY DEF Failing, Holding

(* The one runner of a job is the worker that executes it.                   *)
LEMMA OneExecutes ==
    ASSUME HolderOwnsRow, NEW w \in Workers, worker[w].pc \in {"executing", "raising"}
    PROVE  Executing(worker[w].job) = {w}
  BY HoldersApart DEF Executing, Holding

LEMMA StaleIsFree ==
    ASSUME HolderOwnsRow, NEW j \in Jobs, Stale(job[j])
    PROVE  Executing(j) = {}
  BY DEF Executing, Holding, HolderOwnsRow, Stale

(* A step that changes neither pc nor job of any executing worker.           *)
LEMMA RunnerKept ==
    ASSUME Typed, NEW w \in Workers, worker[w].pc \in {"idle", "claimed"},
           NEW copy, worker' = [worker EXCEPT ![w] = copy], copy.pc \in {"idle", "claimed"}
    PROVE  Runner' = Runner /\ \A j : Failing(j)' = Failing(j)
  <1>1. ASSUME NEW j \in Jobs PROVE Executing(j)' = Executing(j)
    BY DEF Executing, Holding, Typed, TypeOK
  <1>2. \A j : Failing(j)' = Failing(j)
    BY FailingKept DEF Typed, TypeOK
  <1>. QED BY <1>1, <1>2 DEF Runner
-----------------------------------------------------------------------------
LEMMA InitImplements == Init => Lifecycle!Init
  <1>. SUFFICES ASSUME Init PROVE Lifecycle!Init
    OBVIOUS
  <1>1. PICK found \in SUBSET Legacy :
          job = [j \in Jobs |-> IF j \in found
                                THEN [Absent EXCEPT !.status = "running", !.attempts = 1]
                                ELSE Absent]
    BY DEF Init
  <1>2. found \in SUBSET Jobs
    BY QueueAssumption
  <1>3. ASSUME NEW j \in Jobs
        PROVE  Phase[j] = IF j \in found THEN "begun" ELSE "absent"
    <2>1. CASE j \in found
      BY <1>1, <2>1 DEF Phase, Absent
    <2>2. CASE j \notin found
      BY <1>1, <2>2 DEF Phase, Absent
    <2>. QED BY <2>1, <2>2
  <1>4. Phase = [j \in Jobs |-> IF j \in found THEN "begun" ELSE "absent"]
    BY <1>3 DEF Phase
  <1>5. Runner = [j \in Jobs |-> {}]
    BY DEF Runner, Executing, Holding, Init, Unclaimed
  <1>. QED BY <1>2, <1>4, <1>5 DEF Lifecycle!Init

(* One transaction of claim_next_job or recover_stale_jobs.                  *)
LEMMA DispatchStep ==
    ASSUME Typed, Typed', HolderOwnsRow, Runner' = Runner,
           \A k : Failing(k)' = Failing(k),
           \A k \in Jobs : \/ job'[k] = Recovered[k]
                           \/ /\ job[k].status \in {"queued", "retry_wait"}
                              /\ job'[k].status = "running"
    PROVE  Lifecycle!Dispatch
  <1>1. Phase' \in [Jobs -> {"absent", "waiting", "begun", "failing"} \cup Terminal]
    <2>1. ASSUME NEW j \in Jobs
          PROVE  Phase'[j] \in {"absent", "waiting", "begun", "failing"} \cup Terminal
      <3>1. job'[j].status \in Status /\ Failing(j)' \in BOOLEAN
        BY DEF Typed, TypeOK, Row, Failing
      <3>2. Phase'[j] = PhaseOf(job'[j].status, Failing(j)')
        BY PhaseAfter
      <3>. QED BY <3>1, <3>2, PhaseValues
    <2>. QED BY <2>1 DEF Phase
  <1>2. ASSUME NEW k \in Jobs PROVE Lifecycle!Dispatched(k)
    <2>0. job[k] \in Row /\ job'[k] \in Row
      BY DEF Typed, TypeOK
    <2>1. CASE job'[k] = Recovered[k] /\ Stale(job[k])
      <3>1. /\ job[k].status = "running" /\ job'[k].status \in {"retry_wait", "failed"}
        BY <2>0, <2>1, RecoverIsRow, QueueAssumption DEF Recovered, Stale
      <3>2. Runner[k] = {} /\ ~Failing(k)
        BY <2>1, StaleIsFree DEF Runner, Failing, Executing, Holding
      <3>3. Phase[k] = "begun" /\ Phase'[k] \in {"waiting", "failed"}
        BY <3>1, <3>2, PhaseIs, PhaseAfter DEF PhaseOf
      <3>. QED BY <3>2, <3>3 DEF Lifecycle!Dispatched
    <2>2. CASE job'[k] = Recovered[k] /\ ~Stale(job[k])
      <3>1. job'[k] = job[k]
        BY <2>2 DEF Recovered
      <3>. QED BY <3>1, PhaseIs, PhaseAfter DEF Lifecycle!Dispatched
    <2>3. CASE /\ job[k].status \in {"queued", "retry_wait"}
               /\ job'[k].status = "running"
      <3>1. Phase[k] = "waiting" /\ Phase'[k] = "begun"
        BY <2>3, PhaseIs, PhaseAfter DEF PhaseOf
      <3>. QED BY <3>1 DEF Lifecycle!Dispatched
    <2>. QED BY <2>1, <2>2, <2>3
  <1>. QED BY <1>1, <1>2 DEF Lifecycle!Dispatch

(* A result that is written: the runner reports and is gone.                 *)
LEMMA ReportStep ==
    ASSUME Typed, HolderOwnsRow, NEW w \in Workers,
           worker[w].pc \in {"executing", "raising"},
           NEW status \in Terminal \cup {"retry_wait"},
           Complete(w, Freed(job[worker[w].job], status))
    PROVE  \E to \in Terminal \cup {"waiting"} : Lifecycle!Report(worker[w].job, to)
  <1>. DEFINE j == worker[w].job
              to == PhaseOf(status, FALSE)
  <1>1. /\ j \in Jobs /\ job[j] \in Row
        /\ \/ job[j].status = "running"
           \/ job[j].status = "failed" /\ Failing(j)
    BY DEF HolderOwnsRow, Typed, TypeOK, HoldsAJob, Failing, Holding
  <1>2. status \in Status /\ to \in Terminal \cup {"waiting"}
    BY DEF PhaseOf, Status, Terminal
  <1>3. job' = [job EXCEPT ![j] = Freed(job[j], status)]
        /\ worker' = [worker EXCEPT ![w] = Unclaimed]
    BY DEF Complete
  <1>4. \A k \in Jobs : job'[k].status = IF k = j THEN status ELSE job[k].status
    BY <1>1, <1>2, <1>3, FreedIsRow DEF Typed, TypeOK
  <1>f. \A k \in Jobs : Failing(k)' <=> IF k = j THEN FALSE ELSE Failing(k)
    <2>1. ASSUME NEW k \in Jobs PROVE Failing(k)' <=> IF k = j THEN FALSE ELSE Failing(k)
      <3>1. /\ \A v \in Workers : v # w => worker'[v] = worker[v]
            /\ worker'[w].pc = "idle"
        BY <1>3 DEF Unclaimed, Typed, TypeOK
      <3>2. \A v \in Workers : v # w /\ worker[v].pc = "raising" => worker[v].job # j
        BY HoldersApart
      <3>. QED BY <3>1, <3>2 DEF Failing, Holding
    <2>. QED BY <2>1
  <1>5. Phase[j] \in {"begun", "failing"} /\ Phase' = [Phase EXCEPT ![j] = to]
    <2>1. \A k \in Jobs : Phase'[k] = IF k = j THEN to ELSE Phase[k]
      BY <1>4, <1>f, PhaseIs, PhaseAfter DEF PhaseOf
    <2>2. Phase[j] \in {"begun", "failing"}
      BY <1>1, PhaseIs DEF PhaseOf
    <2>. QED BY <2>1, <2>2 DEF Phase
  <1>6. Runner[j] # {} /\ Runner' = [Runner EXCEPT ![j] = {}]
    <2>1. Executing(j) = {w}
      BY OneExecutes
    <2>2. ASSUME NEW k \in Jobs PROVE Executing(k)' = IF k = j THEN {} ELSE Executing(k)
      BY <1>3, <2>1 DEF Executing, Holding, Unclaimed, Typed, TypeOK
    <2>. QED BY <1>1, <2>1, <2>2 DEF Runner
  <1>. QED BY <1>2, <1>5, <1>6 DEF Lifecycle!Report

LEMMA FinishImplements ==
    ASSUME Typed, HolderOwnsRow, NEW w \in Workers, Finish(w)
    PROVE  Lifecycle!Next
  <1>0. worker[w].pc \in {"executing", "raising"} /\ worker[w].job \in Jobs
    BY DEF Finish, Succeed, KeepWaiting, Supersede, ReportFailure, Raise, Typed, HoldsAJob
  <1>1. \E status \in Terminal \cup {"retry_wait"} :
           Complete(w, Freed(job[worker[w].job], status))
    <2>1. CASE Succeed(w) \/ KeepWaiting(w) \/ Supersede(w)
      BY <2>1 DEF Succeed, KeepWaiting, Supersede, Terminal
    <2>2. ASSUME NEW retryable \in BOOLEAN,
                 NEW status \in {"needs_manual_review", "failed"},
                 ReportFailure(w, retryable, status) \/ Raise(w, retryable, status)
          PROVE  \E n : Complete(w, Freed(job[worker[w].job],
                                 RetryOr(status, retryable, n, worker[w].job)))
      BY <2>2 DEF ReportFailure, Raise
    <2>3. ASSUME NEW retryable \in BOOLEAN,
                 NEW status \in {"needs_manual_review", "failed"}, NEW n, NEW j
          PROVE  RetryOr(status, retryable, n, j) \in Terminal \cup {"retry_wait"}
      BY DEF RetryOr, Terminal
    <2>. QED BY <2>1, <2>2, <2>3 DEF Finish
  <1>. QED BY <1>0, <1>1, ReportStep DEF Lifecycle!Next

LEMMA StartImplements ==
    ASSUME Typed, HolderOwnsRow, NEW w \in Workers, Start(w)
    PROVE  Lifecycle!Next
  <1>. DEFINE j == worker[w].job
  <1>1. /\ j \in Jobs /\ job[j].status = "running" /\ worker[w].pc = "claimed"
        /\ job' = job
    BY DEF Start, HolderOwnsRow, Typed, HoldsAJob
  <1>2. worker' = [worker EXCEPT ![w] = [@ EXCEPT !.pc = "executing",
                                                   !.attempts = job[j].attempts]]
    BY <1>1 DEF Start
  <1>3. Executing(j) = {}
    BY <1>1, HoldersApart DEF Executing, Holding
  <1>4. /\ \A v \in Workers : v # w => worker'[v] = worker[v]
        /\ worker'[w].pc = "executing" /\ worker'[w].job = j
    BY <1>2 DEF Typed, TypeOK
  <1>5. ASSUME NEW k \in Jobs
        PROVE  Executing(k)' = IF k = j THEN {w} ELSE Executing(k)
    BY <1>1, <1>3, <1>4 DEF Executing, Holding
  <1>6. Runner[j] = {} /\ Runner' = [Runner EXCEPT ![j] = {w}]
    BY <1>1, <1>3, <1>5 DEF Runner
  <1>f. \A k : Failing(k)' = Failing(k)
    BY <1>1, <1>4, FailingKept
  <1>7. Phase[j] = "begun" /\ Phase' = Phase
    <2>1. Phase[j] = "begun"
      BY <1>1, PhaseIs DEF PhaseOf
    <2>. QED BY <1>1, <1>f, <2>1 DEF Phase
  <1>. QED BY <1>1, <1>6, <1>7 DEF Lifecycle!Next, Lifecycle!Enter

LEMMA FailEarlyImplements ==
    ASSUME Typed, HolderOwnsRow, NEW w \in Workers, FailEarly(w)
    PROVE  Lifecycle!Next
  <1>. DEFINE j == worker[w].job
  <1>1. /\ j \in Jobs /\ job[j].status = "running" /\ worker[w].pc = "executing"
        /\ ~Failing(j) /\ Executing(j) = {w}
    BY FailingIsFailed, OneExecutes DEF FailEarly, HolderOwnsRow, Typed, HoldsAJob
  <1>2. /\ \A v \in Workers : v # w => worker'[v] = worker[v]
        /\ worker'[w].pc = "raising" /\ worker'[w].job = j
    BY DEF FailEarly, Typed, TypeOK
  <1>3. \A k \in Jobs : job'[k].status = IF k = j THEN "failed" ELSE job[k].status
    <2>1. job' = [job EXCEPT ![j].status = "failed"] /\ job \in [Jobs -> Row]
      BY DEF FailEarly, Typed, TypeOK
    <2>. QED BY <1>1, <2>1 DEF Row
  <1>4. ASSUME NEW k \in Jobs
        PROVE  /\ Executing(k)' = Executing(k)
               /\ Failing(k)' <=> IF k = j THEN TRUE ELSE Failing(k)
    BY <1>1, <1>2 DEF Executing, Failing, Holding
  <1>5. Phase[j] = "begun" /\ Phase' = [Phase EXCEPT ![j] = "failing"]
    <2>1. Phase[j] = "begun"
      BY <1>1, PhaseIs DEF PhaseOf
    <2>2. \A k \in Jobs : Phase'[k] = IF k = j THEN "failing" ELSE Phase[k]
      BY <1>3, <1>4, PhaseIs, PhaseAfter DEF PhaseOf
    <2>. QED BY <2>1, <2>2 DEF Phase
  <1>6. Runner[j] # {} /\ Runner' = Runner
    BY <1>1, <1>4 DEF Runner
  <1>. QED BY <1>1, <1>5, <1>6 DEF Lifecycle!Next, Lifecycle!Falter

LEMMA CrashImplements ==
    ASSUME Typed, HolderOwnsRow, NEW w \in Workers, Crash(w)
    PROVE  [Lifecycle!Next]_Lifecycle!vars
  <1>. DEFINE j == worker[w].job
  <1>1. /\ job' = job /\ worker[w].pc # "idle" /\ worker' = [worker EXCEPT ![w] = Unclaimed]
        /\ \A v \in Workers : v # w => worker'[v] = worker[v]
        /\ worker'[w].pc = "idle"
    BY DEF Crash, Unclaimed, Typed, TypeOK
  <1>2. CASE worker[w].pc \in {"executing", "raising"}
    <2>1. j \in Jobs /\ Executing(j) = {w}
      BY <1>2, OneExecutes DEF Typed, HoldsAJob
    <2>2. ASSUME NEW k \in Jobs PROVE Executing(k)' = IF k = j THEN {} ELSE Executing(k)
      BY <1>1, <1>2, <2>1 DEF Executing, Holding
    <2>3. Runner[j] # {} /\ Runner' = [Runner EXCEPT ![j] = {}]
      BY <2>1, <2>2 DEF Runner
    <2>4. ASSUME NEW k \in Jobs
          PROVE  Failing(k)' <=> IF k = j THEN FALSE ELSE Failing(k)
      <3>1. \A v \in Workers : v # w /\ worker[v].pc = "raising" => worker[v].job # j
        BY <1>1, HoldersApart
      <3>. QED BY <1>1, <3>1 DEF Failing, Holding
    <2>5. Failing(j) => job[j].status = "failed"
      BY <2>1, FailingIsFailed
    <2>6. ASSUME NEW k \in Jobs
          PROVE  Phase'[k] = IF k = j THEN IF Phase[j] = "failing" THEN "failed" ELSE Phase[j]
                                      ELSE Phase[k]
      <3>1. Phase[k] = PhaseOf(job[k].status, Failing(k))
            /\ Phase'[k] = PhaseOf(job[k].status, Failing(k)')
        BY <1>1, PhaseIs, PhaseAfter
      <3>2. CASE k # j
        BY <2>4, <3>1, <3>2 DEF PhaseOf
      <3>3. CASE k = j /\ Failing(j)
        BY <2>4, <2>5, <3>1, <3>3 DEF PhaseOf
      <3>4. CASE k = j /\ ~Failing(j)
        <4>1. job[j].status \in Status
          BY <2>1 DEF Typed, TypeOK, Row
        <4>. QED BY <2>4, <3>1, <3>4, <4>1 DEF PhaseOf, Status, Terminal
      <3>. QED BY <3>2, <3>3, <3>4
    <2>7. Phase' = [Phase EXCEPT ![j] = IF @ = "failing" THEN "failed" ELSE @]
      BY <2>1, <2>6 DEF Phase
    <2>. QED BY <2>1, <2>3, <2>7 DEF Lifecycle!Next, Lifecycle!Vanish
  <1>3. CASE worker[w].pc \in {"idle", "claimed"}
    <2>1. Runner' = Runner /\ \A k : Failing(k)' = Failing(k)
      BY <1>1, <1>3, RunnerKept DEF Unclaimed
    <2>2. Phase' = Phase
      BY <1>1, <2>1 DEF Phase
    <2>. QED BY <2>1, <2>2 DEF Lifecycle!vars
  <1>. QED BY <1>2, <1>3 DEF Typed, TypeOK

LEMMA NextImplements ==
    ASSUME Typed, Typed', HolderOwnsRow, [Next]_vars
    PROVE  [Lifecycle!Next]_Lifecycle!vars
  <1>k. ASSUME UNCHANGED worker
        PROVE  Runner' = Runner /\ \A j : Failing(j)' = Failing(j)
    BY <1>k DEF Runner, Executing, Failing, Holding
  <1>1. ASSUME NEW j \in Jobs, NEW now \in BOOLEAN, Enqueue(j, now)
        PROVE  Lifecycle!Next
    <2>1. \A k \in Jobs : job'[k].status = IF k = j THEN "queued" ELSE job[k].status
      BY <1>1 DEF Enqueue, Typed, TypeOK, Row
    <2>2. Phase[j] = "absent" /\ \A k \in Jobs : Phase'[k] = IF k = j THEN "waiting" ELSE Phase[k]
      <3>1. job[j].status = "absent" /\ \A k : Failing(k)' = Failing(k)
        BY <1>1, <1>k DEF Enqueue
      <3>. QED BY <2>1, <3>1, PhaseIs, PhaseAfter DEF PhaseOf
    <2>3. Phase' = [Phase EXCEPT ![j] = "waiting"]
      BY <2>2 DEF Phase
    <2>. QED BY <1>1, <1>k, <2>2, <2>3 DEF Enqueue, Lifecycle!Next, Lifecycle!Submit
  <1>2. ASSUME NEW j \in Jobs, LeaseExpires(j) \/ ComesDue(j)
        PROVE  UNCHANGED Lifecycle!vars
    <2>1. \A k \in Jobs : job[k] \in Row
      BY DEF Typed, TypeOK
    <2>2. \/ job' = [job EXCEPT ![j].lease = "expired"]
          \/ job' = [job EXCEPT ![j].due = TRUE]
      BY <1>2 DEF LeaseExpires, ComesDue
    <2>3. \A k \in Jobs : job'[k].status = job[k].status
      <3>1. CASE job' = [job EXCEPT ![j].lease = "expired"]
        BY <2>1, <3>1 DEF Row, Typed, TypeOK
      <3>2. CASE job' = [job EXCEPT ![j].due = TRUE]
        BY <2>1, <3>2 DEF Row, Typed, TypeOK
      <3>. QED BY <2>2, <3>1, <3>2
    <2>4. Phase' = Phase
      BY <1>2, <1>k, <2>3 DEF Phase, LeaseExpires, ComesDue
    <2>. QED BY <1>2, <1>k, <2>4 DEF LeaseExpires, ComesDue, Lifecycle!vars
  <1>3. ASSUME NEW w \in Workers, Claim(w) PROVE Lifecycle!Next
    <2>1. PICK j \in Oldest(Claimable(w)) :
             /\ job' = [Recovered EXCEPT ![j] = Leased(job[j], w)]
             /\ worker' = [worker EXCEPT ![w] = [pc |-> "claimed", job |-> j, attempts |-> 0]]
      BY <1>3 DEF Claim
    <2>2. j \in Jobs /\ job[j].status \in {"queued", "retry_wait"} /\ job[j] \in Row
      BY OldestIsOne, QueueAssumption DEF Claimable, Typed, TypeOK
    <2>3. Recovered \in [Jobs -> Row]
      BY RecoveredIsTyped DEF Typed, TypeOK
    <2>4. job'[j].status = "running" /\ \A k \in Jobs \ {j} : job'[k] = Recovered[k]
      BY <2>1, <2>2, <2>3, LeasedIsRow
    <2>5. Runner' = Runner /\ \A k : Failing(k)' = Failing(k)
      <3>. DEFINE copy == [pc |-> "claimed", job |-> j, attempts |-> 0]
      <3>1. worker' = [worker EXCEPT ![w] = copy] /\ copy.pc = "claimed"
        BY <2>1
      <3>2. worker[w].pc = "idle"
        BY <1>3 DEF Claim
      <3>. HIDE DEF copy
      <3>. QED BY <3>1, <3>2, RunnerKept
    <2>. QED BY <2>2, <2>4, <2>5, DispatchStep DEF Lifecycle!Next
  <1>4. ASSUME NEW w \in Workers, Start(w) PROVE Lifecycle!Next
    BY <1>4, StartImplements
  <1>5. ASSUME NEW w \in Workers, Finish(w) PROVE Lifecycle!Next
    BY <1>5, FinishImplements
  <1>f. ASSUME NEW w \in Workers, FailEarly(w) PROVE Lifecycle!Next
    BY <1>f, FailEarlyImplements
  <1>6. ASSUME NEW w \in Workers, Crash(w) PROVE [Lifecycle!Next]_Lifecycle!vars
    BY <1>6, CrashImplements
  <1>7. CASE Sweep
    BY <1>7, <1>k, DispatchStep DEF Sweep, Lifecycle!Next
  <1>8. CASE UNCHANGED vars
    <2>1. job' = job /\ \A j : Failing(j)' = Failing(j)
      BY <1>8, <1>k DEF vars
    <2>2. Phase' = Phase
      BY <2>1 DEF Phase
    <2>. QED BY <1>8, <1>k, <2>2 DEF vars, Lifecycle!vars
  <1>. QED BY <1>1, <1>2, <1>3, <1>4, <1>5, <1>f, <1>6, <1>7, <1>8 DEF Next

(* The queue keeps the promise of JobLifecycle: one runner per job, results  *)
(* only from the runner, phases in order.                                    *)
THEOREM Refines ==
    ASSUME LeaseOutlivesAttempt
    PROVE  Spec => ImplementsLifecycle
  <1>1. Typed /\ Typed' /\ HolderOwnsRow /\ [Next]_vars => [Lifecycle!Next]_Lifecycle!vars
    BY NextImplements
  <1>. QED BY <1>1, InitTyped, NextTyped, InitImplements, LeaseProtects, PTL
           DEF Spec, ImplementsLifecycle, Lifecycle!Spec
=============================================================================
